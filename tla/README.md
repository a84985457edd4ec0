# cosimosi: a TLA+ model of its core

cosimosi keeps a user's diary as a *universe*: a diary that is launched becomes memories, each of
which activates neurons that are linked by synapses; memories fade, are recalled, are rewritten and
can be released. The server is a Go API with a worker in the same or in a second process, over one
PostgreSQL database; the clients are TypeScript. The modules beside this file model the parts of server
and client where steps of several actors, crashes, late answers and clocks meet, check them with TLC on
small instances and prove their main properties with TLAPS for every instance. Paths below are relative
to `src/apps/api/` unless they begin with `src/` or `packages/` (which is `src/packages/`).

## 1. Inventory

| Component | State | Operations | What it talks to | What is hard | Modelled |
|---|---|---|---|---|---|
| job queue, `internal/platform/jobqueue`, `db/queries/platform/jobqueue.sql` | `jobs`, `job_targets`; per process the lanes and the cleanup window | enqueue, claim, run, complete, retry, fail, cancel, requeue, purge; drain, restart | every component enqueues; handlers call back into components | leases that lapse under a running handler, killed workers, lost answers, two retry policies, a ceiling on claims, cleanup of rows still needed | `JobQueue`, `JobLifecycle` |
| ledger, `internal/twinkle` | `twinkle_ledger_entries`, `twinkle_balances`; reads the profile's time zone | spend (recall, purchase), earn, invite reward, fold | called by memory, account, achievement, store and admin in their own or its transaction | plans made on unlocked reads, retries in flight, midnight and zone changes, lifetime caps, two balances in one transaction | `Twinkle`, `LedgerContract` |
| release, restore, letting go, retention sweep, `internal/memory/release.go`, `deletion.go`, `pg/release.go`, `db/queries/memory/release.sql`, `deletion.sql` | memories, neurons with their seal, synapse strengths, `release_groups` and their effects | release, restore, sweep of the expired, sweep of one group, let go | cancels, revives, enqueues and deletes jobs in its transactions | releases that overlap on neurons and synapses and end in any order; clocks read before the graph lock; handlers between read and save | `Release`, `ReleaseJobs`, `DiaryPromise` |
| account: withdrawal and restore, `internal/account/withdrawal.go`, `internal/platform/withdrawn_scope.go` | `users.deleted_at`, the job row, the status cache, the credential, the data of every context | withdraw, restore, gate, sweep | the queue, every `PurgeUser` leg, the authentication provider | a schedule, a mark and a cancellation that share no transaction, a cache, a sweep over several systems | `Withdrawal` |
| launch and asynchronous jobs, `internal/memory/launch.go`, `link.go`, `jobs.go`, `worker.go` | graph, embeddings, semantic ladder | launch; embed, semanticize, retention handlers | the queue, providers | what is read before a provider call and saved after | partly, in `Release` and `ReleaseJobs` |
| recall, paid views, receipts, `internal/memory/recall.go`, `paid_actions.go`, `view_semantic.go`, `restore_memory_text.go` | receipts, text and its revision, universe clock | recall, restore a text, view a gist | ledger, providers, the paid flows of the client | a source that moves on during a provider call, a retry that meets its first attempt | `PaidAction` |
| client: paid flows, `packages/universe/src/paid-action-session.ts`, `recall-flow.machine.ts`, `gist-view.machine.ts` and their hooks | operation ids, the dialog, the view, the draft | open, consent, quote, confirm, edit, retry, close | the paid actions | lost answers, answers that come after the dialog moved on | `PaidAction` |
| store, `internal/store`, `packages/store` | owned and worn ornaments; the panel, its preview and the confirmed selection | decorate, grant; open, pick, save, close, leave | ledger, achievement | saves that overlap without an account lock; a save that outlives its panel | `Decoration` |
| client: session, `packages/auth` | status, identity, access, attempt, epoch | sign in (four ways), sign out, force out, refresh, cancel, reports of the adapter | the authentication provider | calls that settle late and in any order, an epoch that is rolled back | `Session` |
| client: mirror of the universe, `packages/universe` stores, `packages/client-cache`, `packages/auth/src/completion-scope.ts` | stars on screen, pending launches, released groups, cached snapshot | read, refocus, launch, release, restore, leave and enter a page, change account | the service, the query cache | snapshots older than what was just done, answers for an account that is gone | `UniverseMirror` |
| universe clock, consolidation, `internal/memory/clock.go`, `sync.go`, `consolidate.go` | clock row, watermark, gist timer, ladder and provenance of each memory | launch, sync and recall move the clock; each move consolidates the days it crossed | enqueues regenerations and re-embeddings | jumps of any length beside generations that are late, lost or of an old text | `Consolidation`; the consent in `PaidAction` |
| signup and invites, `internal/account/signup.go`, `invite.go` | profile, invites, settlement stamps | sign up, bind, settle | ledger | three steps without a transaction | the credit only, in `Twinkle` |
| achievement, `internal/achievement` | progress, claims, settlement stamps | record, claim, settle, drain | ledger, queue | paid between two stamps | a counter and a grant, in `Decoration` |
| AI runtime and metering, authentication of requests, admin | configuration, key cache, meters | reload, call, verify | providers | caches | no |
| other client machines (command, panel, sequence, signup form, navigation) | one screen's phase | events of one user | - | little: one actor | no |
| reads, numerics, rendering, screens | none, or floating point | pure | - | not concurrent; real numbers | no |

`PROJECT.json` lists each with its sources under `components`, and under `hazards` every place found
where a test would hardly reach, with the property that watches it or the reason none does.

What makes each component correct, in one line each:

- queue: a job is settled by its latest claimer only; an ordinary job is run a bounded number of times, a
  durable one is never given up; nothing that still needs its row loses it.
- ledger: an entry and its delta commit together and once per request; no debt, no window over its
  grant, no inviter over the cap, no half invite.
- release: a diary goes, comes back and is lost as a whole, and is lost only past its window; what
  stays is as if the release had never been, in whatever order releases end.
- withdrawal: an account is deleted only past its window and then completely; the gate agrees with
  the last reply.
- consolidation: however the days are cut, each memory is slept over once, rises at the pace of the days,
  and what it shows has a text and a history row.
- paid actions: one quote, one charge, one answer, shown where it was asked for.
- store: one ornament, one payment; what is worn was chosen as a whole.
- session: a result counts only while nothing newer has happened; what is signed out stays out.
- mirror: what the user did and was answered is what the user sees, of this account only.

## 2. Modules and the code

| Module | Kind | Models |
|---|---|---|
| `JobQueue` | detailed | the statements of the store, one action each, and the turn of a lane around them |
| `JobLifecycle` | abstract | what the queue promises: waiting, held by at most one, ended by its holder |
| `JobQueueRefinement` | mapping | `JobQueue` implements `JobLifecycle` |
| `Twinkle` | detailed | a ledger transaction, one action per statement, under READ COMMITTED |
| `LedgerContract` | abstract | whole postings to a log and to balances |
| `TwinkleRefinement` | mapping | `Twinkle` implements `LedgerContract` |
| `Release` | detailed | the transactions of release, restore, sweep and letting go over one graph |
| `DiaryPromise` | abstract | kept, released, lost: the fate of a diary |
| `ReleaseRefinement` | mapping | `Release` implements `DiaryPromise` |
| `ReleaseJobs` | composition | `Release` with the jobs its transactions write and the handlers that run them |
| `Consolidation` | detailed | the moves of the universe clock, recalls, and the semanticize handler |
| `Withdrawal` | detailed | requests, gate, cache, sweep and the job row of one account |
| `PaidAction` | composition | the client's paid flows, the wire, and the service with its receipts |
| `Decoration` | composition | the panel with its preview store, and the saves of the store service |
| `Session` | detailed | the session machine and the facade around the adapter |
| `UniverseMirror` | composition | the client's stores, its query cache, the wire and the service |
| `...Proofs` (seven) | proofs | section 5 |
| `Sums` | lemmas | sums over finite sets, for the proofs about the ledger and the graph |
| `MC*` | instances | model values and small functions for TLC |

**JobQueue.** `status`, `attempts`, `runAt`, `gen`, `endedAt` are the columns `status`, `attempts`,
`next_run_at`, `lease_generation`, `terminal_at` of `jobs`; `group` says whether the release group a
retention sweep targets exists; `pc`, `readAt`, `claim` are the locals of `Runner.runLane`/`RunOnce`;
`cleanAt` is `nextCleanupAt`; `phase` stands for the run and the work context. A claim is `ClaimDueJob`
(`SKIP LOCKED` makes any due row possible), `ClaimLost` the claim whose answer is lost after its commit.
`Complete`, `DeadLetter`, `RetryLater`, `FailAttempt`, `ReleaseAborted` are the outcomes of
`process`/`handleFailure`, all through the fence `Holds` (status running, same generation); `Abandon`
is a settling statement that fails. `SaveEffect` is the fenced write of the embed and semanticize
handlers. Restart is a crash at any point. The transactions of other components that change rows are
actions too; `Delete` is what every deletion of rows shares. A row is enqueued once: dedup keys are in
`Withdrawal`, where they matter. A ceiling of zero is no ceiling, as in `Runner.process`; `JobLifecycle!Barred` says so
too.

**Twinkle.** A transaction begins, reads what its code reads (`CountInvites`, `ReadZone`), plans or
computes an entry, appends it (`written`), applies the delta (`rows`, which is also the row lock) and
commits or rolls back. `Waits` is PostgreSQL's wait for a row or a unique key another transaction has
written; a transaction that waits proceeds on the version that is committed then. The balance UPDATE's
guard and the check constraints of the migration are `Locked` and `Admitted`. The prices and the
amounts are small integers.

**Release.** Each use-case is a step that reads the clock (`BeginRelease`, `BeginRestore`, `ClaimDue`)
and a transaction under the user's graph lock; a release has two, the sweep of the user's expired
groups and the release itself. `group[d]` is the row of `release_groups` with its memories, sealed
neurons and the amounts taken from synapses. Strengths are `0..Cap`; `Drift` is any change the
dynamics of the universe make to a strength between two transactions. `letGo` remembers what the
user let go. Launching adds memories and neurons with any overlap.

**ReleaseJobs.** Extends every transaction by what it does to `embed`, `ladder` and `trigger` jobs, and
splits handlers at their provider call. How a job is claimed and fenced is `JobQueue`; here a job is
its effect, and the retention job may be due up to `Skew` ticks before the handler's clock agrees. The embed
kind is not one that is retried for ever (`internal/memory/worker.go:40`), so a call that fails, or a worker
that dies, leads back to the queue or to a job that is given up (`FailEmbed`). That one was given up is
remembered, also when the cleanup has deleted its row.

**Withdrawal.** One account. Every store call, cache operation and provider call is a step, and a
request or a worker may end between any two (`Abort`, `Die`, `Crash`). `Schedule` keeps a stored row of
the key as `ON CONFLICT` does; `CleanUp` is the purge of terminal rows. The expiry and the eviction of
a cache entry are both `Forget`. A request reads the clock first and then waits for the row lock: its write comes
any time after, within `Budget`, the deadline of its context
(30 seconds unless configured, `internal/platform/request_budgets.go:26`, against a window of thirty days). `word` is a
history of what the last reply said.

**Consolidation.** A use-case is one transaction under the graph lock, so one step: `Launch`, `Recall`,
`Reconsolidate`, `RecallDiary`, `RestoreText` and `Sync`, each with the advance it ends or begins with. `Consolidated`
is `planInterval` over the rows as the hook finds them: `Rise` (`advanceGistStage`: the crossed units are consumed whether or
not the stage has its text, what lacks it becomes a pending rise) and `Erode` (`newlyReachedDecayFill`). `Slept` is the
downscaling, `Replayed` the mark that comes after it, `Regenerations` the repair with its check for active jobs. The handler is
`Claim`, `ReadSource` (the provider's call begins), `CompleteSemanticize` (fence, merge over the shown rungs, finalization of
the pending rise) or `FailGeneration`; a lease may run out in between. A text is the revision it was generated from; arousal
and strength are a stage length for each number of recalls, in parts of a day, so that stages end inside a day. `Nudge` counts the weak and
the strong links of a recall instead of adding them up, which is the same number and one a proof can reason about; that links
are symmetric is an assumption (`Shared` is how many neurons two memories have in common).

**PaidAction.** `dialog`, `target`, `draft` and `view` are the two machines and the stores beside them;
`active`, `inFlight` and `ids` the paid session (`begin`, `start`, `finish`, `invalidate`). A request is a
record on `wire` with what the service has made of it and whether the client still waits: it may fail
for the client and go on at the service, where it meets its own retry. `Prepare` and `Commit` are the two
transactions of a recall around the provider; a restoration and a view take one (`Charge`). `Fresh`,
`Replays` and `Refusal` are the receipt check and the checks after it, in the code's order; `Complete` is the
continuation of a request with `classifyPaidActionError`. Another device rewrites, releases and spends.
The ledger below is a set of debits and a balance; that a key is posted once is `Twinkle`'s.

**Decoration.** A save is one READ COMMITTED transaction: `Begin` reads what is owned, `Buy` inserts and
pays (waiting for rows and for the balance another save has taken), `View` reads the stored selection,
`Commit` writes the difference, the counter and ends it. The panel's machine, its preview store and the
selection query are the client half; the saves of other devices are the same transactions unasked. The
number of saves is the size of `Save`.

**Session.** The four regions of the machine are `status`/`userId`, `boot`, `access`, `attempt`; `epoch` and
`calls` are the facade's. A call is its start and, later, `Settle`, with any answer; in between the adapter
may report a sign-in, a renewal, a sign-out or an expiry. The events of the machine are definitions with the
code's names (`SIGN_IN_START`, ...). `turn` and a call's `later` are history that say which operations came
after it, where the epoch, which is rolled back, does not.

**UniverseMirror.** `cache`, `invalid` and `fetch` are the query: its data, whether it was invalidated, the read in
flight. `Read` is the instant the service answers it, `Arrive` the instant the client has it; `Effect` is the
effect of `useUniverse`. `shown` counts how often a memory is listed, so that a star listed twice can be
seen. A request commits, is refused or is missed, and `Take` applies its answer if its completion scope
still holds. `ChangeAccount` is a sign-out and the next sign-in. The query cache is external; what is
assumed of it is what its documentation and the options in the code say: an invalidation restarts a read
in flight unless that is the first one, equal data keeps its identity, data no page shows is collected.

## 3. Runs

| Run | Question | Bounds, and why they are enough |
|---|---|---|
| `jobqueue` | is a job run within its limits and kept while its group needs it, and is the life cycle, with its one holder, implemented? | a retention sweep and a semanticize job, so both retry policies; two lanes of one process; two attempts, a ceiling of two and up to three generations, so that both limits are reached and the durable job passes the ceiling; a lease of one tick, so that a stalled lane is overtaken |
| `twinkle` | do retries, races, midnight and zones keep the SMALL drawn within its grants, are invites capped and postings whole? | two connections; two recalls and a purchase of one user, and two invites with that user as inviter at a cap of one; each is asked again at will while its first attempt is in flight; a grant of 3, two zones, two instants around a midnight |
| `release_overlap` | what do overlapping releases leave? | three diaries over two linked neurons, two releases: both orders of ending, next to a diary that stays |
| `release_jobs` | do promise and jobs hold under races with the worker? | a diary of two memories and one of one, two releases (an old trigger meets a new group of the same diary), a request, a worker, skew of one tick; an embed job may fail at any point |
| `consolidation` | do stages, texts, provenance, timers and sleep agree under any cut of the days and any fate of the generations? | two memories that share two neurons, launched apart, so that the sleep over one replays the other and a recall of one ages the other; two rungs and two forgetting stages, which one jump of the three days crosses both of; a gist stage lasts a whole day before a recall and ends inside a day after it; one recall and one rewrite each, so that a job of an old text meets one of the new; one lane and one claim a job, so that generations also die (retries are in `jobqueue`) |
| `withdrawal_restore` | is a withdrawal final in the end, the marker last, the gate right? | two requests in flight of three, two sweepers, two legs, five instants: a window of two, a budget of one after it, so that a late restore finds the sweep at work, and an instant past both |
| `withdrawal_lost` | is a withdrawn account always scheduled for deletion, as documented? | violation, section 6 |
| `withdrawal_undone` | are restore and sweep disjoint, as documented? | violation, section 6 |
| `session` | does a late result ever drive the machine, does a forced sign-out hold, does a sign-in end? | two users, three calls in flight (a sign-out, what it overtook and what overtakes it), five turns of the epoch |
| `paid_action` | is an operation charged once, and its answer shown where it was asked for? | one memory of two texts, a budget of two, two operation ids, so an old and a new intent of one target; two requests, so a retry that meets its first; one day and one act of another device |
| `universe_mirror` | does what was done stand on screen, of this account only? | two memories, two accounts, three requests (launch, release, restore of one memory), one act of another device |
| `decoration` | what do overlapping saves buy and count? | two saves, a kind with an ornament for sale and one that is a reward, a second kind; budgets of one and three, so that two ornaments are and are not affordable |

Every passing run checks for deadlock except `session`, where a disposed facade ends, `consolidation`,
whose days and recalls run out, and `paid_action`, which stops when its requests and ids are used up and
nothing is on screen. Clocks, generations, requests and turns
are bounded by guards named `Max...`. Lanes, connections, requests, saves or memories are permuted where a run
has no liveness property. Each property has in `PROJECT.json` a mutant, a plausible slip in one mapped
definition, under which TLC finds it violated; the mutated forms stand beside the definitions, marked as
broken variants. Every module has a `TypeOK`; theorems prove each (`TypeCorrect`, in `ClientProofs` also `AuthTypeCorrect`), and
only `consolidation` checks one besides.

### What the properties say

Queue: `RunsBounded` is the two limits, which must not eat each other's budget; `EveryGroupHasTrigger` is what
a promised deletion rests on; `LateWriteNeverLands` is the fence of the handlers' own writes and
`ImplementsLifecycle` the refinement, which has one holder in it. Ledger: `SmallWithinGrants`, `InvitesCapped`,
and `ImplementsContract`: whole postings, once per request, each moving the balance by what its entry says.
Release: `RetainedKeepNeurons` and `NoNeuronLeaks` bound the sweep from both sides;
`LiveIsUnsealed` and `LetGoIsPermanent` bound the unsealing from both sides; `WeakeningIsLent` is the arithmetic
of synapses; `KeepsPromise` is wholeness and the window; `OpenIsEmbedded`, `LadderFollowsMemory`,
`EveryReleaseEnds` are the jobs: an open neuron has its vector, a job that will write it, or a job that was given up. Withdrawal:
`FinalStays` is what holds of restore and sweep, with the budget of a request as its margin; `MarkerGoesLast`, `GateFollows`.

Consolidation: `HistoryMatchesStage` ties what is shown to the provenance, which both an advance and a completion
append to, and to the texts, which no later generation may rewrite once they are recorded; `GistOnSchedule` says that, however
the days are cut, a gist is never ahead of the days since the last recall, leaves no whole stage on its timer, and where a stage
lasts whole days is not behind them either (section 6 has the others); `GeneratedFromLiveText` is the revision
fence, `OneGenerationPerRevision` the repair, which must not stack generations, and `PendingRises` that it forgets
none. `SleptThroughEveryAdvance` is the order of sleep and replay and the watermark; `DecayTextsCatchUp` says that the stored
word-loss texts fall behind the stage a read derives only by a neighbour's recall, that the next stage the days cross makes up
for all of it, and that no text is stored ahead of its stage.

Paid actions: `ChargedOnce` is the receipt under retries that overlap their first attempt; `ShownIsAnswered` and `NoConflict` are the two fences of the
client, against late answers and against an edited draft; `BranchFitsText` is the source check around the
provider; `BusyEnds` is that the undismissable dialog ends. Store: `PaidForOnce`, `NeverOverstated`.
Session: `LateResultInert`, `ForcedHolds`; `StrandedOnlyBy` lists the only
two ways in which a status comes to wait for a result that will not count, and `SignInEnds` is progress apart
from those. Mirror: `OwnMemories`, `OwnWorkStands` (once the screen is at rest).

## 4. Fairness

`release_jobs`, `consolidation`, `session` and `paid_action` check liveness.

- `ReleaseJobs!JFairSpec`: the clock advances, the worker's lanes keep turning (the runner loops until
  shutdown and the supervisor starts it again), a trigger that is due is claimed. The user need not come
  back, and the embed and semanticize handlers need not run.
- `Consolidation!FairSpec`: the lanes keep turning, as above. A provider may fail every time: a job has a bounded number of
  claims, and a rise whose generation died is excused until the next advance enqueues another.
- `Session!FairSpec`: some call in flight settles (an adapter's promise resolves or rejects), and a flow that left
  the app is cancelled when its page or app is shown again, which both hosts do while the session is signing in
  (`src/apps/web/src/pages/login/ui/LoginPage.tsx:75`, `src/apps/mobile/src/pages/login/ui/LoginPage.tsx:43`; a
  page that is not restored but loaded again starts a new session). The user need not sign in or out, and no
  report need come.
- `PaidAction!FairSpec`: every request ends for the client, with an answer or without (the transport gives up
  after `defaultTimeoutMs`, `packages/api-client/src/platform.ts:40`), and the effect of a moved target runs. The service need not answer.

`JobLifecycle` is a safety specification: that a queued job is claimed in time rests on how many lanes there are
for how much work, which the code does not bound.

## 5. Proofs

All theorems are about `Spec` for arbitrary values of the constants under the assumptions in the head
of each module (sets, naturals, positive durations, distinct model values). Except where said they need no
more. The bounds (`Max...`) are arbitrary naturals in them.

- **Queue** (`JobQueueProofs`). `TypeCorrect`; `OneHolder`: lanes that hold claims of one job have
  distinct generations, none above the row's (`Fence`), and the settle predicate needs equality;
  `NoLateWrite` adds that no write is recorded above the row's generation; `OrdinaryRunsBounded` that each
  run consumed one generation (`Counted`); `FailuresJustified` and `DurableNeverGivenUp` that a row is
  failed only through the two limits (`GivingUp`); `GroupNeverStranded` that a group's row is live
  (`Triggered`), *assuming* the sweep is registered as durable, which the worker's wiring does and an
  old build would not; `GroupKeepsRow` that even then the cleanup keeps the row as long as its group exists. `LifecycleKept` is the
  refinement of `JobLifecycle`, action by action: the owner of a job is the lane whose claim has the row's generation, of
  which `OneHolder` says that there is at most one, and what a lane still does without being the owner is a stutter. The proof
  needed `Barred` to except a ceiling of zero, where the old abstract specification was stricter than the code.
- **Ledger** (`TwinkleProofs`). The strengthening has three parts: `TypeInv`, types with what a planned entry
  may be in each state; `LockInv`, which keys and rows an open transaction has written exclude others from
  writing; `InviteInv`, how a count of invites stays true while its inviter is locked. They give `TypeCorrect`
  (no debt), `ChargedOnce`, `CapHolds`, `LegsTogether` and `ContractKept`, the refinement of `LedgerContract`:
  a commit is a `Post`, every other step a stutter. `DrawsFitGrants` adds `GrantInv`: what was drawn in all, with
  one more grant, is covered by a grant per window acted in and what the current window has spent. It needs that
  windows only move forward, also when a zone changes; the bound alone is not inductive, since it does not
  tell how much of the sum the current window has still to allow.
- **Release** (`ReleaseProofs`). `Inv` is `TypeOK /\ FootInv /\ FateInv /\ SealInv`: which neurons memories still
  have and who owns them, how memories, diaries and groups agree, and that a seal on a retained neuron
  belongs to a group that lists it or to the user. `SealInv` is what makes overlap work: neither
  `LiveIsUnsealed` nor `LetGoIsPermanent` is inductive without knowing who placed each seal. They follow from
  `Inv`, as do `KeepsNeurons`, `NothingLeaks` and `WholeDiaries`. `PromiseKept` refines `DiaryPromise`; it needs
  `CallInv`, that a clock read before the lock is never ahead of the clock. `OnlyLent` is an action property over
  the strength of a synapse and the sum of what groups have on record of it: a release moves from one to the
  other, a restore back, and every other group keeps its record (`ReleaseLends`, `RestoreReturns`, `SweepKeeps`). A
  sweep that takes a group deletes its diary, for which `GoneInv` says that the diary was not deleted before. It
  assumes finitely many diaries (`DiaryAssumption`), the rows of one user.
- **Sums** (`Sums`). `SumFunction` of the community modules chooses a function defined by recursion over the subsets.
  The library's induction cannot be instantiated here, but the least cardinality of a counterexample can:
  `SumExists` is that the chosen function exists, `SumTakes` that a sum takes any element off, and `SumAdds`, `SumLower`,
  `SumChanges` what the two proofs above need.
- **Release with its jobs** (`ReleaseProofs`). `JobInv` adds to `Inv` what every transaction owes its jobs: an open neuron is
  embedded, or has a job, also while a worker is between its read and its save, or has one that was given up; a semanticize job is parked exactly while its
  memory is released; each standing group has a sweep of its own (`NoneForgotten`), which only the sweep that finds it
  gone or over may end. They give `VisibleIsEmbedded`, `LadderIsOfItsMemory` and `ReleaseHasSweep`, for any skew and any number
  of workers; `PromiseKeptWithJobs` carries the refinement over to the composition.
- **Withdrawal** (`AccountProofs`). `SweepInv` (where a worker stands bounds what is deleted, and deletions
  are not undone) gives `TypeCorrect` and `MarkerLast`, for any number of workers that run the sweep
  of one account at once. `FinalForGood`: a restore that commits read its clock at most `Budget` before, so it finds the
  window not yet over by more than that; a repeated withdrawal keeps the stamp; and only the sweep that has deleted everything
  takes the mark away. It holds for any budget, zero included. `Fenced`: a read
  in flight whose generation is current cannot contradict what was replied.
- **Session** (`ClientProofs`, which extends `Session` and `UniverseMirror`: hence `AuthInit`, `AuthNext`, `AuthSpec`).
  The epoch is not monotone: a sign-out that fails gives its turn back. What is inductive is `EpochInv`: a
  call's epoch and the number of turns after it make the current epoch, and a call knows every call begun
  after it. Hence equality of epochs means that nothing came after (`LateIsInert`).
  `BackInv` says what a failed sign-out may put back: a closed point without identity, and a forced one
  if the session it would replace was forced; with `MachineStep`, a lemma on the events alone, it gives
  `ClosedIsEmpty` and `ForcedStays`. `FlowInv` follows each status to the call it waits for; `StrandedOnly` is that no settlement,
  report, sign-in or fence leaves a status without one.
- **Consolidation** (`ConsolidationProofs`). `IInv` is `TypeOK /\ MemoryInv /\ ClockInv /\ JobInv`; TLC checked it before it
  was proved. The properties are not inductive: a rise that is not shown changes neither history nor stage but must be accounted
  for when it is, and the timer forgets what was lost of a day. `MemoryInv` says of each memory that its recorded stages have
  their text and are dated before a waiting rise (`Recorded`), and that the days consumed since the last recall cover the stages
  risen, exactly so where a stage lasts whole days, and leave less than a stage (`Paced`). It holds of any consumption by
  `ConsumeGistUnits` by `Consumed`, a lemma on the least number of days that read as the units. `ClockInv` ties the watermark to the clock,
  `JobInv` the jobs to the revisions: none of a revision to come, and never two of one. They give `TypeCorrect`,
  `HistoryIsComplete`, `OnSchedule`, `EverySleepDownscales`, `OneGeneration` and the action properties
  `TextsAreLive` and `DecayTextsFollow`, for any memories and links, any lengths of stages that recalls do not shorten, and any
  number of lanes. `DecayTextsFollow` is proved of every step with the invariant (`Live`): a step that stores the texts of the
  stages its days cross follows the derived stage (`Follows`), and one that takes no day moves it only by ageing the memory. It
  alone uses that recalls do not shorten a stage (`Fresher`), and covers memories that share one neuron (`SlowDays`), which
  the run does not have.
- **Paid actions** (`PaidActionProofs`). `OneInput`: an operation id stands for one key and one text in everything
  ever sent or kept. It rests on `SubmitInv`, that what was submitted is still in the draft, and on `TwoFlows`, that
  the dialog and the view never share an id. `QuoteInv` is that nothing is sent under an id whose quote was not
  accepted, `WireInv` what a prepared and an answered request know. They give `Once`, `Quoted`, `Shown`,
  `Conflictless` and, with the source revision, `BranchFits`.
- **Mirror** (`ClientProofs`). `OwnInv` (cache, read in flight and stores hold only the account's) with
  `WireInv` (a request in scope is the account's) gives `OwnOnly`. `WorkInv` says of a memory last changed by this
  client when a read, the data and the canvas are right about it: a read that an invalidation did not join, data
  that is not owed a read, a canvas that drew such data; `WorkStands` is its case at rest. `StarInv`, that a star
  that is no longer pending is in every later snapshot, gives `Stays`.
- **Store** (`AccountProofs`, which extends `Withdrawal` and `Decoration`: hence `DecorInit`, `DecorNext`,
  `DecorSpec`). `Locks`: rows taken by open saves are disjoint, and while a save has paid no other
  open one has; with it `BoughtOnce` accounts for every debit. `CounterSound` follows from `Fresh`: what a save has
  read and taken is owned once it commits, counted once. `Whole` follows from `Ordered`: between the read of the
  stored selection and the commit of a save that paid, no other save that paid commits.

**Only model-checked.** All liveness (`EveryReleaseEnds`, `PendingRises`, `SignInEnds`, `BusyEnds`), which needs
ENABLED. Every safety property a passing run checks is stated by a
theorem. `KeepsPromise` is model-checked with one request and one worker in flight;
for any number of them it is proved. Some definitions are proved and checked by no run: the `TypeOK` of every module but
`Consolidation`, `HolderUnique`, `DurableNeverFails`, `FailedForAReason`, `GroupKeepsItsRow`, `MovedOnce`, `InviteLegsTogether`,
`ReleasedTogether`, `NoneForgotten`, `ClosedHasNoUser`, `PaidAsQuoted`, `StarStays`, `WholeSelection`.

## 6. Where code and documents disagree

Shown by a run:

- **A restore past the deadline** (`withdrawal_undone`). `RestoreAccount` compares the deadline with a clock it read before it
   waited for the row lock (`internal/account/withdrawal.go:186`, `:188`), so within the budget of its request it can undo a
   withdrawal whose sweep has been claimed and goes on to delete. `withdrawal.go:270` and `src/spec/ssot/ACCT.md:160` say that
   it cannot, `withdrawal.go:262` that only clocks of different processes could do it. What holds, with that
   budget as the margin, is `FinalStays`: a sweep that began so much later would be disjoint from every restore.
- **A withdrawal without its sweep** (`withdrawal_lost`). `Withdraw` enqueues under a dedup key and a stored
   row of that key, live or terminal, swallows the enqueue. After a mark that failed, or a restore whose
   cancellation failed, the old sweep runs, finds a live account and ends as done; a withdrawal that
   meets the row while it ends, or in the thirty days it is kept, has no job that will delete the account.
   `src/spec/ssot/ACCT.md:145` says the job is scheduled, `:147` and `:161` that a left-over job is inert.

Met while modelling, where the code allows what a comment or the spec denies; no run shows them:

- *Days discarded.* `ConsumeGistUnits` moves the gist timer by the fewest whole days that read as the crossed units. Where a
  stage takes a fraction more than those days, which arousal and strength make the rule, the rest of the last day is lost at
  every advance that crosses a stage: a universe synced day by day rises later than one synced after a while.
  `internal/memory/semanticization.go:67` and the comment of its test (`semanticization_test.go:72`) say that no progress is
  discarded; `GistOnSchedule` asserts it where a stage lasts whole days, and elsewhere only that nothing is refunded and no whole
  stage is left over.
- *A stage from the old text.* After a rewrite the rungs not yet risen keep the texts of the old representation until the
  regeneration lands, and an advance publishes any rung that is not blank. A regeneration that dies is not repaired
  either, since nothing is missing. `src/spec/ssot/RECALL.md:43` says that those stages regenerate from the new text.
- *A forgetting stage without its text.* A recall of a neighbour that shares two neurons ages a memory without an advance, so
  the derived stage is ahead of the stored texts until the next crossing. `internal/memory/consolidate.go:545` says that
  the two always agree; `DecayTextsCatchUp` says when they part and when they meet again.
- *An embed job given up.* After its attempts, or past the claim ceiling, an embed job is over (`internal/platform/jobqueue/runner.go:344`,
  `:267`), and the neuron it was for stays open with neither vector nor job: nothing looks for such neurons but a restore
  of the release that sealed one and the re-embedding of a replay set. `OpenIsEmbedded` says that this is the only way to it.
- *A stale save on a reopened panel.* `packages/store/src/decoration.machine.ts:9` says that it cannot be, because `saving`
  carries no CLOSE. Leaving the route stops the machine, not the save; its answer is committed into the module-global
  preview store under the panel opened next, whose preview is lost and whose picks then change nothing.
- *The claim ceiling.* The comment at `internal/platform/jobqueue/runner.go:72` says no retry policy overrides it;
  line 267 exempts durable kinds.
- *Mixed selections.* A save that pays nothing takes no lock that orders it, so two overlapping saves can leave kinds of
  one beside kinds of the other, although `internal/store/decorate.go:27` calls a half-applied selection
  unrepresentable; the reply says what was asked, not what is stored. A save that overlaps an achievement
  grant lets the counter lag too, against `decorate.go:333`.
- *Decoration panel.* A save whose refetch fails, or whose answer is lost, leaves an old selection on screen; two answers out
  of order leave the older one confirmed; opening the panel's affordance in the moment between an answer and SAVED
  leaves the preview active with the panel closed.
- *Session.* A callback link completed while authenticated leaves `attempt` at `inCall`, so that a real sign-out
  reported by the adapter is ignored (against the comment at `packages/auth/src/session-machine.ts:162`). A failed
  sign-out can restore a status whose call has settled meanwhile; nothing then ends it but the user.
- *Paid actions.* An Unauthenticated answer to the retry of a lost but committed action counts as a refusal before the
  commit, so that the next attempt has a new id, a second quote and a second charge for one intent (against
  `packages/universe/src/paid-action-session.ts:87`). The cleanup of the gist view invalidates only the attempt its
  effect began. Comments in `internal/memory/recall.go` speak of spend checks although a recall is free.
- *Mirror.* A launch whose answer comes after a read that already has the memory lists its star twice and leaves it pending
  (against `packages/universe/src/launch-stars.ts:54`). An invalidation during the very first read is joined, not
  restarted. A pending launch that is released elsewhere before a snapshot had it stays on screen until
  sign-out. A universe mounted with nothing cached forgets the released groups, so that a diary released in
  the reader is not offered for restoring. Leaving the page during a release or a launch drops the answer
  and its invalidation. A stale snapshot shows a released star, until the refetch, on return to the page.
- *Ledger and queue.* The migration calls the ledger never deleted, while `PurgeUser` deletes an account's; a spend planned
  before local midnight counts against the new day's grant when another has moved the window on; a purge batch
  reopens the cleanup window with a clock read before it.

## 7. Not modelled

Formulas over real numbers (brightness, strengths, emotion, layout; of the timers of gist and forgetting
`Consolidation` has the days and the stages), text and prompts, screens and
drawing; single-row updates such as the profile; provider calls beyond "an answer or an error". The
settlement of a signup and of an achievement are not modelled beyond the ledger they pay through; the machines of one
screen with one user (command, panel, sequence, signup form, navigation) have no second actor and a model would
repeat their tables. Dictionaries, generated API code, demo data and scripts, most of the repository's lines, keep no
state.

Within the modules: neurons are rows, so two neurons of one name are not told apart (a diary launched while a release
has sealed a neuron may mint its double). A signup after a sweep, and other entries of the status cache, are not in
`Withdrawal`. Clocks of processes and database are one clock, except for `Skew`. `Session` leaves out error texts and
expiry instants. `PaidAction` leaves out the effects of a recall on the graph, which are in `Consolidation`. `Consolidation` gives a memory one
edge, writes its advance and the completion of a job as one step each (both hold the graph lock throughout), and leaves out
releases, re-embedding and universes older than the clock row. In `PaidAction` the effect of a moved target is taken to
run before the next gesture. `UniverseMirror` gives a diary one memory, makes a change of account one step, takes the
same account that signs in again as a new one, and models the web client, which unmounts its pages. `Decoration` leaves
out the catalog and balance shown, the counters of saves and kinds, and a change of account during a save; an
achievement grant is one step.

## 8. Order of work, and what is left

The modules came in this order: the queue and its life cycle, the ledger and its contract, release and its promise,
release with its jobs, withdrawal; then the client with what it calls: session, paid actions, mirror, decoration; then the
universe clock. Each
went from a run that holds to an inductive invariant checked by TLC and then to its proof.

What would come next: the settlement of signups and achievement claims over `LedgerContract`, both paid between two
stamps (the stamp implies the entry; paid once if the drain returns); the two sums by an induction over a finite set
spelled out in the proof; the `WholeSelection` of saves that pay nothing, once the code orders them.
