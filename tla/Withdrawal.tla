----------------------------- MODULE Withdrawal -----------------------------
(***************************************************************************)
(* Withdrawing one account and bringing it back: Withdraw, RestoreAccount,  *)
(* the admission gate with its status cache, and the sweep that deletes the *)
(* account at the deadline (internal/account/withdrawal.go, jobs.go).       *)
(*                                                                         *)
(* Every store call is a step of its own. The mark, the job, the legs, the  *)
(* credential and the cache are changed in different transactions, systems  *)
(* and processes, and a request or a worker may end between any two.        *)
(***************************************************************************)
EXTENDS Naturals

CONSTANTS
    Caller,      \* requests in flight, in one API process
    Worker,      \* worker lanes
    Legs,        \* how many purge legs there are; the first is memory's
    Live,        \* users.deleted_at IS NULL
    Gone,        \* no users row
    Unknown,     \* no cache entry
    Window,      \* withdrawalRetentionWindow
    Lease, Retention,
    Budget,      \* what a request may take, in the clock of the deadlines
    MaxTime,     \* bound on the clock
    MaxAsked,    \* bound on the requests
    MaxGen       \* bound on the claims of one row

ASSUME WithdrawalAssumption ==
    /\ Live \notin Nat /\ Gone \notin Nat /\ Unknown \notin Nat
    /\ Live # Gone /\ Live # Unknown /\ Gone # Unknown
    /\ Legs \in Nat \ {0}
    /\ Window \in Nat \ {0} /\ Lease \in Nat \ {0} /\ Retention \in Nat
    /\ Budget \in Nat
    /\ MaxTime \in Nat /\ MaxAsked \in Nat /\ MaxGen \in Nat

VARIABLES
    now,
    marker,      \* users.deleted_at, the only fact of a withdrawal
    job,         \* the row with the dedup key of the account's sweep
    purged,      \* the legs whose data has been deleted
    credential,  \* of the account at the authentication provider
    cache,       \* the entry of the account in the status cache
    version,     \* withdrawalStatusCache.generation
    call,        \* where each request stands and what it has read
    work,        \* the same of each worker
    asked,       \* requests so far
    word         \* history: what the last finished request said of the account

account == <<marker, purged, credential>>
gate == <<cache, version>>
vars == <<now, account, job, gate, call, work, asked, word>>

Marked == marker \in Nat
Deadline(at) == at + Window

\* No row; the id tells the next row from the ones before it.
NoRow(id) == [id |-> id, status |-> "none", at |-> 0, gen |-> 0]
NoCall == [pc |-> "idle", at |-> 0, version |-> 0, seen |-> Unknown]
NoWork == [pc |-> "idle", id |-> 0, gen |-> 0, at |-> 0, leg |-> 1]

Row == [id : Nat, status : {"none", "pending", "running", "done"}, at : Nat, gen : Nat]
Reading == [pc : {"idle", "look", "ask", "store", "find", "schedule", "mark", "publish",
                  "clear", "forget", "cancel"},
            at : Nat, version : Nat, seen : Nat \cup {Live, Unknown}]
Turn == [pc : {"idle", "claim", "later", "purge", "ban", "delete", "last", "done"},
         id : Nat, gen : Nat, at : Nat, leg : 1..(Legs + 1)]

TypeOK ==
    /\ now \in Nat
    /\ marker \in Nat \cup {Live, Gone}
    /\ job \in Row
    /\ purged \subseteq 1..Legs
    /\ credential \in {"usable", "banned", "deleted"}
    /\ cache \in Nat \cup {Live, Unknown}
    /\ version \in Nat
    /\ call \in [Caller -> Reading]
    /\ work \in [Worker -> Turn]
    /\ asked \in Nat
    /\ word \in {"none", "withdrawn", "restored"}

Init ==
    /\ now = 0
    /\ marker = Live
    /\ job = NoRow(0)
    /\ purged = {}
    /\ credential = "usable"
    /\ cache = Unknown
    /\ version = 0
    /\ call = [c \in Caller |-> NoCall]
    /\ work = [w \in Worker |-> NoWork]
    /\ asked = 0
    /\ word = "none"

----------------------------------------------------------------------------
(* The admission gate: WithdrawnAt behind AccountStatus. *)

Goto(c, step) == call' = [call EXCEPT ![c].pc = step]
Return(c) == call' = [call EXCEPT ![c] = NoCall]

\* The clock is read before the statement that uses it, which may wait for the
\* users row: only the deadline of the request's context bounds how long.
InBudget(c) == now <= call[c].at + Budget

\* An answer of the gate: a live account goes on to the handler.
Admit(c, status) ==
    IF status = Live THEN call' = [call EXCEPT ![c] = [NoCall EXCEPT !.pc = "find"]]
                     ELSE Return(c)

BeginWithdraw(c) ==
    /\ call[c].pc = "idle"
    /\ asked < MaxAsked
    /\ asked' = asked + 1
    /\ Goto(c, "look")
    /\ UNCHANGED <<now, account, job, gate, work, word>>

\* withdrawalStatusCache.read
Look(c) ==
    /\ call[c].pc = "look"
    /\ \/ cache # Unknown /\ Admit(c, cache)
       \/ /\ cache = Unknown
          /\ call' = [call EXCEPT ![c].pc = "ask", ![c].version = version]
    /\ UNCHANGED <<now, account, job, gate, work, asked, word>>

\* The users row; an absent one is not withdrawn.
Ask(c) ==
    /\ call[c].pc = "ask"
    /\ call' = [call EXCEPT ![c].pc = "store", ![c].seen = IF Marked THEN marker ELSE Live]
    /\ UNCHANGED <<now, account, job, gate, work, asked, word>>

\* Broken variant of Current: no generation in the cache.
CurrentAlways(c) == TRUE

Current(c) == call[c].version = version

\* withdrawalStatusCache.writeIfCurrent; an answer overtaken is read again.
Store(c) ==
    /\ call[c].pc = "store"
    /\ \/ Current(c) /\ cache' = call[c].seen /\ Admit(c, call[c].seen)
       \/ ~Current(c) /\ UNCHANGED cache /\ Goto(c, "look")
    /\ UNCHANGED <<now, account, job, version, work, asked, word>>

\* The entry expires or is evicted.
Forget ==
    /\ cache # Unknown
    /\ cache' = Unknown
    /\ UNCHANGED <<now, account, job, version, call, work, asked, word>>

----------------------------------------------------------------------------
(* Withdraw *)

\* The account exists; the instant of the withdrawal is read after that.
Find(c) ==
    /\ call[c].pc = "find"
    /\ IF marker = Gone THEN Return(c)
                        ELSE call' = [call EXCEPT ![c].pc = "schedule", ![c].at = now]
    /\ UNCHANGED <<now, account, job, gate, work, asked, word>>

\* EnqueueJob under the dedup key: a stored row is kept as it is, whatever its
\* status.
Schedule(c) ==
    /\ call[c].pc = "schedule"
    /\ InBudget(c)
    /\ job' = IF job.status = "none"
                THEN [id |-> job.id + 1, status |-> "pending", at |-> Deadline(call[c].at), gen |-> 0]
                ELSE job
    /\ Goto(c, "mark")
    /\ UNCHANGED <<now, account, gate, work, asked, word>>

\* MarkWithdrawn, or the mark that is there already.
Mark(c) ==
    /\ call[c].pc = "mark"
    /\ InBudget(c)
    /\ IF marker = Gone THEN Return(c) /\ UNCHANGED <<marker, word>>
       ELSE /\ marker' = IF Marked THEN marker ELSE call[c].at
            /\ word' = IF Marked THEN word ELSE "none"
            /\ call' = [call EXCEPT ![c].pc = "publish", ![c].seen = marker']
    /\ UNCHANGED <<now, job, purged, credential, gate, work, asked>>

\* withdrawalStatusCache.replace, and the reply.
Publish(c) ==
    /\ call[c].pc = "publish"
    /\ version' = version + 1
    /\ cache' = call[c].seen
    /\ word' = "withdrawn"
    /\ Return(c)
    /\ UNCHANGED <<now, account, job, work, asked>>

----------------------------------------------------------------------------
(* RestoreAccount *)

BeginRestore(c) ==
    /\ call[c].pc = "idle"
    /\ asked < MaxAsked
    /\ asked' = asked + 1
    /\ call' = [call EXCEPT ![c].pc = "clear", ![c].at = now]
    /\ UNCHANGED <<now, account, job, gate, work, word>>

\* Broken variant of Restorable: the deadline not looked at.
RestorableAlways(at) == Marked

\* Before the deadline, by the instant the request read before its lock.
Restorable(at) == Marked /\ at < Deadline(marker)

\* ClearWithdrawal under the lock of the users row.
Clear(c) ==
    /\ call[c].pc = "clear"
    /\ InBudget(c)
    /\ IF Restorable(call[c].at)
         THEN /\ marker' = Live
              /\ word' = "none"
              /\ Goto(c, "forget")
         ELSE Return(c) /\ UNCHANGED <<marker, word>>
    /\ UNCHANGED <<now, job, purged, credential, gate, work, asked>>

\* withdrawalStatusCache.invalidate
Invalidate(c) ==
    /\ call[c].pc = "forget"
    /\ version' = version + 1
    /\ cache' = Unknown
    /\ word' = "restored"
    /\ Goto(c, "cancel")
    /\ UNCHANGED <<now, account, job, work, asked>>

\* CancelUserJob deletes the row with the dedup key, whatever its status.
Cancel(c) ==
    /\ call[c].pc = "cancel"
    /\ InBudget(c)
    /\ job' = NoRow(job.id)
    /\ Return(c)
    /\ UNCHANGED <<now, account, gate, work, asked, word>>

\* A store call fails, or the request's context ends.
Abort(c) ==
    /\ call[c].pc # "idle"
    /\ Return(c)
    /\ UNCHANGED <<now, account, job, gate, work, asked, word>>

----------------------------------------------------------------------------
(* The sweep: SweepWithdrawnAccount on a worker *)

Step(w, step) == work' = [work EXCEPT ![w].pc = step]
Rest(w) == work' = [work EXCEPT ![w] = NoWork]

\* The lease fence of the statements that settle a job.
Holds(w) == job.status = "running" /\ job.id = work[w].id /\ job.gen = work[w].gen

\* ClaimDueJob; the handler reads its clock before it waits for the users row.
Claim(w) ==
    /\ work[w].pc = "idle"
    /\ job.status \in {"pending", "running"}
    /\ job.at <= now
    /\ job.gen < MaxGen
    /\ job' = [job EXCEPT !.status = "running", !.at = now + Lease, !.gen = @ + 1]
    /\ work' = [work EXCEPT ![w] = [NoWork EXCEPT !.pc = "claim", !.id = job.id,
                                                  !.gen = job.gen + 1, !.at = now]]
    /\ UNCHANGED <<now, account, gate, call, asked, word>>

\* The deadline re-derived from the mark.
DueAt(at) == at >= Deadline(marker)

\* claimSweep: nothing to do, too early, or due.
ClaimSweep(w) ==
    /\ work[w].pc = "claim"
    /\ \/ ~Marked /\ Step(w, "done")
       \/ Marked /\ DueAt(work[w].at) /\ Step(w, "purge")
       \/ /\ Marked /\ ~DueAt(work[w].at)
          /\ work' = [work EXCEPT ![w].pc = "later", ![w].at = Deadline(marker)]
    /\ UNCHANGED <<now, account, job, gate, call, asked, word>>

\* Retry of a claimed row, under the lease fence.
PutBack(w, at) ==
    job' = IF Holds(w) THEN [job EXCEPT !.status = "pending", !.at = at] ELSE job

\* withdrawalNotDueError names the deadline as the time of the next run.
Later(w) ==
    /\ work[w].pc = "later"
    /\ PutBack(w, work[w].at)
    /\ Rest(w)
    /\ UNCHANGED <<now, account, gate, call, asked, word>>

IsLast(leg) == leg = Legs

\* One leg. Memory's deletes the user's jobs, all but the one that runs it.
PurgeLeg(w) ==
    LET leg == work[w].leg IN
    /\ work[w].pc = "purge"
    /\ purged' = purged \cup {leg}
    /\ job' = IF leg = 1 /\ job.id # work[w].id THEN NoRow(job.id) ELSE job
    /\ work' = [work EXCEPT ![w].leg = leg + 1, ![w].pc = IF IsLast(leg) THEN "ban" ELSE "purge"]
    /\ UNCHANGED <<now, marker, credential, gate, call, asked, word>>

\* A credential that is missing already is no error.
Ban(w) ==
    /\ work[w].pc = "ban"
    /\ credential' = IF credential = "deleted" THEN "deleted" ELSE "banned"
    /\ Step(w, "delete")
    /\ UNCHANGED <<now, marker, purged, job, gate, call, asked, word>>

DeleteCredential(w) ==
    /\ work[w].pc = "delete"
    /\ credential' = "deleted"
    /\ Step(w, "last")
    /\ UNCHANGED <<now, marker, purged, job, gate, call, asked, word>>

\* Broken variant of PurgeMarker: the users row goes before its credential.
PurgeMarkerEarly(w) ==
    /\ work[w].pc \in {"delete", "last"}
    /\ marker # Live
    /\ marker' = Gone
    /\ Step(w, "done")
    /\ UNCHANGED <<now, purged, credential, job, gate, call, asked, word>>

\* PurgeAccountUser, the completion marker; a cleared one is an error.
PurgeMarker(w) ==
    /\ work[w].pc = "last"
    /\ marker # Live
    /\ marker' = Gone
    /\ Step(w, "done")
    /\ UNCHANGED <<now, purged, credential, job, gate, call, asked, word>>

Complete(w) ==
    /\ work[w].pc = "done"
    /\ job' = IF Holds(w) THEN [job EXCEPT !.status = "done", !.at = now] ELSE job
    /\ Rest(w)
    /\ UNCHANGED <<now, account, gate, call, asked, word>>

\* A step fails, errSweepRestoredMidway included: the durable job is retried,
\* from its first step.
Fail(w) ==
    /\ work[w].pc \notin {"idle", "later", "done"}
    /\ PutBack(w, now + 1)
    /\ Rest(w)
    /\ UNCHANGED <<now, account, gate, call, asked, word>>

\* The worker dies, or cannot settle its job: the lease is left to lapse.
Die(w) ==
    /\ work[w].pc # "idle"
    /\ Rest(w)
    /\ UNCHANGED <<now, account, job, gate, call, asked, word>>

\* Terminal rows are cleaned up after a retention of their own.
CleanUp ==
    /\ job.status = "done"
    /\ job.at + Retention < now
    /\ job' = NoRow(job.id)
    /\ UNCHANGED <<now, account, gate, call, work, asked, word>>

----------------------------------------------------------------------------
\* The API process ends with every request and its cache.
Crash ==
    /\ call' = [c \in Caller |-> NoCall]
    /\ cache' = Unknown
    /\ version' = 0
    /\ UNCHANGED <<now, account, job, work, asked, word>>

Tick ==
    /\ now < MaxTime
    /\ now' = now + 1
    /\ UNCHANGED <<account, job, gate, call, work, asked, word>>

Request(c) ==
    \/ BeginWithdraw(c) \/ Look(c) \/ Ask(c) \/ Store(c)
    \/ Find(c) \/ Schedule(c) \/ Mark(c) \/ Publish(c)
    \/ BeginRestore(c) \/ Clear(c) \/ Invalidate(c) \/ Cancel(c)
    \/ Abort(c)

Sweep(w) ==
    \/ Claim(w) \/ ClaimSweep(w) \/ Later(w)
    \/ PurgeLeg(w) \/ Ban(w) \/ DeleteCredential(w) \/ PurgeMarker(w)
    \/ Complete(w) \/ Fail(w) \/ Die(w)

Next ==
    \/ \E c \in Caller : Request(c)
    \/ \E w \in Worker : Sweep(w)
    \/ Forget \/ CleanUp \/ Crash \/ Tick

Spec == Init /\ [][Next]_vars

----------------------------------------------------------------------------
\* Restore and sweep are disjoint, as withdrawal.go:270 and ACCT.md:160 say: once
\* a leg, or the credential, has begun to go, the account stays withdrawn past
\* its window until nothing of it is left.
SweptAfterWindow ==
    (purged # {} \/ credential # "usable") =>
        marker = Gone \/ (Marked /\ Deadline(marker) <= now)

\* A withdrawal whose window has been over for as long as a request may take.
Final == marker = Gone \/ (Marked /\ Deadline(marker) + Budget <= now)

\* What does hold of restore and sweep: such a withdrawal is final. No restore
\* that read its clock early, no repeated withdrawal, which must not move the
\* window, and no sweep that died half-way brings the account back.
FinalStays == [][Final => Final']_vars

\* The completion marker goes last: an account without a users row has lost
\* every leg and its credential, whichever workers died on the way.
MarkerGoesLast == marker = Gone => purged = 1..Legs /\ credential = "deleted"

\* What a finished request said stands: no slower read of the gate puts a
\* live answer back after Withdraw replied, or a withdrawn one after a restore.
GateFollows ==
    /\ (word = "withdrawn" /\ Marked) => cache # Live
    /\ (word = "restored" /\ marker = Live) => cache \in {Live, Unknown}

\* A withdrawn account has the job that will delete it at its deadline.
WithdrawnHasSweep == Marked => job.status \in {"pending", "running"}
=============================================================================
