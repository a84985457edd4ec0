---------------------------- MODULE UniverseMirror ----------------------------
(***************************************************************************)
(* The copy of the universe a signed-in web client draws (packages/universe: *)
(* react/use-universe.ts, episodic-memory-store.ts, launch-stars.ts,         *)
(* deletion.ts, released-groups-store.ts, react/use-writing-flow.ts,         *)
(* use-release.ts, use-restore.ts; packages/auth: completion-scope.ts,       *)
(* user-state-reset.ts; packages/client-cache: refocus.ts), beside the       *)
(* universe at the service and the query cache between them.                 *)
(*                                                                         *)
(* A diary holds one memory. What else a snapshot carries is replaced with   *)
(* it and left out. Of the query cache (external) the model keeps the data,  *)
(* whether it was invalidated and the read in flight.                        *)
(***************************************************************************)
EXTENDS Naturals, FiniteSets

CONSTANTS
    Memory, None,
    MaxScope,  \* bound on the accounts that sign in one after another
    MaxAsks,   \* bound on the requests of this client
    MaxOther   \* bound on the changes other devices make

Snapshot == [rev : Nat, has : SUBSET Memory]
Reading == [read : Snapshot \cup {None}, joined : BOOLEAN]

ASSUME UniverseMirrorAssumption ==
    /\ None \notin Nat /\ None \notin Reading
    /\ MaxScope \in Nat \ {0} /\ MaxAsks \in Nat /\ MaxOther \in Nat

VARIABLES
    state,     \* of each memory at the service
    owner,     \* the account that launched it
    rev,       \* the universe revision of each account
    changes,   \* how often each memory changed
    others,    \* the changes other devices made
    scope,     \* the account signed in
    page,      \* the route on screen
    canvas,    \* useUniverse is mounted
    due,       \* its effect has not run since the data moved
    cache,     \* the data of the query: a snapshot
    invalid,   \* it was invalidated
    fetch,     \* the read in flight
    swallowed, \* history: the data came with a read an invalidation did not restart
    checking,  \* the revision a refocus compares with
    shown,     \* ids: how many times each memory is listed
    pending,   \* pendingIds
    groups,    \* the released groups: how many stars each captured
    wire,      \* the requests
    asks,
    taken      \* history: the change of each memory whose answer was last taken

server == <<state, owner, rev, changes, others>>
query == <<cache, invalid, fetch, swallowed>>
stores == <<shown, pending, groups>>
screen == <<scope, page, canvas>>
vars == <<server, screen, due, query, checking, stores, wire, asks, taken>>

Request ==
    [n : Nat, kind : {"launch", "release", "restore"}, memory : Memory, scope : Nat,
     nth : Nat \cup {None},  \* the change of the memory it made
     current : BOOLEAN]      \* its completion scope still holds

TypeOK ==
    /\ state \in [Memory -> {"unborn", "live", "released"}]
    /\ owner \in [Memory -> Nat]
    /\ rev \in [1..MaxScope -> Nat]
    /\ changes \in [Memory -> Nat]
    /\ others \in Nat /\ asks \in Nat
    /\ scope \in 1..MaxScope
    /\ page \in {"universe", "reader"}
    /\ canvas \in BOOLEAN /\ due \in BOOLEAN /\ invalid \in BOOLEAN /\ swallowed \in BOOLEAN
    /\ cache \in Snapshot \cup {None}
    /\ fetch \in Reading \cup {None}
    /\ checking \in Nat \cup {None}
    /\ shown \in [Memory -> Nat]
    /\ pending \subseteq Memory
    /\ groups \in [Memory -> Nat \cup {None}]
    /\ wire \subseteq Request
    /\ taken \in [Memory -> Nat]

Sent == [read |-> None, joined |-> FALSE]
Empty == [m \in Memory |-> 0]
NoGroup == [m \in Memory |-> None]

Init ==
    /\ state = [m \in Memory |-> "unborn"] /\ owner = Empty
    /\ rev = [s \in 1..MaxScope |-> 0] /\ changes = Empty /\ others = 0
    /\ scope = 1 /\ page = "universe" /\ canvas = TRUE /\ due = TRUE
    /\ cache = None /\ invalid = FALSE /\ fetch = Sent /\ swallowed = FALSE
    /\ checking = None
    /\ shown = Empty /\ pending = {} /\ groups = NoGroup
    /\ wire = {} /\ asks = 0 /\ taken = Empty

----------------------------------------------------------------------------
(* The query cache *)

\* refetchQueries: a read in flight is dropped for a new one, unless it is the first.
Refetch ==
    fetch' = IF fetch # None /\ cache = None THEN [fetch EXCEPT !.joined = TRUE] ELSE Sent

\* Broken variant of Invalidate: a read in flight counts as the new one.
InvalidateJoining ==
    /\ invalid' = TRUE
    /\ fetch' = IF fetch # None \/ page # "universe" THEN fetch ELSE Sent

\* invalidateQueries: the data is marked, and read again if a page shows it.
Invalidate ==
    /\ invalid' = TRUE
    /\ IF page = "universe" THEN Refetch
       ELSE fetch' = IF fetch = None THEN None ELSE [fetch EXCEPT !.joined = TRUE]

\* GetUniverse at the service.
Read ==
    /\ fetch # None /\ fetch.read = None
    /\ fetch' = [fetch EXCEPT !.read =
          [rev |-> rev[scope], has |-> {m \in Memory : state[m] = "live" /\ owner[m] = scope}]]
    /\ UNCHANGED <<server, screen, due, cache, invalid, swallowed, checking, stores, wire, asks, taken>>

\* structuralSharing keeps the data when the answer equals it: no effect runs.
Arrive ==
    /\ fetch # None /\ fetch.read # None
    /\ cache' = fetch.read /\ invalid' = FALSE /\ swallowed' = fetch.joined /\ fetch' = None
    /\ due' = (due \/ (canvas /\ cache # fetch.read))
    /\ UNCHANGED <<server, screen, checking, stores, wire, asks, taken>>

\* throwOnError: the canvas gives way to the error boundary.
FetchFails ==
    /\ fetch # None
    /\ fetch' = None
    /\ canvas' = FALSE /\ due' = FALSE
    /\ UNCHANGED <<server, scope, page, cache, invalid, swallowed, checking, stores, wire, asks, taken>>

\* The data of a query no page shows is collected after a while.
Collect ==
    /\ page = "reader" /\ fetch = None /\ cache # None
    /\ cache' = None /\ invalid' = FALSE
    /\ UNCHANGED <<server, screen, due, fetch, swallowed, checking, stores, wire, asks, taken>>

\* subscribeRevisionGatedRefocus: the window regains focus on stale data.
Refocus ==
    /\ canvas /\ cache # None /\ checking = None
    /\ checking' = cache.rev
    /\ UNCHANGED <<server, screen, due, query, stores, wire, asks, taken>>

\* A revision that did not move, and a read of it that fails, change nothing.
RevisionRead ==
    /\ checking # None
    /\ checking' = None
    /\ \/ checking # rev[scope] /\ cache # None /\ Refetch
       \/ UNCHANGED fetch
    /\ UNCHANGED <<server, screen, due, cache, invalid, swallowed, stores, wire, asks, taken>>

----------------------------------------------------------------------------
(* useUniverse *)

\* A mount reads when there is nothing, when the data was invalidated or when it is stale.
Mounted(stale) ==
    /\ canvas' = TRUE /\ due' = TRUE
    /\ fetch' = IF fetch = None /\ (cache = None \/ invalid \/ stale) THEN Sent ELSE fetch

reconcile(has) ==
    /\ pending' = {m \in pending \ has : shown[m] > 0}
    /\ shown' = [m \in Memory |-> IF m \in has \cup pending' THEN 1 ELSE 0]
    /\ UNCHANGED groups

clear == shown' = Empty /\ pending' = {} /\ groups' = NoGroup

Effect ==
    /\ canvas /\ due
    /\ due' = FALSE
    /\ IF cache = None THEN clear ELSE reconcile(cache.has)
    /\ UNCHANGED <<server, screen, query, checking, wire, asks, taken>>

\* The error boundary is reset.
TryAgain(stale) ==
    /\ page = "universe" /\ ~canvas
    /\ Mounted(stale)
    /\ UNCHANGED <<server, scope, page, cache, invalid, swallowed, checking, stores, wire, asks, taken>>

----------------------------------------------------------------------------
(* The pages and the account *)

\* The completion scopes of the owners that are gone; a request may still commit.
Abandon(w) == {[q EXCEPT !.current = FALSE] : q \in w}

OpenReader ==
    /\ page = "universe"
    /\ page' = "reader" /\ canvas' = FALSE /\ due' = FALSE
    /\ fetch' = None
    /\ wire' = Abandon(wire)
    /\ UNCHANGED <<server, scope, cache, invalid, swallowed, checking, stores, asks, taken>>

OpenUniverse(stale) ==
    /\ page = "reader"
    /\ page' = "universe"
    /\ Mounted(stale)
    /\ wire' = Abandon(wire)
    /\ UNCHANGED <<server, scope, cache, invalid, swallowed, checking, stores, asks, taken>>

\* Another account: the boundary unmounts the pages and withholds the next ones until the
\* query cache and the stores are cleared.
ChangeAccount ==
    /\ scope < MaxScope
    /\ scope' = scope + 1
    /\ page' = "universe" /\ canvas' = TRUE /\ due' = TRUE
    /\ cache' = None /\ invalid' = FALSE /\ fetch' = Sent /\ swallowed' = FALSE
    /\ checking' = None
    /\ clear
    /\ wire' = Abandon(wire)
    /\ UNCHANGED <<server, asks, taken>>

----------------------------------------------------------------------------
(* Launching, releasing and restoring *)

Ask(kind, m) ==
    /\ asks < MaxAsks
    /\ ~due  \* effects run before the next gesture
    \* the sheets are modal; only the list of restores can be closed over a call
    /\ \A q \in wire : q.current => q.kind = "restore" /\ q.memory # m
    /\ asks' = asks + 1
    /\ wire' = wire \cup {[n |-> asks + 1, kind |-> kind, memory |-> m, scope |-> scope,
                           nth |-> None, current |-> TRUE]}
    /\ UNCHANGED <<server, screen, due, query, checking, stores, taken>>

AskLaunch(m) ==
    /\ page = "universe"
    /\ state[m] = "unborn" /\ \A q \in wire : q.memory # m
    /\ Ask("launch", m)

\* From the detail of a star, or from the archive.
AskRelease(m) ==
    /\ page = "universe" => canvas /\ shown[m] > 0
    /\ state[m] # "unborn" /\ owner[m] = scope
    /\ Ask("release", m)

AskRestore(m) ==
    /\ page = "reader" /\ groups[m] # None
    /\ Ask("restore", m)

\* What a request finds, and what it makes of it.
From(kind) ==
    CASE kind = "launch" -> "unborn" [] kind = "release" -> "live" [] kind = "restore" -> "released"
To(kind) == IF kind = "release" THEN "released" ELSE "live"

Moves(m, s, by) ==
    /\ state' = [state EXCEPT ![m] = s]
    /\ owner' = [owner EXCEPT ![m] = by]
    /\ rev' = [rev EXCEPT ![by] = @ + 1]
    /\ changes' = [changes EXCEPT ![m] = @ + 1]

Commit(q) ==
    /\ q.nth = None /\ state[q.memory] = From(q.kind)
    /\ Moves(q.memory, To(q.kind), q.scope)
    /\ wire' = (wire \ {q}) \cup {[q EXCEPT !.nth = changes[q.memory] + 1]}
    /\ UNCHANGED <<others, screen, due, query, checking, stores, asks, taken>>

Refuse(q) ==
    /\ q.nth = None /\ state[q.memory] # From(q.kind)
    /\ wire' = wire \ {q}
    /\ UNCHANGED <<server, screen, due, query, checking, stores, asks, taken>>

\* The call fails, or the writing sheet is closed over it: nothing is applied, nothing read.
Miss(q) ==
    /\ q.current
    /\ wire' = (wire \ {q}) \cup Abandon({q})
    /\ UNCHANGED <<server, screen, due, query, checking, stores, asks, taken>>

\* Broken variant of isCurrent: an answer belongs to whoever is there.
isCurrentAlways(q) == TRUE
isCurrent(q) == q.current

\* insertLaunchedMemories
insert(m) ==
    /\ shown' = [shown EXCEPT ![m] = @ + 1]
    /\ pending' = pending \cup {m}
    /\ UNCHANGED groups

applyReleaseResult(m) ==
    /\ groups' = [groups EXCEPT ![m] = shown[m]]
    /\ shown' = [shown EXCEPT ![m] = 0]
    /\ UNCHANGED pending

applyRestoreResult(m) ==
    /\ shown' = [shown EXCEPT ![m] = IF @ = 0 /\ groups[m] # None THEN groups[m] ELSE @]
    /\ groups' = [groups EXCEPT ![m] = None]
    /\ UNCHANGED pending

Apply(q) ==
    /\ \/ q.kind = "launch" /\ insert(q.memory)
       \/ q.kind = "release" /\ applyReleaseResult(q.memory)
       \/ q.kind = "restore" /\ applyRestoreResult(q.memory)
    /\ taken' = [taken EXCEPT ![q.memory] = q.nth]
    /\ Invalidate

\* The continuation of a request that was answered.
Take(q) ==
    /\ q.nth # None
    /\ wire' = wire \ {q}
    /\ IF isCurrent(q) THEN Apply(q) ELSE UNCHANGED <<stores, taken, invalid, fetch>>
    /\ UNCHANGED <<server, screen, due, cache, swallowed, checking, asks>>

\* Another device of this account releases or restores.
OtherDevice(m) ==
    /\ others < MaxOther
    /\ others' = others + 1
    /\ owner[m] = scope
    /\ Moves(m, IF state[m] = "live" THEN "released" ELSE "live", scope)
    /\ UNCHANGED <<screen, due, query, checking, stores, wire, asks, taken>>

----------------------------------------------------------------------------

Next ==
    \/ Read \/ Arrive \/ FetchFails \/ Collect
    \/ Refocus \/ RevisionRead
    \/ Effect
    \/ \E stale \in BOOLEAN : TryAgain(stale) \/ OpenUniverse(stale)
    \/ OpenReader \/ ChangeAccount
    \/ \E m \in Memory : AskLaunch(m) \/ AskRelease(m) \/ AskRestore(m) \/ OtherDevice(m)
    \/ \E q \in wire : Commit(q) \/ Refuse(q) \/ Miss(q) \/ Take(q)

Spec == Init /\ [][Next]_vars

----------------------------------------------------------------------------
(* Properties *)

\* An account sees only what is its own, whatever was in flight when it signed in.
OwnMemories ==
    \A m \in Memory : shown[m] > 0 \/ m \in pending \/ groups[m] # None => owner[m] = scope

\* The canvas drew the data and no read is under way.
AtRest == canvas /\ ~due /\ fetch = None

\* What the user did and was answered stands once the screen is at rest, unless another
\* device changed it since, or the invalidation met a read that it does not restart: a read
\* that is owed is under way, and a snapshot older than the act does not outlive it.
OwnWorkStands ==
    AtRest /\ ~swallowed =>
        \A m \in Memory :
            owner[m] = scope /\ taken[m] = changes[m] => (shown[m] > 0 <=> state[m] = "live")

\* A star that was never released does not leave the sky, however old the snapshot, short of
\* a change of account or of a page that returns to nothing cached.
StarStays ==
    [][\A m \in Memory :
          shown[m] > 0 /\ shown'[m] = 0 =>
              scope' # scope \/ cache = None \/ changes[m] > 1]_vars
=============================================================================
