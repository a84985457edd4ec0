---------------------------- MODULE ClientProofs ----------------------------
(***************************************************************************)
(* Proofs about two machines of the client: the mirror of the universe, for *)
(* any number of memories, accounts, requests and changes, and the session, *)
(* for any number of users, calls and turns.                                *)
(***************************************************************************)
EXTENDS Session, UniverseMirror, FiniteSetTheorems, TLAPS

-----------------------------------------------------------------------------
(* The mirror of the universe: own work stands, and no star vanishes unasked. *)

\* The service: a memory is launched once, and belongs to the account that launched it.
Known(m) ==
    /\ state[m] = "unborn" <=> changes[m] = 0
    /\ state[m] = "unborn" => owner[m] = 0
    /\ state[m] # "unborn" => owner[m] \in 1..scope
    /\ changes[m] = 1 => state[m] = "live"
    /\ taken[m] <= changes[m]
ServerInv == \A m \in Memory : Known(m)

\* The requests: what one found and what it made stays known until another change.
Sound(q) ==
    /\ q.memory \in Memory /\ q.scope \in 1..scope
    /\ q.current => q.scope = scope
    /\ q.current /\ q.kind = "restore" => page = "reader"
    /\ q.kind # "launch" => state[q.memory] # "unborn" /\ owner[q.memory] = q.scope
    /\ q.nth # None =>
          /\ q.nth <= changes[q.memory] /\ owner[q.memory] = q.scope /\ q.nth >= 1
          /\ q.nth = changes[q.memory] => state[q.memory] = To(q.kind)
          /\ q.kind = "release" => q.nth >= 2
WireInv == \A q \in wire : Sound(q)

Owned(has) == \A m \in has : owner[m] = scope

\* What the client holds is the account's own.
OwnInv ==
    /\ OwnMemories
    /\ \A m \in Memory : groups[m] # None => changes[m] >= 2
    /\ cache # None => Owned(cache.has)
    /\ fetch # None => (fetch.read # None => Owned(fetch.read.has))

PageInv ==
    /\ canvas => page = "universe"
    /\ canvas /\ (invalid \/ cache = None) => fetch # None

\* The last change of m is one whose answer was taken.
Mine(m) == owner[m] = scope /\ taken[m] = changes[m]

\* A snapshot says of m what the service does.
Right(has, m) == m \in has <=> state[m] = "live"

\* A read that no invalidation joined, and data that neither waits for a read nor came with
\* such a one, are right about what is mine; so is the canvas once it drew such data.
ReadRight(m) == fetch # None => (fetch.read # None /\ ~fetch.joined => Right(fetch.read.has, m))
DataRight(m) == cache # None /\ ~invalid /\ ~swallowed => Right(cache.has, m)
Drawn(m) == canvas /\ ~due /\ cache # None => (Right(cache.has, m) => (shown[m] > 0 <=> state[m] = "live"))
NotOwed(m) == state[m] = "released" => m \notin pending \/ shown[m] = 0
WorkInv == \A m \in Memory : Mine(m) => ReadRight(m) /\ DataRight(m) /\ Drawn(m) /\ NotOwed(m)

\* A star that is no longer pending and was never released is in every snapshot from then on.
InData(m) == shown[m] > 0 /\ m \notin pending /\ cache # None => m \in cache.has
InRead(m) ==
    fetch # None => (fetch.read # None =>
        ((shown[m] > 0 /\ m \notin pending) \/ (cache # None /\ m \in cache.has) => m \in fetch.read.has))
StarInv == \A m \in Memory : changes[m] = 1 => InData(m) /\ InRead(m)

IInv ==
    /\ TypeOK
    /\ ServerInv
    /\ WireInv
    /\ OwnInv
    /\ PageInv
    /\ WorkInv
    /\ StarInv

----------------------------------------------------------------------------
(* Types *)

LEMMA SentIsRead == Sent \in Reading /\ Sent # None /\ Sent.read = None /\ Sent.joined = FALSE
<1>1. Sent \in Reading
  BY DEF Sent, Reading
<1> QED
  BY <1>1, UniverseMirrorAssumption DEF Sent

\* A read joined by an invalidation stays what it was.
LEMMA Joined ==
    ASSUME NEW f \in Reading
    PROVE  /\ [f EXCEPT !.joined = TRUE] \in Reading
           /\ [f EXCEPT !.joined = TRUE].read = f.read
           /\ [f EXCEPT !.joined = TRUE].joined = TRUE
           /\ [f EXCEPT !.joined = TRUE] # None
<1>1. [f EXCEPT !.joined = TRUE] \in Reading
  BY DEF Reading
<1> QED
  BY <1>1, UniverseMirrorAssumption DEF Reading

LEMMA Refetched ==
    ASSUME fetch \in Reading \cup {None}, Refetch
    PROVE  /\ fetch' \in Reading /\ fetch' # None
           /\ \/ fetch' = Sent
              \/ /\ fetch # None /\ cache = None
                 /\ fetch'.read = fetch.read /\ fetch'.joined = TRUE
BY SentIsRead, Joined DEF Refetch

LEMMA ReadAnswered ==
    ASSUME TypeOK, Read
    PROVE  fetch' \in Reading /\ fetch' # None
<1> DEFINE snap == [rev |-> rev[scope], has |-> {m \in Memory : state[m] = "live" /\ owner[m] = scope}]
<1>1. snap \in Snapshot
  BY DEF TypeOK, Snapshot
<1>2. fetch' \in Reading
  BY <1>1 DEF Read, TypeOK, Reading
<1> QED
  BY <1>2, UniverseMirrorAssumption

LEMMA Answered ==
    ASSUME NEW q \in Request, NEW n \in Nat
    PROVE  [q EXCEPT !.nth = n] \in Request
BY DEF Request

LEMMA InitTyped == Init => TypeOK
<1> SUFFICES ASSUME Init PROVE TypeOK
  OBVIOUS
<1>1. /\ state \in [Memory -> {"unborn", "live", "released"}]
      /\ owner \in [Memory -> Nat]
      /\ rev \in [1..MaxScope -> Nat]
      /\ changes \in [Memory -> Nat]
      /\ shown \in [Memory -> Nat]
      /\ groups \in [Memory -> Nat \cup {None}]
      /\ taken \in [Memory -> Nat]
  BY DEF Init, Empty, NoGroup
<1>2. scope \in 1..MaxScope
  BY UniverseMirrorAssumption DEF Init
<1> QED
  BY <1>1, <1>2, SentIsRead DEF Init, TypeOK

LEMMA Typed ==
    ASSUME TypeOK, WireInv, Next
    PROVE  TypeOK'
<1>1. CASE Read \/ Arrive \/ FetchFails \/ Collect \/ Refocus \/ RevisionRead
  <2>1. CASE Read
    BY <2>1, ReadAnswered DEF Read, TypeOK, server, screen, stores
  <2>2. CASE Arrive
    BY <2>2 DEF Arrive, TypeOK, server, screen, stores, Reading
  <2>3. CASE FetchFails
    BY <2>3 DEF FetchFails, TypeOK, server, stores
  <2>4. CASE Collect
    BY <2>4 DEF Collect, TypeOK, server, screen, stores
  <2>5. CASE Refocus
    BY <2>5 DEF Refocus, TypeOK, server, screen, query, stores, Snapshot
  <2>6. CASE RevisionRead
    <3>1. fetch' \in Reading \cup {None}
      BY <2>6, Refetched DEF RevisionRead, TypeOK
    <3> QED
      BY <2>6, <3>1 DEF RevisionRead, TypeOK, server, screen, stores
  <2> QED
    BY <1>1, <2>1, <2>2, <2>3, <2>4, <2>5, <2>6
<1>2. CASE Effect
  <2>1. CASE cache = None
    <3>1. shown' \in [Memory -> Nat] /\ pending' \subseteq Memory /\ groups' \in [Memory -> Nat \cup {None}]
      BY <1>2, <2>1 DEF Effect, clear, Empty, NoGroup
    <3> QED
      BY <1>2, <3>1 DEF Effect, TypeOK, server, screen, query
  <2>2. CASE cache # None
    <3>1. shown' \in [Memory -> Nat]
      BY <1>2, <2>2 DEF Effect, reconcile
    <3>2. pending' \subseteq Memory /\ groups' \in [Memory -> Nat \cup {None}]
      BY <1>2, <2>2 DEF Effect, reconcile, TypeOK
    <3> QED
      BY <1>2, <3>1, <3>2 DEF Effect, TypeOK, server, screen, query
  <2> QED
    BY <2>1, <2>2
<1>3. ASSUME NEW stale \in BOOLEAN, TryAgain(stale) PROVE TypeOK'
  BY <1>3, SentIsRead DEF TryAgain, Mounted, TypeOK, server, stores
<1>4. wire \subseteq Request => Abandon(wire) \subseteq Request
  BY DEF Abandon, Request
<1>5. ASSUME NEW stale \in BOOLEAN, OpenUniverse(stale) PROVE TypeOK'
  BY <1>4, <1>5, SentIsRead DEF OpenUniverse, Mounted, TypeOK, server, stores
<1>6. CASE OpenReader
  BY <1>4, <1>6 DEF OpenReader, TypeOK, server, stores
<1>7. CASE ChangeAccount
  <2>1. scope + 1 \in 1..MaxScope
    BY <1>7, UniverseMirrorAssumption DEF ChangeAccount, TypeOK
  <2> QED
    BY <1>4, <1>7, <2>1, SentIsRead DEF ChangeAccount, clear, Empty, NoGroup, TypeOK, server
<1>8. ASSUME NEW m \in Memory, AskLaunch(m) \/ AskRelease(m) \/ AskRestore(m) PROVE TypeOK'
  <2>1. PICK kind \in {"launch", "release", "restore"} : Ask(kind, m)
    BY <1>8 DEF AskLaunch, AskRelease, AskRestore
  <2>2. wire' \subseteq Request
    <3>1. [n |-> asks + 1, kind |-> kind, memory |-> m, scope |-> scope, nth |-> None,
           current |-> TRUE] \in Request
      BY UniverseMirrorAssumption DEF TypeOK, Request
    <3> QED
      BY <2>1, <3>1 DEF Ask, TypeOK
  <2> QED
    BY <2>1, <2>2 DEF Ask, TypeOK, server, screen, query, stores
<1>9. ASSUME NEW m \in Memory, NEW s \in {"live", "released"}, NEW by \in 1..MaxScope, Moves(m, s, by)
      PROVE  /\ state' \in [Memory -> {"unborn", "live", "released"}]
             /\ owner' \in [Memory -> Nat]
             /\ rev' \in [1..MaxScope -> Nat]
             /\ changes' \in [Memory -> Nat]
  <2>1. state' \in [Memory -> {"unborn", "live", "released"}]
    BY <1>9 DEF Moves, TypeOK
  <2>2. owner' \in [Memory -> Nat]
    BY <1>9, UniverseMirrorAssumption DEF Moves, TypeOK
  <2>3. rev' \in [1..MaxScope -> Nat]
    BY <1>9, UniverseMirrorAssumption DEF Moves, TypeOK
  <2>4. changes' \in [Memory -> Nat]
    BY <1>9 DEF Moves, TypeOK
  <2> QED
    BY <2>1, <2>2, <2>3, <2>4
<1>10. ASSUME NEW m \in Memory, OtherDevice(m) PROVE TypeOK'
  <2>1. (IF state[m] = "live" THEN "released" ELSE "live") \in {"live", "released"}
    OBVIOUS
  <2>2. scope \in 1..MaxScope
    BY DEF TypeOK
  <2>3. Moves(m, IF state[m] = "live" THEN "released" ELSE "live", scope)
    BY <1>10 DEF OtherDevice
  <2>4. /\ state' \in [Memory -> {"unborn", "live", "released"}]
        /\ owner' \in [Memory -> Nat]
        /\ rev' \in [1..MaxScope -> Nat]
        /\ changes' \in [Memory -> Nat]
    BY <1>9, <2>1, <2>2, <2>3
  <2> QED
    BY <1>10, <2>4 DEF OtherDevice, TypeOK, screen, query, stores
<1>11. ASSUME NEW q \in wire, Commit(q) PROVE TypeOK'
  <2>1. q \in Request /\ q.memory \in Memory /\ q.scope \in 1..MaxScope /\ To(q.kind) \in {"live", "released"}
    BY <1>11, UniverseMirrorAssumption DEF TypeOK, Request, WireInv, Sound, To
  <2>2. /\ state' \in [Memory -> {"unborn", "live", "released"}]
        /\ owner' \in [Memory -> Nat]
        /\ rev' \in [1..MaxScope -> Nat]
        /\ changes' \in [Memory -> Nat]
    BY <1>9, <1>11, <2>1 DEF Commit
  <2>3. [q EXCEPT !.nth = changes[q.memory] + 1] \in Request
    <3>1. changes[q.memory] + 1 \in Nat
      BY <2>1 DEF TypeOK
    <3> QED
      BY <2>1, <3>1, Answered
  <2> QED
    BY <1>11, <2>2, <2>3 DEF Commit, TypeOK, screen, query, stores
<1>12. ASSUME NEW q \in wire, Refuse(q) PROVE TypeOK'
  BY <1>12 DEF Refuse, TypeOK, server, screen, query, stores
<1>13. ASSUME NEW q \in wire, Miss(q) PROVE TypeOK'
  BY <1>4, <1>13 DEF Miss, Abandon, Request, TypeOK, server, screen, query, stores
<1>14. ASSUME NEW q \in wire, Take(q) PROVE TypeOK'
  <2>1. q \in Request /\ q.memory \in Memory /\ q.nth \in Nat
    BY <1>14 DEF Take, TypeOK, Request
  <2>2. CASE ~q.current
    BY <1>14, <2>2 DEF Take, isCurrent, TypeOK, server, screen, stores
  <2>3. CASE q.current
    <3>1. Apply(q)
      BY <1>14, <2>3 DEF Take, isCurrent
    <3>2. invalid' \in BOOLEAN /\ fetch' \in Reading \cup {None}
      BY <3>1, Refetched, Joined DEF Apply, Invalidate, TypeOK
    <3>3. shown' \in [Memory -> Nat] /\ pending' \subseteq Memory /\ groups' \in [Memory -> Nat \cup {None}]
      <4>1. CASE insert(q.memory)
        BY <2>1, <4>1 DEF insert, TypeOK
      <4>2. CASE applyReleaseResult(q.memory)
        BY <2>1, <4>2 DEF applyReleaseResult, TypeOK
      <4>3. CASE applyRestoreResult(q.memory)
        BY <2>1, <4>3 DEF applyRestoreResult, TypeOK
      <4> QED
        BY <3>1, <4>1, <4>2, <4>3 DEF Apply
    <3>4. taken' \in [Memory -> Nat]
      BY <2>1, <3>1 DEF Apply, TypeOK
    <3> QED
      BY <1>14, <3>2, <3>3, <3>4 DEF Take, TypeOK, server, screen
  <2> QED
    BY <2>1, <2>2, <2>3 DEF Request
<1> QED
  BY <1>1, <1>2, <1>3, <1>5, <1>6, <1>7, <1>8, <1>10, <1>11, <1>12, <1>13, <1>14 DEF Next

----------------------------------------------------------------------------
(* The service and the requests *)

\* What a change of memory m leaves behind.
LEMMA Moved ==
    ASSUME TypeOK, NEW m \in Memory, NEW s, NEW by \in 1..MaxScope, Moves(m, s, by)
    PROVE  /\ state'[m] = s /\ owner'[m] = by /\ changes'[m] = changes[m] + 1
           /\ \A o \in Memory \ {m} :
                 state'[o] = state[o] /\ owner'[o] = owner[o] /\ changes'[o] = changes[o]
BY DEF Moves, TypeOK

LEMMA Asked ==
    ASSUME TypeOK, WireInv, NEW q \in wire
    PROVE  /\ q \in Request /\ q.memory \in Memory /\ q.current \in BOOLEAN
           /\ q.kind \in {"launch", "release", "restore"} /\ q.nth \in Nat \cup {None}
           /\ scope \in Nat /\ q.scope \in Nat /\ 1 <= q.scope /\ q.scope <= scope
           /\ q.scope \in 1..MaxScope
<1>1. q \in Request
  BY DEF TypeOK
<1>2. q.scope \in 1..scope
  BY DEF WireInv, Sound
<1>3. scope \in 1..MaxScope
  BY DEF TypeOK
<1> QED
  BY <1>1, <1>2, <1>3, UniverseMirrorAssumption DEF Request

\* The two actions that move a memory at the service.
LEMMA Committed ==
    ASSUME TypeOK, WireInv, NEW q \in wire, Commit(q)
    PROVE  /\ state'[q.memory] = To(q.kind) /\ owner'[q.memory] = q.scope
           /\ changes'[q.memory] = changes[q.memory] + 1 /\ changes[q.memory] \in Nat
           /\ \A o \in Memory \ {q.memory} :
                 state'[o] = state[o] /\ owner'[o] = owner[o] /\ changes'[o] = changes[o]
<1>1. q.memory \in Memory /\ q.scope \in 1..MaxScope
  BY Asked
<1>2. Moves(q.memory, To(q.kind), q.scope)
  BY DEF Commit
<1>3. changes[q.memory] \in Nat
  BY <1>1 DEF TypeOK
<1> QED
  BY <1>1, <1>2, <1>3, Moved

LEMMA ChangedElsewhere ==
    ASSUME TypeOK, NEW m \in Memory, OtherDevice(m)
    PROVE  /\ state'[m] = (IF state[m] = "live" THEN "released" ELSE "live") /\ owner'[m] = scope
           /\ changes'[m] = changes[m] + 1 /\ changes[m] \in Nat
           /\ \A o \in Memory \ {m} :
                 state'[o] = state[o] /\ owner'[o] = owner[o] /\ changes'[o] = changes[o]
<1>1. scope \in 1..MaxScope /\ changes[m] \in Nat
  BY DEF TypeOK
<1>2. Moves(m, IF state[m] = "live" THEN "released" ELSE "live", scope)
  BY DEF OtherDevice
<1> QED
  BY <1>1, <1>2, Moved

\* No memory at the service, no account and no book of the history moves.
Quiet == UNCHANGED <<state, owner, changes, scope, taken>>

\* Few actions touch the memories at the service, the account or the books of the history.
LEMMA Still ==
    ASSUME Next
    PROVE  \/ Quiet
           \/ ChangeAccount
           \/ \E q \in wire : Commit(q) \/ (Take(q) /\ q.current)
           \/ \E m \in Memory : OtherDevice(m)
<1>1. CASE Read \/ Arrive \/ FetchFails \/ Collect \/ Refocus \/ RevisionRead \/ Effect \/ OpenReader
  BY <1>1 DEF Read, Arrive, FetchFails, Collect, Refocus, RevisionRead, Effect, OpenReader,
              server, screen, Quiet
<1>2. ASSUME NEW stale \in BOOLEAN, TryAgain(stale) \/ OpenUniverse(stale)
      PROVE  Quiet
  BY <1>2 DEF TryAgain, OpenUniverse, server, Quiet
<1>3. ASSUME NEW m \in Memory, AskLaunch(m) \/ AskRelease(m) \/ AskRestore(m)
      PROVE  Quiet
  BY <1>3 DEF AskLaunch, AskRelease, AskRestore, Ask, server, screen, Quiet
<1>4. ASSUME NEW q \in wire, Refuse(q) \/ Miss(q) PROVE Quiet
  BY <1>4 DEF Refuse, Miss, server, screen, Quiet
<1>5. ASSUME NEW q \in wire, Take(q)
      PROVE  (Take(q) /\ q.current) \/ Quiet
  BY <1>5 DEF Take, isCurrent, server, screen, Quiet
<1> QED
  BY <1>1, <1>2, <1>3, <1>4, <1>5 DEF Next

\* A memory the service knows keeps its owner.
LEMMA OwnerStays ==
    ASSUME TypeOK, ServerInv, WireInv, Next, NEW m \in Memory, owner[m] # 0
    PROVE  owner'[m] = owner[m]
<1>1. CASE ChangeAccount
  BY <1>1 DEF ChangeAccount, server
<1>2. ASSUME NEW q \in wire, Commit(q) PROVE owner'[m] = owner[m]
  <2>1. q.memory \in Memory /\ q.scope \in 1..MaxScope
    BY Asked
  <2>2. m # q.memory => owner'[m] = owner[m]
    BY <1>2, Committed
  <2>3. CASE m = q.memory
    <3>1. q.kind # "launch"
      BY <1>2, <2>3 DEF Commit, From, ServerInv, Known
    <3>2. owner[m] = q.scope
      BY <2>3, <3>1 DEF WireInv, Sound
    <3> QED
      BY <1>2, <2>3, <3>2, Committed
  <2> QED
    BY <2>2, <2>3
<1>3. ASSUME NEW q \in wire, Take(q) PROVE owner'[m] = owner[m]
  BY <1>3 DEF Take, server
<1>4. ASSUME NEW o \in Memory, OtherDevice(o) PROVE owner'[m] = owner[m]
  <2>1. scope \in 1..MaxScope
    BY DEF TypeOK
  <2> QED
    BY <1>4, <2>1, ChangedElsewhere DEF OtherDevice
<1> QED
  BY <1>1, <1>2, <1>3, <1>4, Still DEF Quiet

LEMMA ServerKept ==
    ASSUME TypeOK, ServerInv, WireInv, Next
    PROVE  ServerInv'
<1>1. CASE Quiet
  BY <1>1 DEF ServerInv, Known, Quiet
<1>2. CASE ChangeAccount
  BY <1>2 DEF ChangeAccount, server, ServerInv, Known, TypeOK
<1>3. ASSUME NEW q \in wire, Commit(q) PROVE ServerInv'
  <2>1. q.memory \in Memory /\ q.scope \in 1..scope /\ q.scope \in 1..MaxScope
    BY Asked
  <2>2. UNCHANGED <<scope, taken>>
    BY <1>3 DEF Commit, screen
  <2>3. /\ state'[q.memory] = To(q.kind) /\ owner'[q.memory] = q.scope
        /\ changes'[q.memory] = changes[q.memory] + 1
        /\ \A o \in Memory \ {q.memory} :
              state'[o] = state[o] /\ owner'[o] = owner[o] /\ changes'[o] = changes[o]
    BY <1>3, Committed
  <2>4. changes[q.memory] = 0 => To(q.kind) = "live"
    BY <1>3, <2>1 DEF Commit, From, To, ServerInv, Known
  <2>5. To(q.kind) # "unborn"
    BY DEF To
  <2>6. Known(q.memory)'
    <3>1. changes[q.memory] \in Nat /\ taken[q.memory] \in Nat /\ taken[q.memory] <= changes[q.memory]
      BY <2>1 DEF ServerInv, Known, TypeOK
    <3> QED
      BY <2>1, <2>2, <2>3, <2>4, <2>5, <3>1 DEF Known
  <2>7. ASSUME NEW o \in Memory \ {q.memory} PROVE Known(o)'
    <3>1. Known(o)
      BY DEF ServerInv
    <3> QED
      BY <2>2, <2>3, <3>1 DEF Known
  <2> QED
    BY <2>6, <2>7 DEF ServerInv
<1>4. ASSUME NEW q \in wire, Take(q), q.current PROVE ServerInv'
  <2>1. q.memory \in Memory /\ q.nth <= changes[q.memory]
    BY <1>4 DEF Take, WireInv, Sound
  <2>2. UNCHANGED <<state, owner, changes, scope>> /\ taken' = [taken EXCEPT ![q.memory] = q.nth]
    BY <1>4 DEF Take, isCurrent, Apply, server, screen, Quiet
  <2> QED
    BY <2>1, <2>2 DEF ServerInv, Known, TypeOK
<1>5. ASSUME NEW m \in Memory, OtherDevice(m) PROVE ServerInv'
  <2>1. scope \in 1..MaxScope /\ UNCHANGED <<scope, taken>>
    BY <1>5 DEF OtherDevice, screen, TypeOK
  <2>2. /\ state'[m] = (IF state[m] = "live" THEN "released" ELSE "live") /\ owner'[m] = scope
        /\ changes'[m] = changes[m] + 1
        /\ \A o \in Memory \ {m} :
              state'[o] = state[o] /\ owner'[o] = owner[o] /\ changes'[o] = changes[o]
    BY <1>5, ChangedElsewhere
  <2>3. changes[m] \in Nat \ {0}
    BY <1>5, <2>1 DEF OtherDevice, ServerInv, Known, TypeOK
  <2>4. scope \in 1..scope /\ changes[m] + 1 > 1
    BY <2>1, <2>3
  <2>5. ASSUME NEW o \in Memory PROVE Known(o)'
    <3>1. CASE o = m
      BY <2>1, <2>2, <2>3, <2>4, <3>1 DEF ServerInv, Known, TypeOK
    <3>2. CASE o # m
      BY <2>1, <2>2, <3>2 DEF ServerInv, Known
    <3> QED
      BY <3>1, <3>2
  <2> QED
    BY <2>5 DEF ServerInv, Known
<1> QED
  BY <1>1, <1>2, <1>3, <1>4, <1>5, Still

LEMMA WireKept ==
    ASSUME TypeOK, ServerInv, WireInv, OwnInv, Next
    PROVE  WireInv'
<1>1. ASSUME UNCHANGED <<state, owner, changes, scope, page>>, NEW q \in wire PROVE Sound(q)'
  BY <1>1 DEF WireInv, Sound
<1>2. ASSUME UNCHANGED <<state, owner, changes>>, scope' = scope \/ scope' = scope + 1, NEW q \in wire
      PROVE  Sound([q EXCEPT !.current = FALSE])'
  <2> DEFINE r == [q EXCEPT !.current = FALSE]
  <2>1. /\ r.memory = q.memory /\ r.scope = q.scope /\ r.kind = q.kind /\ r.nth = q.nth
        /\ r.current = FALSE
    BY Asked DEF Request
  <2>2. q.scope \in 1..scope'
    BY <1>2, Asked
  <2>3. Sound(q)
    BY DEF WireInv
  <2> QED
    BY <1>2, <2>1, <2>2, <2>3 DEF Sound
<1>3. ASSUME wire' \subseteq wire, UNCHANGED <<state, owner, changes, scope, page>> PROVE WireInv'
  BY <1>1, <1>3 DEF WireInv
<1>4. CASE Read \/ Arrive \/ FetchFails \/ Collect \/ Refocus \/ RevisionRead \/ Effect
  BY <1>3, <1>4 DEF Read, Arrive, FetchFails, Collect, Refocus, RevisionRead, Effect, server, screen
<1>5. ASSUME NEW stale \in BOOLEAN, TryAgain(stale) PROVE WireInv'
  BY <1>3, <1>5 DEF TryAgain, server
<1>6. ASSUME wire' = Abandon(wire), UNCHANGED <<state, owner, changes>>,
             scope' = scope \/ scope' = scope + 1
      PROVE  WireInv'
  BY <1>2, <1>6 DEF Abandon, WireInv
<1>7. ASSUME NEW stale \in BOOLEAN, OpenUniverse(stale) \/ OpenReader \/ ChangeAccount PROVE WireInv'
  BY <1>6, <1>7 DEF OpenUniverse, OpenReader, ChangeAccount, server
<1>8. ASSUME NEW m \in Memory, AskLaunch(m) \/ AskRelease(m) \/ AskRestore(m) PROVE WireInv'
  <2> DEFINE new(kind) == [n |-> asks + 1, kind |-> kind, memory |-> m, scope |-> scope,
                           nth |-> None, current |-> TRUE]
  <2>1. scope \in 1..scope
    BY DEF TypeOK
  <2>2. ASSUME NEW kind \in {"launch", "release", "restore"}, Ask(kind, m),
               kind = "restore" => page = "reader",
               kind # "launch" => state[m] # "unborn" /\ owner[m] = scope
        PROVE  WireInv'
    <3>1. UNCHANGED <<state, owner, changes, scope, page>> /\ wire' = wire \cup {new(kind)}
      BY <2>2 DEF Ask, server, screen
    <3>2. ASSUME NEW r, r = new(kind) PROVE Sound(r)'
      BY <2>1, <2>2, <3>1, <3>2 DEF Sound
    <3> QED
      BY <1>1, <3>1, <3>2 DEF WireInv
  <2>3. CASE AskLaunch(m)
    BY <2>2, <2>3 DEF AskLaunch
  <2>4. CASE AskRelease(m)
    BY <2>2, <2>4 DEF AskRelease
  <2>5. CASE AskRestore(m)
    <3>1. state[m] # "unborn" /\ owner[m] = scope
      BY <2>5 DEF AskRestore, OwnInv, OwnMemories, ServerInv, Known
    <3> QED
      BY <2>2, <2>5, <3>1 DEF AskRestore
  <2> QED
    BY <1>8, <2>3, <2>4, <2>5
<1>9. ASSUME NEW q \in wire, Commit(q) PROVE WireInv'
  <2>1. q.memory \in Memory /\ q.scope \in 1..MaxScope /\ q \in Request /\ Sound(q)
    BY Asked DEF WireInv
  <2>2. UNCHANGED <<scope, page>>
    BY <1>9 DEF Commit, screen
  <2>3. /\ state'[q.memory] = To(q.kind) /\ owner'[q.memory] = q.scope
        /\ changes'[q.memory] = changes[q.memory] + 1 /\ changes[q.memory] \in Nat
        /\ \A o \in Memory \ {q.memory} :
              state'[o] = state[o] /\ owner'[o] = owner[o] /\ changes'[o] = changes[o]
    BY <1>9, Committed
  <2>4. ASSUME NEW p \in wire PROVE Sound(p)'
    <3>1. Sound(p) /\ p.memory \in Memory /\ p.nth \in Nat \cup {None}
      BY Asked DEF WireInv
    <3>2. CASE p.memory # q.memory
      BY <2>2, <2>3, <3>1, <3>2 DEF Sound
    <3>3. CASE p.memory = q.memory /\ q.kind = "launch"
      <4>1. state[p.memory] = "unborn" /\ changes[p.memory] = 0
        BY <1>9, <3>1, <3>3 DEF Commit, From, ServerInv, Known
      <4>2. p.nth = None /\ p.kind = "launch"
        BY <3>1, <4>1, UniverseMirrorAssumption DEF Sound
      <4> QED
        BY <2>2, <3>1, <4>2 DEF Sound
    <3>4. CASE p.memory = q.memory /\ q.kind # "launch"
      <4>1. owner[p.memory] = q.scope /\ To(q.kind) # "unborn"
        BY <2>1, <3>4 DEF Sound, To
      <4> QED
        BY <2>2, <2>3, <3>1, <3>4, <4>1 DEF Sound
    <3> QED
      BY <3>2, <3>3, <3>4
  <2>5. ASSUME NEW r, r = [q EXCEPT !.nth = changes[q.memory] + 1] PROVE Sound(r)'
    <3>1. /\ r.memory = q.memory /\ r.scope = q.scope /\ r.kind = q.kind /\ r.current = q.current
          /\ r.nth = changes[q.memory] + 1
      BY <2>1, <2>5 DEF Request
    <3>2. q.kind = "release" => changes[q.memory] # 0
      BY <1>9, <2>1 DEF Commit, From, ServerInv, Known
    <3>3. To(q.kind) # "unborn"
      BY DEF To
    <3> QED
      BY <2>1, <2>2, <2>3, <3>1, <3>2, <3>3 DEF Sound
  <2>6. wire' = (wire \ {q}) \cup {[q EXCEPT !.nth = changes[q.memory] + 1]}
    BY <1>9 DEF Commit
  <2> QED
    BY <2>4, <2>5, <2>6 DEF WireInv
<1>10. ASSUME NEW q \in wire, Refuse(q) PROVE WireInv'
  BY <1>3, <1>10 DEF Refuse, server, screen
<1>11. ASSUME NEW q \in wire, Miss(q) PROVE WireInv'
  <2>1. UNCHANGED <<state, owner, changes, scope, page>>
    BY <1>11 DEF Miss, server, screen
  <2> QED
    BY <1>1, <1>2, <1>11, <2>1 DEF Miss, Abandon, WireInv
<1>12. ASSUME NEW q \in wire, Take(q) PROVE WireInv'
  BY <1>3, <1>12 DEF Take, server, screen
<1>13. ASSUME NEW m \in Memory, OtherDevice(m) PROVE WireInv'
  <2>1. scope \in 1..MaxScope /\ UNCHANGED <<scope, page, wire>>
    BY <1>13 DEF OtherDevice, screen, TypeOK
  <2>2. /\ state'[m] = (IF state[m] = "live" THEN "released" ELSE "live") /\ owner'[m] = scope
        /\ changes'[m] = changes[m] + 1 /\ changes[m] \in Nat
        /\ \A o \in Memory \ {m} :
              state'[o] = state[o] /\ owner'[o] = owner[o] /\ changes'[o] = changes[o]
    BY <1>13, ChangedElsewhere
  <2>3. owner[m] = scope
    BY <1>13 DEF OtherDevice
  <2>4. ASSUME NEW q \in wire PROVE Sound(q)'
    <3>1. Sound(q) /\ q.memory \in Memory /\ q.nth \in Nat \cup {None}
      BY Asked DEF WireInv
    <3>2. CASE q.memory # m
      BY <2>1, <2>2, <3>1, <3>2 DEF Sound
    <3>3. CASE q.memory = m
      BY <2>1, <2>2, <2>3, <3>1, <3>3 DEF Sound
    <3> QED
      BY <3>2, <3>3
  <2> QED
    BY <2>1, <2>4 DEF WireInv
<1> QED
  BY <1>4, <1>5, <1>7, <1>8, <1>9, <1>10, <1>11, <1>12, <1>13 DEF Next

----------------------------------------------------------------------------
(* The client *)

LEMMA OwnKept ==
    ASSUME TypeOK, ServerInv, WireInv, OwnInv, Next
    PROVE  OwnInv'
<1> DEFINE Held(m) == shown[m] > 0 \/ m \in pending \/ groups[m] # None
           Twice(m) == groups[m] # None => changes[m] >= 2
           OwnCache == cache # None => Owned(cache.has)
           OwnFetch == fetch # None => (fetch.read # None => Owned(fetch.read.has))
<1>1. scope \in Nat \ {0}
  BY DEF TypeOK
<1>2. ASSUME NEW has \in SUBSET Memory, Owned(has), scope' = scope PROVE Owned(has)'
  BY <1>1, <1>2, OwnerStays DEF Owned
<1>3. ASSUME UNCHANGED <<scope, cache>> PROVE OwnCache'
  BY <1>2, <1>3 DEF OwnInv, TypeOK, Snapshot
<1>4. ASSUME scope' = scope, fetch' = fetch \/ (fetch' # None => fetch'.read = None)
                                \/ (fetch # None /\ fetch'.read = fetch.read)
      PROVE  OwnFetch'
  BY <1>2, <1>4 DEF OwnInv, TypeOK, Reading, Snapshot
<1>5. ASSUME UNCHANGED <<scope, stores>>, \A m \in Memory : changes'[m] >= changes[m]
      PROVE  OwnMemories' /\ \A m \in Memory : Twice(m)'
  <2>1. ASSUME NEW m \in Memory, Held(m) PROVE owner'[m] = scope
    BY <1>1, <2>1, OwnerStays DEF OwnInv, OwnMemories
  <2> QED
    <3>1. OwnMemories'
      BY <1>5, <2>1 DEF OwnMemories, stores
    <3>2. ASSUME NEW m \in Memory PROVE Twice(m)'
      <4>1. changes[m] \in Nat /\ changes'[m] \in Nat
        BY Typed DEF TypeOK
      <4> QED
        BY <1>5, <4>1 DEF OwnInv, stores
    <3> QED
      BY <3>1, <3>2
<1>6. ASSUME UNCHANGED <<scope, server, stores, cache>>,
             \/ fetch' = fetch
             \/ fetch' # None => fetch'.read = None
             \/ fetch # None /\ fetch'.read = fetch.read
      PROVE  OwnInv'
  <2>1. \A m \in Memory : changes'[m] >= changes[m]
    BY <1>6 DEF server, TypeOK
  <2> QED
    BY <1>3, <1>4, <1>5, <1>6, <2>1 DEF OwnInv
<1>7. CASE Read
  <2> DEFINE has == {m \in Memory : state[m] = "live" /\ owner[m] = scope}
  <2>1. fetch' # None => fetch'.read.has = has
    BY <1>7 DEF Read, TypeOK, Reading
  <2>2. OwnFetch' 
    BY <1>7, <2>1 DEF Read, Owned, server, screen
  <2>3. UNCHANGED <<scope, server, stores, cache>> /\ \A m \in Memory : changes'[m] >= changes[m]
    BY <1>7 DEF Read, server, screen, TypeOK
  <2> QED
    BY <1>3, <1>5, <2>2, <2>3 DEF OwnInv
<1>8. CASE Arrive
  <2>1. UNCHANGED <<scope, server, stores>> /\ \A m \in Memory : changes'[m] >= changes[m]
    BY <1>8 DEF Arrive, server, screen, TypeOK
  <2>2. OwnCache' /\ OwnFetch'
    <3>1. fetch.read.has \in SUBSET Memory /\ Owned(fetch.read.has)
      BY <1>8 DEF Arrive, TypeOK, Reading, Snapshot, OwnInv
    <3>2. cache'.has = fetch.read.has /\ fetch' = None
      BY <1>8 DEF Arrive
    <3> QED
      BY <1>2, <2>1, <3>1, <3>2 DEF Owned
  <2> QED
    BY <1>5, <2>1, <2>2 DEF OwnInv
<1>9. CASE FetchFails
  BY <1>6, <1>9 DEF FetchFails
<1>10. CASE Collect
  <2>1. UNCHANGED <<scope, server, stores, fetch>> /\ \A m \in Memory : changes'[m] >= changes[m]
    BY <1>10 DEF Collect, server, screen, TypeOK
  <2>2. cache' = None
    BY <1>10 DEF Collect
  <2> QED
    BY <1>4, <1>5, <2>1, <2>2 DEF OwnInv
<1>11. CASE Refocus
  BY <1>6, <1>11 DEF Refocus, screen, query
<1>12. CASE RevisionRead
  <2>1. fetch' = fetch \/ fetch'.read = None \/ (fetch # None /\ fetch'.read = fetch.read)
    BY <1>12, Refetched, SentIsRead DEF RevisionRead, TypeOK
  <2> QED
    BY <1>6, <1>12, <2>1 DEF RevisionRead, screen
<1>13. CASE Effect
  <2>1. UNCHANGED <<scope, server, cache, fetch>>
    BY <1>13 DEF Effect, screen, query
  <2>2. ASSUME NEW m \in Memory, Held(m)' PROVE owner[m] = scope
    <3>1. CASE cache = None
      BY <1>13, <2>2, <3>1 DEF Effect, clear, Empty, NoGroup
    <3>2. CASE cache # None
      <4>1. m \in cache.has \/ Held(m)
        BY <1>13, <2>2, <3>2 DEF Effect, reconcile
      <4> QED
        BY <3>2, <4>1 DEF OwnInv, OwnMemories, Owned
    <3> QED
      BY <3>1, <3>2
  <2>3. ASSUME NEW m \in Memory PROVE Twice(m)'
    <3>1. Twice(m) /\ changes' = changes /\ (groups' = groups \/ groups' = NoGroup)
      BY <1>13 DEF Effect, clear, reconcile, OwnInv, server
    <3> QED
      BY <3>1 DEF NoGroup
  <2> QED
    BY <1>3, <1>4, <2>1, <2>2, <2>3 DEF OwnInv, OwnMemories, server
<1>14. ASSUME NEW stale \in BOOLEAN, TryAgain(stale) \/ OpenUniverse(stale) PROVE OwnInv'
  BY <1>6, <1>14, SentIsRead DEF TryAgain, OpenUniverse, Mounted
<1>15. CASE OpenReader
  BY <1>6, <1>15 DEF OpenReader
<1>16. CASE ChangeAccount
  BY <1>16, SentIsRead DEF ChangeAccount, clear, Empty, NoGroup, OwnInv, OwnMemories
<1>17. ASSUME NEW m \in Memory, AskLaunch(m) \/ AskRelease(m) \/ AskRestore(m) PROVE OwnInv'
  BY <1>6, <1>17 DEF AskLaunch, AskRelease, AskRestore, Ask, screen, query
<1>18. ASSUME NEW q \in wire, Commit(q) PROVE OwnInv'
  <2>1. UNCHANGED <<scope, stores, cache, fetch>>
    BY <1>18 DEF Commit, screen, query
  <2>2. q.memory \in Memory /\ q.scope \in 1..MaxScope
    BY Asked
  <2>3. \A m \in Memory : changes'[m] >= changes[m]
    <3>1. ASSUME NEW m \in Memory PROVE changes'[m] = changes[m] \/ changes'[m] = changes[m] + 1
      <4>1. changes' = [changes EXCEPT ![q.memory] = @ + 1]
        BY <1>18 DEF Commit, Moves
      <4> QED
        BY <2>2, <4>1 DEF TypeOK
    <3>2. \A o \in Memory : changes[o] \in Nat
      BY DEF TypeOK
    <3> QED
      BY <3>1, <3>2
  <2> QED
    BY <1>3, <1>4, <1>5, <2>1, <2>3 DEF OwnInv
<1>19. ASSUME NEW q \in wire, Refuse(q) \/ Miss(q) PROVE OwnInv'
  BY <1>6, <1>19 DEF Refuse, Miss, screen, query
<1>20. ASSUME NEW q \in wire, Take(q) PROVE OwnInv'
  <2>1. UNCHANGED <<scope, server, cache>>
    BY <1>20 DEF Take, screen
  <2>2. CASE ~q.current
    BY <1>6, <1>20, <2>1, <2>2 DEF Take, isCurrent
  <2>3. CASE q.current
    <3>1. /\ q.memory \in Memory /\ owner[q.memory] = scope /\ q.nth \in Nat /\ q.nth <= changes[q.memory]
          /\ q.kind = "release" => q.nth >= 2
      BY <1>20, <2>3, Asked DEF Take, WireInv, Sound
    <3>2. Apply(q)
      BY <1>20, <2>3 DEF Take, isCurrent
    <3>3. OwnFetch'
      <4>1. fetch' = fetch \/ (fetch' # None => fetch'.read = None) \/ (fetch # None /\ fetch'.read = fetch.read)
        BY <3>2, Refetched, SentIsRead, Joined DEF Apply, Invalidate, TypeOK
      <4> QED
        BY <1>4, <2>1, <4>1
    <3>4. ASSUME NEW m \in Memory PROVE (Held(m)' => Held(m) \/ m = q.memory) /\ Twice(m)'
      <4>1. Twice(m) /\ UNCHANGED changes
        BY <2>1 DEF OwnInv, server
      <4>2. CASE q.kind = "launch" /\ insert(q.memory)
        BY <4>1, <4>2 DEF insert, TypeOK
      <4>3. CASE q.kind = "release" /\ applyReleaseResult(q.memory)
        BY <3>1, <4>1, <4>3 DEF applyReleaseResult, TypeOK
      <4>4. CASE q.kind = "restore" /\ applyRestoreResult(q.memory)
        BY <4>1, <4>4 DEF applyRestoreResult, TypeOK
      <4> QED
        BY <3>2, <4>2, <4>3, <4>4 DEF Apply
    <3> QED
      BY <1>3, <2>1, <3>1, <3>3, <3>4 DEF OwnInv, OwnMemories, server
  <2> QED
    BY <2>2, <2>3, Asked
<1>21. ASSUME NEW m \in Memory, OtherDevice(m) PROVE OwnInv'
  <2>1. UNCHANGED <<scope, stores, cache, fetch>> /\ scope \in 1..MaxScope
    BY <1>21 DEF OtherDevice, screen, query, TypeOK
  <2>2. \A o \in Memory : changes'[o] >= changes[o]
    <3>1. ASSUME NEW o \in Memory PROVE changes'[o] = changes[o] \/ changes'[o] = changes[o] + 1
      <4>1. changes' = [changes EXCEPT ![m] = @ + 1]
        BY <1>21 DEF OtherDevice, Moves
      <4> QED
        BY <2>1, <4>1 DEF TypeOK
    <3>2. \A o \in Memory : changes[o] \in Nat
      BY DEF TypeOK
    <3> QED
      BY <3>1, <3>2
  <2> QED
    BY <1>3, <1>4, <1>5, <2>1, <2>2 DEF OwnInv
<1> QED
  BY <1>7, <1>8, <1>9, <1>10, <1>11, <1>12, <1>13, <1>14, <1>15, <1>16, <1>17, <1>18, <1>19, <1>20,
     <1>21 DEF Next

LEMMA PageKept ==
    ASSUME TypeOK, PageInv, Next
    PROVE  PageInv'
<1>1. ASSUME UNCHANGED <<page, canvas, invalid, cache, fetch>> PROVE PageInv'
  BY <1>1 DEF PageInv
<1>2. CASE Read
  <2>1. fetch' # None
    BY <1>2, ReadAnswered
  <2> QED
    BY <1>2, <2>1 DEF Read, PageInv, screen
<1>3. CASE Arrive
  BY <1>3 DEF Arrive, PageInv, screen
<1>4. CASE FetchFails \/ OpenReader
  BY <1>4 DEF FetchFails, OpenReader, PageInv
<1>5. CASE Collect
  BY <1>5 DEF Collect, PageInv, screen
<1>6. CASE Refocus \/ Effect
  BY <1>1, <1>6 DEF Refocus, Effect, screen, query
<1>7. CASE RevisionRead
  BY <1>7, Refetched DEF RevisionRead, PageInv, screen, TypeOK
<1>8. ASSUME NEW stale \in BOOLEAN, TryAgain(stale) \/ OpenUniverse(stale) PROVE PageInv'
  BY <1>8, SentIsRead DEF TryAgain, OpenUniverse, Mounted, PageInv
<1>9. CASE ChangeAccount
  BY <1>9, SentIsRead DEF ChangeAccount, PageInv
<1>10. ASSUME NEW m \in Memory, AskLaunch(m) \/ AskRelease(m) \/ AskRestore(m) \/ OtherDevice(m)
       PROVE  PageInv'
  BY <1>1, <1>10 DEF AskLaunch, AskRelease, AskRestore, Ask, OtherDevice, screen, query
<1>11. ASSUME NEW q \in wire, Commit(q) \/ Refuse(q) \/ Miss(q) PROVE PageInv'
  BY <1>1, <1>11 DEF Commit, Refuse, Miss, screen, query
<1>12. ASSUME NEW q \in wire, Take(q) PROVE PageInv'
  <2>1. UNCHANGED <<page, canvas, cache>>
    BY <1>12 DEF Take, screen
  <2>2. CASE Invalidate
    BY <2>1, <2>2, Refetched DEF Invalidate, PageInv, TypeOK
  <2>3. CASE UNCHANGED <<invalid, fetch>>
    BY <1>1, <2>1, <2>3
  <2> QED
    BY <1>12, <2>2, <2>3 DEF Take, Apply
<1> QED
  BY <1>2, <1>3, <1>4, <1>5, <1>6, <1>7, <1>8, <1>9, <1>10, <1>11, <1>12 DEF Next

\* What Invalidate does to the read in flight.
LEMMA Invalidated ==
    ASSUME TypeOK, Invalidate
    PROVE  invalid' = TRUE /\ (fetch' # None => fetch'.read = None \/ fetch'.joined = TRUE)
                           /\ (fetch' # None => fetch'.read = None
                                                  \/ (fetch # None /\ fetch'.read = fetch.read))
BY Refetched, SentIsRead, Joined DEF Invalidate, TypeOK

LEMMA WorkKept ==
    ASSUME TypeOK, ServerInv, WireInv, OwnInv, PageInv, WorkInv, Next
    PROVE  WorkInv'
<1> DEFINE Fine(m) == ReadRight(m) /\ DataRight(m) /\ Drawn(m) /\ NotOwed(m)
<1>1. ASSUME NEW m \in Memory, state'[m] = state[m], owner'[m] = owner[m], changes'[m] = changes[m],
             taken'[m] = taken[m], Mine(m)', scope' = scope
      PROVE  Mine(m) /\ Fine(m)
  BY <1>1 DEF Mine, WorkInv
<1>2. scope \in Nat \ {0}
  BY DEF TypeOK
<1>3. CASE Read
  <2> DEFINE has == {m \in Memory : state[m] = "live" /\ owner[m] = scope}
  <2>1. fetch' # None => fetch'.read.has = has
    BY <1>3 DEF Read, TypeOK, Reading
  <2>2. UNCHANGED <<state, owner, changes, taken, scope, canvas, due, cache, invalid, swallowed, shown, pending>>
    BY <1>3 DEF Read, server, screen, stores
  <2>3. ASSUME NEW m \in Memory, Mine(m)' PROVE Fine(m)'
    <3>1. Mine(m) /\ Fine(m)
      BY <1>1, <2>2, <2>3
    <3>2. ReadRight(m)'
      BY <2>1, <2>2, <3>1 DEF ReadRight, Right, Mine
    <3> QED
      BY <2>2, <3>1, <3>2 DEF DataRight, Drawn, NotOwed, Right
  <2> QED
    BY <2>3 DEF WorkInv
<1>4. CASE Arrive
  <2>1. UNCHANGED <<state, owner, changes, taken, scope, canvas, shown, pending>>
    BY <1>4 DEF Arrive, server, screen, stores
  <2>2. /\ fetch # None /\ fetch.read # None /\ cache' = fetch.read /\ invalid' = FALSE
        /\ swallowed' = fetch.joined /\ fetch' = None
        /\ due' = (due \/ (canvas /\ cache # fetch.read))
    BY <1>4 DEF Arrive
  <2>3. ASSUME NEW m \in Memory, Mine(m)' PROVE Fine(m)'
    <3>1. Mine(m) /\ Fine(m)
      BY <1>1, <2>1, <2>3
    <3>2. ReadRight(m)' /\ DataRight(m)'
      BY <2>1, <2>2, <3>1 DEF ReadRight, DataRight, Right
    <3>3. Drawn(m)'
      BY <2>1, <2>2, <3>1 DEF Drawn, Right
    <3> QED
      BY <2>1, <3>1, <3>2, <3>3 DEF NotOwed
  <2> QED
    BY <2>3 DEF WorkInv
<1>5. ASSUME UNCHANGED <<state, owner, changes, taken, scope, shown, pending, cache, swallowed>>,
             invalid' = invalid \/ invalid' = TRUE,
             canvas' = FALSE \/ due' = TRUE \/ UNCHANGED <<canvas, due>>,
             fetch' = fetch \/ (fetch' # None => fetch'.read = None \/ fetch'.joined = TRUE)
      PROVE  WorkInv'
  <2>1. ASSUME NEW m \in Memory, Mine(m)' PROVE Fine(m)'
    <3>1. Mine(m) /\ Fine(m)
      BY <1>1, <1>5, <2>1
    <3>2. ReadRight(m)'
      BY <1>5, <3>1 DEF ReadRight, Right
    <3>3. DataRight(m)'
      BY <1>5, <3>1 DEF DataRight, Right
    <3>4. Drawn(m)'
      BY <1>5, <3>1 DEF Drawn, Right
    <3>5. NotOwed(m)'
      BY <1>5, <3>1 DEF NotOwed
    <3> QED
      BY <3>2, <3>3, <3>4, <3>5
  <2> QED
    BY <2>1 DEF WorkInv
<1>6. CASE FetchFails \/ Refocus \/ OpenReader
  BY <1>5, <1>6 DEF FetchFails, Refocus, OpenReader, server, screen, query, stores
<1>7. CASE Collect
  <2>1. UNCHANGED <<state, owner, changes, taken, scope, fetch, shown, pending>> /\ cache' = None
    BY <1>7 DEF Collect, server, screen, stores
  <2>2. ASSUME NEW m \in Memory, Mine(m)' PROVE Fine(m)'
    <3>1. Mine(m) /\ Fine(m)
      BY <1>1, <2>1, <2>2
    <3> QED
      BY <2>1, <3>1 DEF ReadRight, DataRight, Drawn, NotOwed, Right
  <2> QED
    BY <2>2 DEF WorkInv
<1>8. CASE RevisionRead
  <2>1. fetch' = fetch \/ fetch'.read = None \/ fetch'.joined = TRUE
    BY <1>8, Refetched, SentIsRead DEF RevisionRead, TypeOK
  <2> QED
    BY <1>5, <1>8, <2>1 DEF RevisionRead, server, screen, stores
<1>9. CASE Effect
  <2>1. UNCHANGED <<state, owner, changes, taken, scope, canvas, cache, invalid, fetch, swallowed>>
    BY <1>9 DEF Effect, server, screen, query
  <2>2. ASSUME NEW m \in Memory, Mine(m)' PROVE Fine(m)'
    <3>1. Mine(m) /\ Fine(m)
      BY <1>1, <2>1, <2>2
    <3>2. ReadRight(m)' /\ DataRight(m)'
      BY <2>1, <3>1 DEF ReadRight, DataRight, Right
    <3>3. CASE cache = None
      BY <1>9, <2>1, <3>2, <3>3 DEF Effect, clear, Drawn, NotOwed
    <3>4. CASE cache # None
      <4>1. /\ pending' = {o \in pending \ cache.has : shown[o] > 0}
            /\ shown'[m] = IF m \in cache.has \cup pending' THEN 1 ELSE 0
        BY <1>9, <3>4 DEF Effect, reconcile
      <4>2. state[m] = "live" \/ state[m] = "released"
        BY <1>2, <3>1 DEF Mine, ServerInv, Known, TypeOK
      <4>3. state[m] = "released" => m \notin pending'
        BY <3>1, <4>1 DEF NotOwed, TypeOK
      <4>4. Drawn(m)'
        BY <2>1, <4>1, <4>2, <4>3 DEF Drawn, Right
      <4> QED
        BY <2>1, <3>2, <4>3, <4>4 DEF NotOwed
    <3> QED
      BY <3>3, <3>4
  <2> QED
    BY <2>2 DEF WorkInv
<1>10. ASSUME NEW stale \in BOOLEAN, TryAgain(stale) \/ OpenUniverse(stale) PROVE WorkInv'
  <2>1. UNCHANGED <<state, owner, changes, taken, scope, shown, pending, cache, swallowed, invalid>>
    BY <1>10 DEF TryAgain, OpenUniverse, server, stores
  <2>2. due' = TRUE /\ (fetch' = fetch \/ fetch'.read = None)
    BY <1>10, SentIsRead DEF TryAgain, OpenUniverse, Mounted
  <2> QED
    BY <1>5, <2>1, <2>2
<1>11. CASE ChangeAccount
  <2>1. ASSUME NEW m \in Memory PROVE ~Mine(m)'
    <3>1. owner[m] = 0 \/ owner[m] \in 1..scope
      BY DEF ServerInv, Known
    <3> QED
      BY <1>2, <1>11, <3>1 DEF ChangeAccount, server, Mine
  <2> QED
    BY <2>1 DEF WorkInv
<1>12. ASSUME NEW m \in Memory, AskLaunch(m) \/ AskRelease(m) \/ AskRestore(m) PROVE WorkInv'
  BY <1>5, <1>12 DEF AskLaunch, AskRelease, AskRestore, Ask, server, screen, query, stores
<1>13. ASSUME UNCHANGED <<taken, scope, shown, pending, cache, swallowed, invalid, fetch, canvas, due>>,
              NEW o \in Memory, changes'[o] = changes[o] + 1,
              \A m \in Memory \ {o} :
                 state'[m] = state[m] /\ owner'[m] = owner[m] /\ changes'[m] = changes[m]
       PROVE  WorkInv'
  <2>1. ~Mine(o)'
    BY <1>13 DEF Mine, ServerInv, Known, TypeOK
  <2>2. ASSUME NEW m \in Memory, m # o, Mine(m)' PROVE Fine(m)'
    <3>1. state'[m] = state[m] /\ Fine(m)
      BY <1>1, <1>13, <2>2
    <3> QED
      BY <1>13, <3>1 DEF ReadRight, DataRight, Drawn, NotOwed, Right
  <2> QED
    BY <2>1, <2>2 DEF WorkInv
<1>14. ASSUME NEW q \in wire, Commit(q) PROVE WorkInv'
  <2>1. q.memory \in Memory /\ q.scope \in 1..MaxScope
    BY Asked
  <2> QED
    BY <1>13, <1>14, <2>1, Moved DEF Commit, screen, query, stores
<1>15. ASSUME NEW q \in wire, Refuse(q) \/ Miss(q) PROVE WorkInv'
  BY <1>5, <1>15 DEF Refuse, Miss, server, screen, query, stores
<1>16. ASSUME NEW q \in wire, Take(q) PROVE WorkInv'
  <2>1. UNCHANGED <<state, owner, changes, scope, page, canvas, due, cache, swallowed>>
    BY <1>16 DEF Take, server, screen
  <2>2. CASE ~q.current
    BY <1>5, <1>16, <2>1, <2>2 DEF Take, isCurrent, stores
  <2>3. CASE q.current
    <3>1. Sound(q) /\ q.memory \in Memory /\ q.nth \in Nat /\ q.nth # None
      BY <1>16, Asked DEF Take, WireInv
    <3>2. Apply(q)
      BY <1>16, <2>3 DEF Take, isCurrent
    <3>3. invalid' = TRUE /\ (fetch' # None => fetch'.read = None \/ fetch'.joined = TRUE)
      BY <3>2, Invalidated DEF Apply
    <3>4. ASSUME NEW m \in Memory, Mine(m)' PROVE Fine(m)'
      <4>1. ReadRight(m)' /\ DataRight(m)'
        BY <3>3 DEF ReadRight, DataRight
      <4>2. CASE m # q.memory
        <5>1. taken'[m] = taken[m] /\ shown'[m] = shown[m] /\ (m \in pending' <=> m \in pending)
          BY <3>1, <3>2, <4>2 DEF Apply, insert, applyReleaseResult, applyRestoreResult, TypeOK
        <5>2. Fine(m)
          BY <1>1, <2>1, <3>4, <5>1
        <5> QED
          BY <2>1, <4>1, <5>1, <5>2 DEF Drawn, NotOwed, Right
      <4>3. CASE m = q.memory
        <5>1. state[m] = To(q.kind)
          <6>1. taken'[m] = q.nth
            BY <3>1, <3>2, <4>3 DEF Apply, TypeOK
          <6> QED
            BY <2>1, <3>1, <3>4, <4>3, <6>1 DEF Mine, Sound
        <5>2. CASE q.kind = "launch" /\ insert(m)
          BY <2>1, <4>1, <5>1, <5>2 DEF insert, To, Drawn, NotOwed, TypeOK
        <5>3. CASE q.kind = "release" /\ applyReleaseResult(m)
          BY <2>1, <4>1, <5>1, <5>3 DEF applyReleaseResult, To, Drawn, NotOwed, TypeOK
        <5>4. CASE q.kind = "restore" /\ applyRestoreResult(m)
          <6>1. canvas = FALSE
            BY <2>3, <3>1, <5>4 DEF Sound, PageInv, TypeOK
          <6> QED
            BY <2>1, <4>1, <5>1, <5>4, <6>1 DEF To, Drawn, NotOwed
        <5> QED
          BY <3>2, <4>3, <5>2, <5>3, <5>4 DEF Apply
      <4> QED
        BY <4>2, <4>3
    <3> QED
      BY <3>4 DEF WorkInv
  <2> QED
    BY <2>2, <2>3, Asked
<1>17. ASSUME NEW m \in Memory, OtherDevice(m) PROVE WorkInv'
  <2>1. scope \in 1..MaxScope
    BY DEF TypeOK
  <2> QED
    BY <1>13, <1>17, <2>1, Moved DEF OtherDevice, screen, query, stores
<1> QED
  BY <1>3, <1>4, <1>6, <1>7, <1>8, <1>9, <1>10, <1>11, <1>12, <1>14, <1>15, <1>16, <1>17 DEF Next

LEMMA StarKept ==
    ASSUME TypeOK, ServerInv, WireInv, OwnInv, StarInv, Next
    PROVE  StarInv'
<1>1. scope \in Nat \ {0}
  BY DEF TypeOK
<1>2. ASSUME UNCHANGED <<changes, shown, pending, cache>>,
             fetch' = fetch \/ (fetch' # None => fetch'.read = None
                                                   \/ (fetch # None /\ fetch'.read = fetch.read))
      PROVE  StarInv'
  <2>1. ASSUME NEW m \in Memory, changes'[m] = 1 PROVE InData(m)' /\ InRead(m)'
    <3>1. InData(m) /\ InRead(m)
      BY <1>2, <2>1 DEF StarInv
    <3> QED
      BY <1>2, <3>1 DEF InData, InRead
  <2> QED
    BY <2>1 DEF StarInv
<1>3. ASSUME NEW m \in Memory, shown[m] > 0 \/ m \in pending \/ (cache # None /\ m \in cache.has), changes[m] = 1
      PROVE  owner[m] = scope /\ state[m] = "live"
  BY <1>3 DEF OwnInv, OwnMemories, Owned, ServerInv, Known
<1>4. CASE Read
  <2> DEFINE has == {m \in Memory : state[m] = "live" /\ owner[m] = scope}
  <2>1. fetch' # None => fetch'.read.has = has
    BY <1>4 DEF Read, TypeOK, Reading
  <2>2. UNCHANGED <<changes, shown, pending, cache>>
    BY <1>4 DEF Read, server, stores
  <2>3. ASSUME NEW m \in Memory, changes'[m] = 1 PROVE InData(m)' /\ InRead(m)'
    <3>1. InData(m) /\ changes[m] = 1
      BY <2>2, <2>3 DEF StarInv
    <3>2. shown[m] > 0 \/ (cache # None /\ m \in cache.has) => m \in has
      BY <1>3, <3>1
    <3> QED
      BY <2>1, <2>2, <3>1, <3>2 DEF InData, InRead
  <2> QED
    BY <2>3 DEF StarInv
<1>5. CASE Arrive
  <2>1. UNCHANGED <<changes, shown, pending>> /\ cache' = fetch.read /\ fetch' = None
        /\ fetch # None /\ fetch.read # None
    BY <1>5 DEF Arrive, server, stores
  <2> QED
    BY <2>1 DEF StarInv, InData, InRead
<1>6. CASE FetchFails \/ OpenReader \/ Refocus
  BY <1>2, <1>6 DEF FetchFails, OpenReader, Refocus, server, query, stores
<1>7. CASE Collect
  <2>1. UNCHANGED <<changes, shown, pending>> /\ cache' = None /\ fetch' = None
    BY <1>7 DEF Collect, server, stores
  <2> QED
    BY <2>1 DEF StarInv, InData, InRead
<1>8. CASE RevisionRead
  <2>1. fetch' = fetch \/ fetch'.read = None \/ (fetch # None /\ fetch'.read = fetch.read)
    BY <1>8, Refetched, SentIsRead DEF RevisionRead, TypeOK
  <2> QED
    BY <1>2, <1>8, <2>1 DEF RevisionRead, server, stores
<1>9. CASE Effect
  <2>1. UNCHANGED <<changes, cache, fetch>>
    BY <1>9 DEF Effect, server, query
  <2>2. ASSUME NEW m \in Memory, changes'[m] = 1 PROVE InData(m)' /\ InRead(m)'
    <3>1. InRead(m)
      BY <2>1, <2>2 DEF StarInv
    <3>2. CASE cache = None
      BY <1>9, <2>1, <3>2 DEF Effect, clear, Empty, InData, InRead
    <3>3. CASE cache # None
      <4>1. shown'[m] > 0 /\ m \notin pending' => m \in cache.has
        BY <1>9, <3>3 DEF Effect, reconcile
      <4> QED
        BY <2>1, <3>1, <3>3, <4>1 DEF InData, InRead
    <3> QED
      BY <3>2, <3>3
  <2> QED
    BY <2>2 DEF StarInv
<1>10. ASSUME NEW stale \in BOOLEAN, TryAgain(stale) \/ OpenUniverse(stale) PROVE StarInv'
  BY <1>2, <1>10, SentIsRead DEF TryAgain, OpenUniverse, Mounted, server, stores
<1>11. CASE ChangeAccount
  BY <1>11, SentIsRead DEF ChangeAccount, clear, Empty, StarInv, InData, InRead
<1>12. ASSUME NEW m \in Memory, AskLaunch(m) \/ AskRelease(m) \/ AskRestore(m) PROVE StarInv'
  BY <1>2, <1>12 DEF AskLaunch, AskRelease, AskRestore, Ask, server, query, stores
<1>13. ASSUME UNCHANGED <<shown, pending, cache, fetch>>, NEW o \in Memory, changes'[o] = changes[o] + 1,
              owner[o] = scope => changes[o] # 0,
              \A m \in Memory \ {o} : changes'[m] = changes[m]
       PROVE  StarInv'
  <2>1. ASSUME NEW m \in Memory, m # o, changes'[m] = 1 PROVE InData(m)' /\ InRead(m)'
    <3>1. InData(m) /\ InRead(m)
      BY <1>13, <2>1 DEF StarInv
    <3> QED
      BY <1>13, <3>1 DEF InData, InRead
  <2>2. ASSUME changes'[o] = 1 PROVE InData(o)' /\ InRead(o)'
    <3>1. owner[o] # scope
      BY <1>13, <2>2 DEF TypeOK
    <3>2. ~(shown[o] > 0) /\ ~(cache # None /\ o \in cache.has)
      BY <3>1 DEF OwnInv, OwnMemories, Owned
    <3> QED
      BY <1>13, <3>2 DEF InData, InRead
  <2> QED
    BY <2>1, <2>2 DEF StarInv
<1>14. \A m \in Memory : owner[m] = scope => changes[m] # 0
  BY <1>1 DEF ServerInv, Known
<1>15. ASSUME NEW q \in wire, Commit(q) PROVE StarInv'
  <2>1. q.memory \in Memory /\ q.scope \in 1..MaxScope
    BY Asked
  <2> QED
    BY <1>13, <1>14, <1>15, <2>1, Moved DEF Commit, query, stores
<1>16. ASSUME NEW q \in wire, Refuse(q) \/ Miss(q) PROVE StarInv'
  BY <1>2, <1>16 DEF Refuse, Miss, server, query, stores
<1>17. ASSUME NEW q \in wire, Take(q) PROVE StarInv'
  <2>1. UNCHANGED <<changes, cache>>
    BY <1>17 DEF Take, server
  <2>2. CASE ~q.current
    BY <1>2, <1>17, <2>1, <2>2 DEF Take, isCurrent, stores
  <2>3. CASE q.current
    <3>1. Sound(q) /\ q.memory \in Memory /\ q.nth \in Nat /\ q.nth # None
      BY <1>17, Asked DEF Take, WireInv
    <3>2. Apply(q)
      BY <1>17, <2>3 DEF Take, isCurrent
    <3>3. fetch' # None => fetch'.read = None \/ (fetch # None /\ fetch'.read = fetch.read)
      BY <3>2, Invalidated DEF Apply
    <3>4. ASSUME NEW m \in Memory, changes'[m] = 1 PROVE InData(m)' /\ InRead(m)'
      <4>1. InData(m) /\ InRead(m) /\ changes[m] = 1
        BY <2>1, <3>4 DEF StarInv
      <4>2. shown'[m] > 0 /\ m \notin pending' => shown[m] > 0 /\ m \notin pending
        <5>1. CASE q.kind = "launch" /\ insert(q.memory)
          BY <3>1, <5>1 DEF insert, TypeOK
        <5>2. CASE q.kind = "release" /\ applyReleaseResult(q.memory)
          BY <3>1, <5>2 DEF applyReleaseResult, TypeOK
        <5>3. CASE q.kind = "restore" /\ applyRestoreResult(q.memory)
          <6>1. groups[m] = None
            BY <4>1 DEF OwnInv, TypeOK
          <6> QED
            BY <3>1, <5>3, <6>1 DEF applyRestoreResult, TypeOK
        <5> QED
          BY <3>2, <5>1, <5>2, <5>3 DEF Apply
      <4> QED
        BY <2>1, <3>3, <4>1, <4>2 DEF InData, InRead
    <3> QED
      BY <3>4 DEF StarInv
  <2> QED
    BY <2>2, <2>3, Asked
<1>18. ASSUME NEW m \in Memory, OtherDevice(m) PROVE StarInv'
  <2>1. scope \in 1..MaxScope
    BY DEF TypeOK
  <2> QED
    BY <1>13, <1>14, <1>18, <2>1, Moved DEF OtherDevice, query, stores
<1> QED
  BY <1>4, <1>5, <1>6, <1>7, <1>8, <1>9, <1>10, <1>11, <1>12, <1>15, <1>16, <1>17, <1>18 DEF Next

----------------------------------------------------------------------------
(* The theorems *)

LEMMA InitHolds == Init => IInv
<1> SUFFICES ASSUME Init PROVE IInv
  OBVIOUS
<1>1. ServerInv
  BY DEF Init, Empty, ServerInv, Known
<1>2. WireInv /\ PageInv
  BY SentIsRead DEF Init, WireInv, PageInv
<1>3. OwnInv
  BY SentIsRead DEF Init, OwnInv, OwnMemories, Empty, NoGroup
<1>4. WorkInv
  BY SentIsRead DEF Init, Empty, WorkInv, Mine
<1>5. StarInv
  BY DEF Init, Empty, StarInv
<1> QED
  BY <1>1, <1>2, <1>3, <1>4, <1>5, InitTyped DEF IInv

LEMMA Inductive == IInv /\ [Next]_vars => IInv'
<1> SUFFICES ASSUME IInv, [Next]_vars PROVE IInv'
  OBVIOUS
<1>1. CASE Next
  BY <1>1, Typed, ServerKept, WireKept, OwnKept, PageKept, WorkKept, StarKept DEF IInv
<1>2. CASE UNCHANGED vars
  <2>1. UNCHANGED <<state, owner, rev, changes, others, scope, page, canvas, due, cache, invalid, fetch,
                    swallowed, checking, shown, pending, groups, wire, asks, taken>>
    BY <1>2 DEF vars, server, screen, query, stores
  <2>2. TypeOK' /\ ServerInv' /\ PageInv'
    BY <2>1 DEF IInv, TypeOK, ServerInv, Known, PageInv
  <2>3. WireInv'
    BY <2>1 DEF IInv, WireInv, Sound
  <2>4. OwnInv'
    BY <2>1 DEF IInv, OwnInv, OwnMemories, Owned
  <2>5. WorkInv'
    BY <2>1 DEF IInv, WorkInv, Mine, ReadRight, DataRight, Drawn, NotOwed, Right
  <2>6. StarInv'
    BY <2>1 DEF IInv, StarInv, InData, InRead
  <2> QED
    BY <2>2, <2>3, <2>4, <2>5, <2>6 DEF IInv
<1> QED
  BY <1>1, <1>2

LEMMA Invariant == Spec => []IInv
BY InitHolds, Inductive, PTL DEF Spec

\* The typing of the mirror, for every client and service the constants describe.
THEOREM TypeCorrect == Spec => []TypeOK
<1>1. IInv => TypeOK
  BY DEF IInv
<1> QED
  BY <1>1, Invariant, PTL

\* The stores hold the memories of the account signed in and no others: an answer owed to the
\* account before is dropped by its completion scope.
THEOREM OwnOnly == Spec => []OwnMemories
<1>1. IInv => OwnMemories
  BY DEF IInv, OwnInv
<1> QED
  BY <1>1, Invariant, PTL

\* A release, a restore or a launch the client was answered is what its canvas shows at rest.
THEOREM WorkStands == Spec => []OwnWorkStands
<1>1. IInv => OwnWorkStands
  <2> SUFFICES ASSUME IInv, AtRest, ~swallowed, NEW m \in Memory, Mine(m)
               PROVE  shown[m] > 0 <=> state[m] = "live"
    BY DEF OwnWorkStands, Mine
  <2>1. cache # None /\ ~invalid
    BY DEF IInv, PageInv, AtRest
  <2>2. DataRight(m) /\ Drawn(m)
    BY DEF IInv, WorkInv
  <2> QED
    BY <2>1, <2>2 DEF AtRest, DataRight, Drawn
<1> QED
  BY <1>1, Invariant, PTL

\* No snapshot, however late it was read or however early, takes a star out of the sky that
\* was never released.
THEOREM Stays == Spec => StarStays
<1> DEFINE Kept == \A m \in Memory :
              shown[m] > 0 /\ shown'[m] = 0 => scope' # scope \/ cache = None \/ changes[m] > 1
<1>1. IInv /\ Next => Kept
  <2> SUFFICES ASSUME IInv, Next, NEW m \in Memory, shown[m] > 0, shown'[m] = 0,
                      scope' = scope, cache # None
               PROVE  changes[m] > 1
    OBVIOUS
  <2>1. /\ TypeOK /\ OwnInv /\ StarInv /\ WireInv /\ ServerInv
    BY DEF IInv
  <2>2. changes[m] \in Nat \ {0} /\ shown[m] \in Nat
    BY <2>1 DEF TypeOK, OwnInv, OwnMemories, ServerInv, Known
  <2>3. CASE Effect
    BY <2>1, <2>2, <2>3 DEF Effect, reconcile, StarInv, InData
  <2>4. ASSUME NEW q \in wire, Take(q) PROVE changes[m] > 1
    <3>1. Sound(q) /\ q.memory \in Memory /\ q.nth \in Nat /\ q.nth # None
      BY <2>1, <2>4, Asked DEF Take, WireInv
    <3>2. CASE UNCHANGED shown
      BY <2>2, <3>2
    <3>3. CASE Apply(q)
      <4>1. CASE q.kind = "launch" /\ insert(q.memory)
        BY <2>1, <2>2, <3>1, <4>1 DEF insert, TypeOK
      <4>2. CASE q.kind = "release" /\ applyReleaseResult(q.memory)
        BY <2>1, <2>2, <3>1, <4>2 DEF applyReleaseResult, Sound, TypeOK
      <4>3. CASE q.kind = "restore" /\ applyRestoreResult(q.memory)
        BY <2>1, <2>2, <3>1, <4>3 DEF applyRestoreResult, TypeOK
      <4> QED
        BY <3>3, <4>1, <4>2, <4>3 DEF Apply
    <3> QED
      BY <2>4, <3>2, <3>3 DEF Take, stores
  <2>5. CASE ChangeAccount
    BY <2>1, <2>5 DEF ChangeAccount, TypeOK
  <2>6. CASE UNCHANGED shown
    BY <2>2, <2>6
  <2>7. CASE Read \/ Arrive \/ FetchFails \/ Collect \/ Refocus \/ RevisionRead \/ OpenReader
    BY <2>6, <2>7 DEF Read, Arrive, FetchFails, Collect, Refocus, RevisionRead, OpenReader, stores
  <2>8. ASSUME NEW stale \in BOOLEAN, TryAgain(stale) \/ OpenUniverse(stale) PROVE changes[m] > 1
    BY <2>6, <2>8 DEF TryAgain, OpenUniverse, stores
  <2>9. ASSUME NEW o \in Memory, AskLaunch(o) \/ AskRelease(o) \/ AskRestore(o) \/ OtherDevice(o)
        PROVE  changes[m] > 1
    BY <2>6, <2>9 DEF AskLaunch, AskRelease, AskRestore, Ask, OtherDevice, stores
  <2>10. ASSUME NEW q \in wire, Commit(q) \/ Refuse(q) \/ Miss(q) PROVE changes[m] > 1
    BY <2>6, <2>10 DEF Commit, Refuse, Miss, stores
  <2> QED
    BY <2>3, <2>4, <2>5, <2>7, <2>8, <2>9, <2>10 DEF Next
<1>2. IInv /\ UNCHANGED vars => Kept
  BY DEF vars, stores, IInv, TypeOK
<1> QED
  BY <1>1, <1>2, Invariant, PTL DEF Spec, StarStays

-----------------------------------------------------------------------------
(* The session: what a sign-out closes stays closed, and a result that comes *)
(* too late does nothing.                                                    *)

\* The epoch counts the turns since a call began, whatever was rolled back.
Counts(c, t, e) ==
    /\ c.turn <= t
    /\ IsFiniteSet(c.later) /\ \A x \in c.later : x <= t
    /\ c.epoch + Cardinality(c.later) = e

\* A call knows every call that began after it.
Ordered(S) ==
    \A c, d \in S :
        /\ c.turn = d.turn => c = d
        /\ c.turn < d.turn => d.turn \in c.later

EpochInv == Ordered(calls) /\ \A c \in calls : Counts(c, turn, epoch)

\* What a sign-out puts back: closed without an identity, and forced when the session
\* it would be put back into is.
ClosedPoint(p) ==
    p.access # "open" => p.userId = NoUser /\ p.status \in {"signedOut", "signingIn", "failed"}

FirstAfter(d, c) == d.turn \in c.later /\ \A t \in c.later : d.turn <= t

BackInv ==
    \A c \in calls : c.op = "signOut" =>
        /\ c.epoch > 0
        /\ ClosedPoint(c.back)
        /\ c.later = {} /\ access = "forced" => c.back.access = "forced"
        /\ \A d \in calls :
              d.op = "signOut" /\ FirstAfter(d, c) /\ d.back.access = "forced" =>
                  c.back.access = "forced"

AuthInv == AuthTypeOK /\ EpochInv /\ BackInv /\ ClosedPoint(Here)

----------------------------------------------------------------------------
(* The machine alone *)

MachineOK ==
    /\ status \in Status /\ userId \in User \cup {NoUser}
    /\ access \in Access /\ attempt \in Attempt

\* What the machine can be told, but for a success, a forced sign-out and what a failed
\* sign-out puts back; a report of the adapter by its guard.
Plain ==
    \/ \E x \in BOOLEAN : SIGN_IN_START(x)
    \/ \E u \in User : REFRESH_SUCCESS(u)
    \/ SIGN_IN_FAILURE
    \/ SIGN_IN_LEFT_APP
    \/ \E u \in User : access # "forced" /\ AUTHENTICATED(u)
    \/ SIGN_OUT(FALSE)
    \/ EXPIRED
    \/ REFRESH_START
    \/ REFRESH_FAILURE
    \/ \E u \in User \cup {NoUser} : BOOTSTRAP_DONE(u)
    \/ BOOTSTRAP_FAILURE
    \/ UNCHANGED machine

Succeeds == \E u \in User : SIGN_IN_SUCCESS(u)

\* Every event keeps the regions typed, and a closed session without an identity.
LEMMA MachineStep ==
    ASSUME MachineOK, ClosedPoint(Here), Plain \/ Succeeds \/ SIGN_OUT(TRUE)
    PROVE  MachineOK' /\ ClosedPoint(Here')
<1> USE DEF MachineOK, ClosedPoint, Here, Enter, Stay, Status, Access, Attempt
<1>1. ASSUME NEW x \in BOOLEAN, SIGN_IN_START(x) PROVE MachineOK' /\ ClosedPoint(Here')
  BY <1>1 DEF SIGN_IN_START
<1>2. ASSUME NEW u \in User, SIGN_IN_SUCCESS(u) PROVE MachineOK' /\ ClosedPoint(Here')
  BY <1>2 DEF SIGN_IN_SUCCESS
<1>3. ASSUME NEW u \in User, REFRESH_SUCCESS(u) PROVE MachineOK' /\ ClosedPoint(Here')
  BY <1>3 DEF REFRESH_SUCCESS
<1>4. CASE SIGN_IN_FAILURE
  BY <1>4 DEF SIGN_IN_FAILURE
<1>5. CASE SIGN_IN_LEFT_APP
  BY <1>5 DEF SIGN_IN_LEFT_APP
<1>6. ASSUME NEW u \in User, access # "forced", AUTHENTICATED(u)
      PROVE  MachineOK' /\ ClosedPoint(Here')
  BY <1>6 DEF AUTHENTICATED
<1>7. ASSUME NEW forced \in BOOLEAN, SIGN_OUT(forced) PROVE MachineOK' /\ ClosedPoint(Here')
  BY <1>7 DEF SIGN_OUT
<1>8. CASE EXPIRED
  BY <1>8 DEF EXPIRED
<1>9. CASE REFRESH_START
  BY <1>9 DEF REFRESH_START
<1>10. CASE REFRESH_FAILURE
  BY <1>10 DEF REFRESH_FAILURE
<1>11. ASSUME NEW u \in User \cup {NoUser}, BOOTSTRAP_DONE(u)
       PROVE  MachineOK' /\ ClosedPoint(Here')
  BY <1>11 DEF BOOTSTRAP_DONE
<1>12. CASE BOOTSTRAP_FAILURE
  BY <1>12 DEF BOOTSTRAP_FAILURE
<1>13. CASE UNCHANGED machine
  BY <1>13 DEF machine
<1> QED
  BY <1>1, <1>2, <1>3, <1>4, <1>5, <1>6, <1>7, <1>8, <1>9, <1>10, <1>11, <1>12, <1>13
     DEF Plain, Succeeds

\* These events neither force a session closed nor end a forced sign-out.
LEMMA PlainKeepsForced ==
    ASSUME Plain PROVE access' = "forced" <=> access = "forced"
  BY SMTT(30) DEF Plain, SIGN_IN_START, REFRESH_SUCCESS, SIGN_IN_FAILURE, SIGN_IN_LEFT_APP,
     AUTHENTICATED, SIGN_OUT, EXPIRED, REFRESH_START, REFRESH_FAILURE, BOOTSTRAP_DONE,
     BOOTSTRAP_FAILURE, machine

----------------------------------------------------------------------------
(* The turns alone *)

\* A sign-out that failed with nothing after it.
RollBack(c) ==
    /\ c.op = "signOut" /\ Current(c)
    /\ epoch' = c.epoch - 1
    /\ calls' = {[d EXCEPT !.later = @ \ {c.turn}] : d \in calls \ {c}}
    /\ UNCHANGED turn

\* A call is current exactly when nothing came after it that still stands.
LEMMA CurrentIsLast ==
    ASSUME AuthTypeOK, EpochInv, NEW c \in calls
    PROVE  Current(c) <=> c.later = {}
<1>1. IsFiniteSet(c.later) /\ c.epoch + Cardinality(c.later) = epoch
  BY DEF EpochInv, Counts
<1>2. c.epoch \in Nat /\ epoch \in Nat
  BY DEF AuthTypeOK, Call
<1>3. Cardinality(c.later) \in Nat
  BY <1>1, FS_CardinalityType
<1>4. Cardinality(c.later) = 0 <=> c.later = {}
  BY <1>1, FS_EmptySet
<1> QED
  BY <1>1, <1>2, <1>3, <1>4 DEF Current

\* A turn is counted by every call in flight.
LEMMA SupersededCounts ==
    ASSUME AuthTypeOK, EpochInv
    PROVE  /\ Superseded \subseteq Call
           /\ \A c \in Superseded : Counts(c, turn + 1, epoch + 1) /\ turn + 1 \in c.later
           /\ Ordered(Superseded)
<1> DEFINE S(c) == [c EXCEPT !.later = @ \cup {turn + 1}]
<1>1. turn \in Nat /\ epoch \in Nat /\ calls \subseteq Call
  BY DEF AuthTypeOK
<1>2. ASSUME NEW c \in calls
      PROVE  /\ S(c) \in Call
             /\ S(c).turn = c.turn /\ S(c).epoch = c.epoch
             /\ S(c).later = c.later \cup {turn + 1}
  BY <1>1, <1>2 DEF Call
<1>3. ASSUME NEW c \in calls PROVE Counts(S(c), turn + 1, epoch + 1)
  <2>1. Counts(c, turn, epoch)
    BY DEF EpochInv
  <2>2. c.turn \in Nat /\ c.epoch \in Nat /\ c.later \in SUBSET Nat
    BY <1>1 DEF Call
  <2>3. turn + 1 \notin c.later
    BY <2>1, <2>2, <1>1 DEF Counts
  <2>4. /\ IsFiniteSet(c.later \cup {turn + 1})
        /\ Cardinality(c.later \cup {turn + 1}) = Cardinality(c.later) + 1
    BY <2>1, <2>3, FS_AddElement DEF Counts
  <2>5. Cardinality(c.later) \in Nat
    BY <2>1, FS_CardinalityType DEF Counts
  <2>6. \A x \in c.later \cup {turn + 1} : x <= turn + 1
    BY <2>1, <2>2, <1>1 DEF Counts
  <2>7. c.turn <= turn + 1 /\ c.epoch + (Cardinality(c.later) + 1) = epoch + 1
    BY <2>1, <2>2, <2>5, <1>1 DEF Counts
  <2> HIDE DEF S
  <2> QED
    BY <1>2, <2>4, <2>6, <2>7 DEF Counts
<1>4. Ordered(Superseded)
  <2>1. SUFFICES ASSUME NEW c \in calls, NEW d \in calls
                 PROVE  /\ S(c).turn = S(d).turn => S(c) = S(d)
                        /\ S(c).turn < S(d).turn => S(d).turn \in S(c).later
    BY DEF Ordered, Superseded
  <2>2. /\ c.turn = d.turn => c = d
        /\ c.turn < d.turn => d.turn \in c.later
    BY DEF EpochInv, Ordered
  <2> HIDE DEF S
  <2> QED
    BY <1>2, <2>2
<1> HIDE DEF S
<1>5. Superseded = {S(c) : c \in calls}
  BY DEF Superseded, S
<1> QED
  BY <1>2, <1>3, <1>4, <1>5

\* A fence keeps the count.
LEMMA FenceEpoch ==
    ASSUME AuthTypeOK, EpochInv, Fence
    PROVE  calls' \subseteq Call /\ epoch' \in Nat /\ turn' \in Nat /\ EpochInv'
  BY SupersededCounts DEF Fence, AuthTypeOK, EpochInv

\* An operation enters with nothing after it.
LEMMA StartEpoch ==
    ASSUME AuthTypeOK, EpochInv, NEW op \in Op, NEW back \in Point, Start(op, back)
    PROVE  calls' \subseteq Call /\ epoch' \in Nat /\ turn' \in Nat /\ EpochInv'
<1> DEFINE n == NewCall(op, turn + 1, epoch + 1, back)
<1>1. turn \in Nat /\ epoch \in Nat
  BY DEF AuthTypeOK
<1>2. /\ n \in Call
      /\ n.turn = turn + 1 /\ n.epoch = epoch + 1 /\ n.later = {}
  BY <1>1 DEF NewCall, Call
<1>3. Counts(n, turn + 1, epoch + 1)
  BY <1>1, <1>2, FS_EmptySet DEF Counts
<1> HIDE DEF n
<1>4. /\ calls' = Superseded \cup {n}
      /\ turn' = turn + 1 /\ epoch' = epoch + 1
  BY DEF Start, n
<1>5. ASSUME NEW c \in Superseded PROVE c.turn < n.turn /\ n.turn \in c.later
  <2>1. PICK d \in calls : c = [d EXCEPT !.later = @ \cup {turn + 1}]
    BY DEF Superseded
  <2>2. d \in Call /\ d.turn <= turn
    BY DEF AuthTypeOK, EpochInv, Counts
  <2>3. c.turn = d.turn /\ d.turn \in Nat
    BY <2>1, <2>2 DEF Call
  <2> QED
    BY <1>1, <1>2, <2>2, <2>3, SupersededCounts
<1>6. Ordered(calls')
  <2>1. SUFFICES ASSUME NEW c \in calls', NEW d \in calls'
                 PROVE  /\ c.turn = d.turn => c = d
                        /\ c.turn < d.turn => d.turn \in c.later
    BY DEF Ordered
  <2>2. CASE c \in Superseded /\ d \in Superseded
    BY <2>2, SupersededCounts DEF Ordered
  <2>3. CASE c \in Superseded /\ d = n
    BY <1>1, <1>2, <1>5, <2>3, SupersededCounts DEF Call
  <2>4. CASE c = n /\ d \in Superseded
    <3>1. d.turn < n.turn /\ d.turn \in Nat /\ n.turn \in Nat
      BY <1>1, <1>2, <1>5, <2>4, SupersededCounts DEF Call
    <3> QED
      BY <2>4, <3>1
  <2>5. CASE c = n /\ d = n
    BY <1>1, <1>2, <2>5
  <2> QED
    BY <1>4, <2>2, <2>3, <2>4, <2>5
<1> QED
  BY <1>1, <1>2, <1>3, <1>4, <1>6, SupersededCounts DEF EpochInv

\* A call that ends leaves the others as they are.
LEMMA FinishEpoch ==
    ASSUME AuthTypeOK, EpochInv, NEW c \in calls, Finish(c)
    PROVE  calls' \subseteq Call /\ epoch' \in Nat /\ turn' \in Nat /\ EpochInv'
  BY DEF Finish, AuthTypeOK, EpochInv, Ordered

\* The turn given back is taken from every call, since all of them began before it.
LEMMA RollBackEpoch ==
    ASSUME AuthTypeOK, EpochInv, BackInv, NEW c \in calls, RollBack(c)
    PROVE  calls' \subseteq Call /\ epoch' \in Nat /\ turn' \in Nat /\ EpochInv'
<1> DEFINE R(d) == [d EXCEPT !.later = @ \ {c.turn}]
<1>1. /\ turn \in Nat /\ epoch \in Nat /\ calls \subseteq Call
      /\ c.epoch = epoch /\ c.epoch > 0
  BY DEF AuthTypeOK, RollBack, Current, BackInv
<1>2. c.later = {}
  BY CurrentIsLast DEF RollBack
<1>3. ASSUME NEW d \in calls \ {c} PROVE c.turn \in d.later
  <2>1. c.turn \in Nat /\ d.turn \in Nat
    BY <1>1 DEF Call
  <2>2. c.turn # d.turn /\ ~(c.turn < d.turn)
    BY <1>2 DEF EpochInv, Ordered
  <2> QED
    BY <2>1, <2>2 DEF EpochInv, Ordered
<1>4. ASSUME NEW d \in calls \ {c}
      PROVE  /\ R(d) \in Call
             /\ R(d).turn = d.turn /\ R(d).epoch = d.epoch
             /\ R(d).later = d.later \ {c.turn}
  BY <1>1 DEF Call
<1>5. ASSUME NEW d \in calls \ {c} PROVE Counts(R(d), turn, epoch - 1)
  <2>1. Counts(d, turn, epoch)
    BY DEF EpochInv
  <2>2. /\ IsFiniteSet(d.later \ {c.turn})
        /\ Cardinality(d.later \ {c.turn}) = Cardinality(d.later) - 1
    BY <1>3, <2>1, FS_RemoveElement DEF Counts
  <2>3. Cardinality(d.later) \in Nat /\ d.epoch \in Nat
    BY <1>1, <2>1, FS_CardinalityType DEF Counts, Call
  <2>4. d.epoch + (Cardinality(d.later) - 1) = epoch - 1
    BY <1>1, <2>1, <2>3 DEF Counts
  <2> HIDE DEF R
  <2> QED
    BY <1>4, <2>1, <2>2, <2>4 DEF Counts
<1> HIDE DEF R
<1>6. /\ calls' = {R(d) : d \in calls \ {c}}
      /\ turn' = turn /\ epoch' = epoch - 1
  BY <1>1 DEF RollBack, R
<1>7. Ordered(calls')
  <2>1. SUFFICES ASSUME NEW d \in calls \ {c}, NEW e \in calls \ {c}
                 PROVE  /\ R(d).turn = R(e).turn => R(d) = R(e)
                        /\ R(d).turn < R(e).turn => R(e).turn \in R(d).later
    BY <1>6 DEF Ordered
  <2>2. /\ d.turn = e.turn => d = e
        /\ d.turn < e.turn => e.turn \in d.later
        /\ e.turn # c.turn
    BY DEF EpochInv, Ordered
  <2> QED
    BY <1>4, <2>2
<1> QED
  BY <1>1, <1>4, <1>5, <1>6, <1>7 DEF EpochInv

----------------------------------------------------------------------------
(* The steps of the specification *)

\* A step without a turn.
AuthQuiet == Plain /\ UNCHANGED <<epoch, turn, calls>>

\* A turn that is no operation.
Fences == Fence /\ (Plain \/ SIGN_OUT(TRUE))

Begins(op, back) == Start(op, back) /\ Plain /\ (op = "signOut" => back = Here)

\* A call that settles, and drives the machine only if it is current.
Ended(c) ==
    /\ Finish(c)
    /\ Plain \/ (Succeeds /\ c.op \in SignInOp)
    /\ Current(c) \/ UNCHANGED machine

GivesBack(c) == RollBack(c) /\ (RESTORE(c.back) \/ UNCHANGED machine)

Step ==
    \/ AuthQuiet
    \/ Fences
    \/ \E op \in Op, back \in Point : Begins(op, back)
    \/ \E c \in calls : Ended(c) \/ GivesBack(c)

\* The settlement of a call is one of the two ways a call ends.
LEMMA SettleStep ==
    ASSUME AuthTypeOK, NEW c \in calls, Settle(c)
    PROVE  (Ended(c) \/ GivesBack(c)) /\ boot' \in {"pending", "settled"} /\ disposed' \in BOOLEAN
<1>1. boot \in {"pending", "settled"} /\ disposed \in BOOLEAN
  BY DEF AuthTypeOK
<1>2. CASE SettleSignIn(c)
  BY <1>1, <1>2 DEF SettleSignIn, SignInOutcome, Ended, Plain, Succeeds, Ignore
<1>3. CASE SettleBootstrap(c)
  BY <1>1, <1>3 DEF SettleBootstrap, Ended, Plain, Ignore
<1>4. CASE SettleRefresh(c)
  BY <1>1, <1>4 DEF SettleRefresh, Ended, Plain, Ignore
<1>5. CASE SignOutDone(c)
  BY <1>1, <1>5 DEF SignOutDone, Ended, Plain
<1>6. CASE SignOutFailed(c)
  BY <1>1, <1>6 DEF SignOutFailed, RollBack, GivesBack, Ended, Plain, Ignore
<1> QED
  BY <1>2, <1>3, <1>4, <1>5, <1>6 DEF Settle

\* Every action is a step of one of these kinds.
LEMMA NextStep ==
    ASSUME AuthTypeOK, [AuthNext]_authVars
    PROVE  Step /\ boot' \in {"pending", "settled"} /\ disposed' \in BOOLEAN
<1>1. boot \in {"pending", "settled"} /\ disposed \in BOOLEAN
  BY DEF AuthTypeOK
<1>2. Here \in Point /\ NoPoint \in Point
  BY DEF AuthTypeOK, Here, NoPoint, Point, Status, Access, Attempt
<1>3. ASSUME NEW op \in SignInOp, SignIn(op) PROVE Begins(op, NoPoint) /\ UNCHANGED <<boot, disposed>>
  BY <1>3 DEF SignIn, Begins, Plain, SignInOp
<1>4. CASE SignOut
  BY <1>1, <1>2, <1>4 DEF SignOut, Step, Begins, Plain, Op
<1>5. CASE ForceLocalSignOut
  BY <1>1, <1>5 DEF ForceLocalSignOut, Step, Fences
<1>6. CASE Refresh
  BY <1>1, <1>2, <1>6 DEF Refresh, Step, Begins, Plain, Op
<1>7. CASE Ends
  BY <1>1, <1>7 DEF Ends, Step, Fences, Plain
<1>8. CASE Dispose
  BY <1>1, <1>8 DEF Dispose, Step, Fences, Plain
<1>9. ASSUME NEW c \in calls, Settle(c)
      PROVE  Step /\ boot' \in {"pending", "settled"} /\ disposed' \in BOOLEAN
  BY <1>9, SettleStep DEF Step
<1>10. ASSUME NEW u \in User, NEW refreshed \in BOOLEAN, AdapterAuthenticated(u, refreshed)
       PROVE  Step /\ UNCHANGED <<boot, disposed>>
  BY <1>10 DEF AdapterAuthenticated, MayAuthenticate, Step, AuthQuiet, Plain
<1>11. CASE AdapterExpired
  BY <1>1, <1>7, <1>11 DEF AdapterExpired, Step, AuthQuiet, Plain
<1>12. CASE UNCHANGED authVars
  BY <1>1, <1>12 DEF authVars, machine, Step, AuthQuiet, Plain
<1>13. ASSUME NEW op \in SignInOp, SignIn(op)
       PROVE  Step /\ boot' \in {"pending", "settled"} /\ disposed' \in BOOLEAN
  BY <1>1, <1>2, <1>3, <1>13 DEF Step, Op
<1> QED
  BY <1>1, <1>4, <1>5, <1>6, <1>7, <1>8, <1>9, <1>10, <1>11, <1>12, <1>13
     DEF AuthNext, CancelSignIn, AdapterSignedOut

----------------------------------------------------------------------------
(* What a failed sign-out would put back *)

\* The regions of a point are the machine's.
LEMMA HereIs ==
    /\ Here = [status |-> status, userId |-> userId, access |-> access, attempt |-> attempt]
    /\ AuthTypeOK => MachineOK /\ Here \in Point
  BY DEF Here, AuthTypeOK, MachineOK, Point

\* A turn leaves every sign-out in flight something after it.
LEMMA SupersededBack ==
    ASSUME AuthTypeOK, EpochInv, BackInv
    PROVE  \A c \in Superseded : c.op = "signOut" =>
              /\ c.epoch > 0 /\ ClosedPoint(c.back) /\ c.later # {}
              /\ \A d \in Superseded :
                    d.op = "signOut" /\ FirstAfter(d, c) /\ d.back.access = "forced" =>
                        c.back.access = "forced"
<1> DEFINE S(c) == [c EXCEPT !.later = @ \cup {turn + 1}]
<1>1. ASSUME NEW c \in calls
      PROVE  /\ S(c).op = c.op /\ S(c).turn = c.turn /\ S(c).epoch = c.epoch
             /\ S(c).back = c.back /\ S(c).later = c.later \cup {turn + 1}
             /\ c.turn \in Nat /\ c.later \subseteq Nat /\ c.turn <= turn
  BY DEF AuthTypeOK, Call, EpochInv, Counts
<1>2. Superseded = {S(c) : c \in calls} /\ turn \in Nat
  BY DEF Superseded, AuthTypeOK
<1> HIDE DEF S
<1>3. ASSUME NEW c \in calls, NEW d \in calls, FirstAfter(S(d), S(c)) PROVE FirstAfter(d, c)
  BY <1>1, <1>2, <1>3 DEF FirstAfter
<1> QED
  BY <1>1, <1>2, <1>3 DEF BackInv

\* A fence.
LEMMA FenceBack ==
    ASSUME AuthTypeOK, EpochInv, BackInv, Fence
    PROVE  BackInv'
  BY SupersededBack DEF Fence, BackInv, FirstAfter

\* An operation; a sign-out takes the machine as it finds it.
LEMMA StartBack ==
    ASSUME AuthTypeOK, EpochInv, BackInv, ClosedPoint(Here),
           NEW op \in Op, NEW back \in Point, Begins(op, back)
    PROVE  BackInv'
<1> DEFINE n == NewCall(op, turn + 1, epoch + 1, back)
           S(c) == [c EXCEPT !.later = @ \cup {turn + 1}]
<1>1. turn \in Nat /\ epoch \in Nat
  BY DEF AuthTypeOK
<1>2. n.op = op /\ n.turn = turn + 1 /\ n.epoch = epoch + 1 /\ n.back = back /\ n.later = {}
  BY DEF NewCall
<1>3. calls' = Superseded \cup {n}
  BY DEF Begins, Start
<1> HIDE DEF n
<1>4. access' = "forced" <=> access = "forced"
  BY PlainKeepsForced DEF Begins
<1>5. op = "signOut" => back.access = access /\ ClosedPoint(back)
  BY HereIs DEF Begins
<1>6. ASSUME NEW c \in calls
      PROVE  /\ S(c).op = c.op /\ S(c).back = c.back /\ S(c).later = c.later \cup {turn + 1}
             /\ c.turn \in Nat /\ c.later \subseteq Nat /\ \A x \in c.later : x <= turn
  BY DEF AuthTypeOK, Call, EpochInv, Counts
<1>7. Superseded = {S(c) : c \in calls}
  BY DEF Superseded
<1> HIDE DEF S
<1>8. ASSUME NEW c \in Superseded, c.op = "signOut", n.op = "signOut", FirstAfter(n, c),
             n.back.access = "forced"
      PROVE  c.back.access = "forced"
  <2>1. PICK e \in calls : c = S(e)
    BY <1>7
  <2>2. e.later = {}
    BY <1>1, <1>2, <1>6, <1>8, <2>1 DEF FirstAfter
  <2>3. access = "forced"
    BY <1>2, <1>5, <1>8
  <2> QED
    BY <1>6, <1>8, <2>1, <2>2, <2>3 DEF BackInv
<1> QED
  BY <1>1, <1>2, <1>3, <1>4, <1>5, <1>8, SupersededBack DEF BackInv, FirstAfter

\* A call that ends: the machine is not forced closed by it.
LEMMA EndedBack ==
    ASSUME BackInv, NEW c \in calls, Ended(c)
    PROVE  BackInv'
<1>1. access' = "forced" => access = "forced"
  BY PlainKeepsForced DEF Ended, Succeeds, SIGN_IN_SUCCESS
<1>2. calls' = calls \ {c}
  BY DEF Ended, Finish
<1> QED
  BY <1>1, <1>2 DEF BackInv, FirstAfter

\* A failed sign-out: where it was the first after another, that one is the last now, and
\* would put back no less than it did.
LEMMA GivesBackBack ==
    ASSUME AuthTypeOK, EpochInv, BackInv, NEW c \in calls, GivesBack(c)
    PROVE  BackInv'
<1> DEFINE R(d) == [d EXCEPT !.later = @ \ {c.turn}]
<1>1. c.later = {} /\ c.op = "signOut"
  BY CurrentIsLast DEF GivesBack, RollBack
<1>2. access' = "forced" => c.back.access = "forced"
  BY <1>1 DEF GivesBack, RESTORE, BackInv, machine
<1>3. ASSUME NEW d \in calls \ {c}
      PROVE  /\ R(d).op = d.op /\ R(d).turn = d.turn /\ R(d).epoch = d.epoch
             /\ R(d).back = d.back /\ R(d).later = d.later \ {c.turn}
             /\ c.turn \in d.later /\ c.turn \in Nat /\ d.turn \in Nat /\ d.turn < c.turn
             /\ d.later \subseteq Nat
  <2>1. c.turn \in Nat /\ d.turn \in Nat /\ d.later \subseteq Nat
    BY DEF AuthTypeOK, Call
  <2>2. c.turn # d.turn /\ ~(c.turn < d.turn)
    BY <1>1 DEF EpochInv, Ordered
  <2>3. c.turn \in d.later /\ d.turn < c.turn
    BY <2>1, <2>2 DEF EpochInv, Ordered
  <2> QED
    BY <2>1, <2>3 DEF AuthTypeOK, Call
<1>4. calls' = {R(d) : d \in calls \ {c}}
  BY DEF GivesBack, RollBack
<1> HIDE DEF R
<1>5. ASSUME NEW d \in calls \ {c}, d.op = "signOut", R(d).later = {}, c.back.access = "forced"
      PROVE  d.back.access = "forced"
  <2>1. FirstAfter(c, d)
    BY <1>3, <1>5 DEF FirstAfter
  <2> QED
    BY <1>1, <1>5, <2>1 DEF BackInv
<1>6. ASSUME NEW d \in calls \ {c}, NEW e \in calls \ {c}, FirstAfter(R(e), R(d))
      PROVE  FirstAfter(e, d)
  BY <1>3, <1>6 DEF FirstAfter
<1> QED
  BY <1>2, <1>3, <1>4, <1>5, <1>6 DEF BackInv

----------------------------------------------------------------------------
(* The invariant *)

\* The initial state has the bootstrap in flight and nothing else.
LEMMA InitInv == AuthInit => AuthInv
<1> SUFFICES ASSUME AuthInit PROVE AuthInv
  OBVIOUS
<1> DEFINE b == NewCall("bootstrap", 0, 0, NoPoint)
<1>1. NoPoint \in Point
  BY DEF NoPoint, Point, Status, Access, Attempt
<1>2. b \in Call /\ b.op = "bootstrap" /\ b.turn = 0 /\ b.epoch = 0 /\ b.later = {}
  BY <1>1 DEF NewCall, Call, Op
<1>3. calls = {b}
  BY DEF AuthInit
<1> HIDE DEF b
<1>4. AuthTypeOK
  BY <1>2, <1>3 DEF AuthInit, AuthTypeOK, Status, Access, Attempt
<1>5. EpochInv
  BY <1>2, <1>3, FS_EmptySet DEF AuthInit, EpochInv, Ordered, Counts
<1>6. BackInv
  BY <1>2, <1>3 DEF BackInv
<1>7. ClosedPoint(Here)
  BY DEF AuthInit, ClosedPoint, Here
<1> QED
  BY <1>4, <1>5, <1>6, <1>7 DEF AuthInv

\* Every step keeps the invariant.
LEMMA InvStep == AuthInv /\ [AuthNext]_authVars => AuthInv'
<1> SUFFICES ASSUME AuthInv, [AuthNext]_authVars PROVE AuthInv'
  OBVIOUS
<1>0. AuthTypeOK /\ EpochInv /\ BackInv /\ ClosedPoint(Here) /\ MachineOK
  BY HereIs DEF AuthInv
<1>1. Step /\ boot' \in {"pending", "settled"} /\ disposed' \in BOOLEAN
  BY <1>0, NextStep
<1> DEFINE Turns == calls' \subseteq Call /\ epoch' \in Nat /\ turn' \in Nat /\ EpochInv'
<1>2. CASE AuthQuiet
  <2>1. Turns
    BY <1>0, <1>2 DEF AuthQuiet, AuthTypeOK, EpochInv, Counts, Ordered
  <2>2. BackInv'
    BY <1>0, <1>2, PlainKeepsForced DEF AuthQuiet, BackInv, FirstAfter
  <2> QED
    BY <1>0, <1>1, <1>2, <2>1, <2>2, MachineStep DEF AuthQuiet, AuthInv, AuthTypeOK, MachineOK
<1>3. CASE Fences
  <2>1. Turns /\ BackInv'
    BY <1>0, <1>3, FenceEpoch, FenceBack DEF Fences
  <2> QED
    BY <1>0, <1>1, <1>3, <2>1, MachineStep DEF Fences, AuthInv, AuthTypeOK, MachineOK
<1>4. ASSUME NEW op \in Op, NEW back \in Point, Begins(op, back) PROVE AuthInv'
  <2>1. Turns /\ BackInv'
    BY <1>0, <1>4, StartEpoch, StartBack DEF Begins
  <2> QED
    BY <1>0, <1>1, <1>4, <2>1, MachineStep DEF Begins, AuthInv, AuthTypeOK, MachineOK
<1>5. ASSUME NEW c \in calls, Ended(c) PROVE AuthInv'
  <2>1. Turns /\ BackInv'
    BY <1>0, <1>5, FinishEpoch, EndedBack DEF Ended
  <2> QED
    BY <1>0, <1>1, <1>5, <2>1, MachineStep DEF Ended, AuthInv, AuthTypeOK, MachineOK
<1>6. ASSUME NEW c \in calls, GivesBack(c) PROVE AuthInv'
  <2>1. Turns /\ BackInv'
    BY <1>0, <1>6, RollBackEpoch, GivesBackBack DEF GivesBack
  <2>2. c.back \in Point /\ ClosedPoint(c.back)
    BY <1>0, <1>6 DEF GivesBack, RollBack, BackInv, AuthTypeOK, Call
  <2>3. MachineOK' /\ ClosedPoint(Here')
    <3>1. CASE RESTORE(c.back)
      BY <2>2, <3>1 DEF RESTORE, Enter, Point, MachineOK, ClosedPoint, Here
    <3>2. CASE UNCHANGED machine
      BY <1>0, <3>2 DEF machine, MachineOK, ClosedPoint, Here
    <3> QED
      BY <1>6, <3>1, <3>2 DEF GivesBack
  <2> QED
    BY <1>1, <2>1, <2>3 DEF AuthInv, AuthTypeOK, MachineOK
<1> QED
  BY <1>1, <1>2, <1>3, <1>4, <1>5, <1>6 DEF Step

\* The invariant of the session.
LEMMA AuthInvariant == AuthSpec => []AuthInv
  BY InitInv, InvStep, PTL DEF AuthSpec

\* Types: the regions and the calls in flight keep their shape, whatever interleaves.
THEOREM AuthTypeCorrect == AuthSpec => []AuthTypeOK
<1>1. AuthInv => AuthTypeOK
  BY DEF AuthInv
<1> QED
  BY <1>1, AuthInvariant, PTL

\* A session that a sign-out closed holds no identity, whatever settles or is reported.
THEOREM ClosedIsEmpty == AuthSpec => []ClosedHasNoUser
<1>1. AuthInv => ClosedHasNoUser
  BY DEF AuthInv, ClosedPoint, Here, ClosedHasNoUser
<1> QED
  BY <1>1, AuthInvariant, PTL

----------------------------------------------------------------------------
(* The action properties *)

\* Every call in flight is still there after a turn.
LEMMA TurnKeepsCalls ==
    ASSUME AuthTypeOK, NEW c \in calls,
           AuthQuiet \/ Fences \/ \E op \in Op, back \in Point : Begins(op, back)
    PROVE  ~Settles(c)
<1>1. c \in Call
  BY DEF AuthTypeOK
<1>2. [c EXCEPT !.later = @ \cup {turn + 1}].turn = c.turn
  BY <1>1 DEF Call
<1>3. c \in calls' \/ [c EXCEPT !.later = @ \cup {turn + 1}] \in calls'
  BY DEF AuthQuiet, Fences, Fence, Begins, Start, Superseded
<1> QED
  BY <1>2, <1>3 DEF Settles

\* Only the call that ends settles.
LEMMA OnlyOneSettles ==
    ASSUME AuthTypeOK, NEW c \in calls, NEW d \in calls, Ended(d) \/ GivesBack(d), Settles(c)
    PROVE  c = d
<1> SUFFICES ASSUME c # d PROVE FALSE
  OBVIOUS
<1>1. c \in Call
  BY DEF AuthTypeOK
<1>2. [c EXCEPT !.later = @ \ {d.turn}].turn = c.turn
  BY <1>1 DEF Call
<1>3. c \in calls' \/ [c EXCEPT !.later = @ \ {d.turn}] \in calls'
  BY DEF Ended, Finish, GivesBack, RollBack
<1> QED
  BY <1>2, <1>3 DEF Settles

\* A result that settles after a newer operation, a fence or a standing sign-out leaves
\* the machine alone.
THEOREM LateIsInert == AuthSpec => LateResultInert
<1>1. ASSUME AuthInv, [AuthNext]_authVars, NEW c \in calls, Settles(c), c.later # {}
      PROVE  UNCHANGED machine
  <2>1. AuthTypeOK /\ EpochInv /\ Step
    BY <1>1, NextStep DEF AuthInv
  <2>2. PICK d \in calls : Ended(d) \/ GivesBack(d)
    BY <1>1, <2>1, TurnKeepsCalls DEF Step
  <2>3. c = d
    BY <1>1, <2>1, <2>2, OnlyOneSettles
  <2>4. ~Current(c)
    BY <1>1, <2>1, CurrentIsLast
  <2> QED
    BY <2>2, <2>3, <2>4 DEF Ended, GivesBack, RollBack
<1>2. AuthInv /\ [AuthNext]_authVars =>
        [\A c \in calls : Settles(c) /\ c.later # {} => UNCHANGED machine]_authVars
  BY <1>1
<1> QED
  BY <1>2, AuthInvariant, PTL DEF AuthSpec, LateResultInert

\* A forced sign-out is ended by the success of a sign-in begun after it, and by nothing
\* else.
THEOREM ForcedStays == AuthSpec => ForcedHolds
<1> DEFINE OK == access = "forced" /\ access' # "forced" =>
                    /\ status' \in {status, "authenticated"}
                    /\ \E c \in calls : Settles(c) /\ c.op \in SignInOp /\ c.later = {}
<1>1. ASSUME AuthInv, [AuthNext]_authVars, access = "forced", access' # "forced"
      PROVE  /\ status' \in {status, "authenticated"}
             /\ \E c \in calls : Settles(c) /\ c.op \in SignInOp /\ c.later = {}
  <2>1. AuthTypeOK /\ EpochInv /\ BackInv /\ Step
    BY <1>1, NextStep DEF AuthInv
  <2>2. ~Plain /\ ~SIGN_OUT(TRUE) /\ ~UNCHANGED machine
    BY <1>1, PlainKeepsForced DEF SIGN_OUT, machine
  <2>3. PICK d \in calls : Ended(d) \/ GivesBack(d)
    BY <2>1, <2>2 DEF Step, AuthQuiet, Fences, Begins
  <2>4. CASE GivesBack(d)
    <3>1. d.later = {} /\ d.op = "signOut"
      BY <2>1, <2>4, CurrentIsLast DEF GivesBack, RollBack
    <3>2. d.back.access = "forced"
      BY <1>1, <2>1, <3>1 DEF BackInv
    <3> QED
      BY <1>1, <2>2, <2>4, <3>2 DEF GivesBack, RESTORE
  <2>5. CASE Ended(d)
    <3>1. Current(d) /\ Succeeds /\ d.op \in SignInOp
      BY <2>2, <2>5 DEF Ended
    <3>2. d.later = {}
      BY <2>1, <3>1, CurrentIsLast
    <3>3. Settles(d)
      BY <2>1, <2>5 DEF Ended, Finish, Settles, EpochInv, Ordered
    <3>4. status' \in {status, "authenticated"}
      BY <3>1 DEF Succeeds, SIGN_IN_SUCCESS, Enter, Stay
    <3> QED
      BY <3>1, <3>2, <3>3, <3>4
  <2> QED
    BY <2>3, <2>4, <2>5
<1>2. AuthInv /\ [AuthNext]_authVars => [OK]_authVars
  BY <1>1
<1> QED
  BY <1>2, AuthInvariant, PTL DEF AuthSpec, ForcedHolds

----------------------------------------------------------------------------
(* What a status waits for *)

\* The Google flow whose result would still count has not left the app, also once a failed
\* sign-out has put it back; and nothing counts for a client that is disposed of.
FlowInv ==
    /\ disposed => \A c \in calls : c.later # {}
    /\ \A c \in calls : c.op = "google" =>
          /\ c.later = {} /\ status = "signingIn" => attempt = "external"
          /\ \A d \in calls :
                d.op = "signOut" /\ FirstAfter(d, c) /\ d.back.status = "signingIn"
                    => d.back.attempt = "external"

\* A step that starts, ends and supersedes nothing enters no sign-in.
LEMMA QuietFlow ==
    ASSUME FlowInv, UNCHANGED <<calls, disposed>>,
           status' = "signingIn" => status = "signingIn" /\ attempt' = attempt
    PROVE  FlowInv'
  BY DEF FlowInv, FirstAfter

\* A turn leaves something after every call in flight.
LEMMA SupersededFlow ==
    ASSUME AuthTypeOK, EpochInv, FlowInv
    PROVE  \A c \in Superseded :
              /\ c.later # {}
              /\ c.op = "google" => \A d \in Superseded :
                    d.op = "signOut" /\ FirstAfter(d, c) /\ d.back.status = "signingIn"
                        => d.back.attempt = "external"
<1> DEFINE S(c) == [c EXCEPT !.later = @ \cup {turn + 1}]
<1>1. ASSUME NEW c \in calls
      PROVE  /\ S(c).op = c.op /\ S(c).turn = c.turn /\ S(c).back = c.back
             /\ S(c).later = c.later \cup {turn + 1}
             /\ c.turn \in Nat /\ c.later \subseteq Nat /\ c.turn <= turn
  BY DEF AuthTypeOK, Call, EpochInv, Counts
<1>2. Superseded = {S(c) : c \in calls} /\ turn \in Nat
  BY DEF Superseded, AuthTypeOK
<1> HIDE DEF S
<1>3. ASSUME NEW c \in calls, NEW d \in calls, FirstAfter(S(d), S(c)) PROVE FirstAfter(d, c)
  BY <1>1, <1>2, <1>3 DEF FirstAfter
<1> QED
  BY <1>1, <1>2, <1>3 DEF FlowInv

\* A fence.
LEMMA FenceFlow ==
    ASSUME AuthTypeOK, EpochInv, FlowInv, Fence
    PROVE  FlowInv'
<1>1. calls' = Superseded
  BY DEF Fence
<1>2. \A c, d : FirstAfter(d, c)' <=> FirstAfter(d, c)
  BY DEF FirstAfter
<1> QED
  BY <1>1, <1>2, SupersededFlow DEF FlowInv

\* An operation: a Google sign-in begins inside the app, a sign-out takes the machine as it
\* finds it.
LEMMA StartFlow ==
    ASSUME AuthTypeOK, EpochInv, FlowInv, NEW op, NEW back, Start(op, back), ~disposed',
           op = "google" => attempt' = "external",
           op = "signOut" => back = Here
    PROVE  FlowInv'
<1> DEFINE n == NewCall(op, turn + 1, epoch + 1, back)
           S(c) == [c EXCEPT !.later = @ \cup {turn + 1}]
<1>1. turn \in Nat
  BY DEF AuthTypeOK
<1>2. n.op = op /\ n.turn = turn + 1 /\ n.back = back /\ n.later = {}
  BY DEF NewCall
<1>3. calls' = Superseded \cup {n}
  BY DEF Start
<1> HIDE DEF n
<1>4. back = Here => back.status = status /\ back.attempt = attempt
  BY DEF Here
<1>5. ASSUME NEW c \in calls
      PROVE  /\ S(c).op = c.op /\ S(c).later = c.later \cup {turn + 1}
             /\ c.later \subseteq Nat /\ \A x \in c.later : x <= turn
  BY DEF AuthTypeOK, Call, EpochInv, Counts
<1>6. Superseded = {S(c) : c \in calls}
  BY DEF Superseded
<1> HIDE DEF S
<1>7. ASSUME NEW c \in Superseded, c.op = "google", n.op = "signOut", FirstAfter(n, c),
             n.back.status = "signingIn"
      PROVE  n.back.attempt = "external"
  <2>1. PICK e \in calls : c = S(e)
    BY <1>6
  <2>2. e.later = {} /\ e.op = "google"
    BY <1>1, <1>2, <1>5, <1>7, <2>1 DEF FirstAfter
  <2> QED
    BY <1>2, <1>4, <1>7, <2>2 DEF FlowInv
<1>8. ~FirstAfter(n, n) /\ \A d : ~FirstAfter(d, n)
  BY <1>2 DEF FirstAfter
<1>9. \A c, d : FirstAfter(d, c)' <=> FirstAfter(d, c)
  BY DEF FirstAfter
<1> QED
  BY <1>2, <1>3, <1>7, <1>8, <1>9, SupersededFlow DEF FlowInv

\* A call that ends leaves none that counts, or the machine as it was.
LEMMA EndedFlow ==
    ASSUME AuthTypeOK, EpochInv, FlowInv, NEW c \in calls, Finish(c), UNCHANGED disposed,
           Current(c) \/ UNCHANGED machine
    PROVE  FlowInv'
<1>1. calls' = calls \ {c}
  BY DEF Finish
<1>2. ASSUME c.later = {}, NEW d \in calls \ {c} PROVE d.later # {}
  <2>1. c.turn \in Nat /\ d.turn \in Nat /\ c.turn # d.turn /\ ~(c.turn < d.turn)
    BY <1>2 DEF AuthTypeOK, Call, EpochInv, Ordered
  <2> QED
    BY <2>1 DEF EpochInv, Ordered
<1>3. \A d, e : FirstAfter(d, e)' <=> FirstAfter(d, e)
  BY DEF FirstAfter
<1>4. CASE c.later = {}
  BY <1>1, <1>2, <1>3, <1>4 DEF FlowInv
<1>5. CASE UNCHANGED machine
  BY <1>1, <1>3, <1>5 DEF FlowInv, machine
<1> QED
  BY <1>4, <1>5, CurrentIsLast

\* A failed sign-out: the flow it was the first after is the last now, and is back as the
\* sign-out found it.
LEMMA GivesBackFlow ==
    ASSUME AuthTypeOK, EpochInv, FlowInv, NEW c \in calls, GivesBack(c),
           UNCHANGED disposed, disposed \/ RESTORE(c.back)
    PROVE  FlowInv'
<1> DEFINE R(d) == [d EXCEPT !.later = @ \ {c.turn}]
<1>1. c.later = {} /\ c.op = "signOut" /\ ~disposed
  BY CurrentIsLast DEF GivesBack, RollBack, FlowInv
<1>2. status' = c.back.status /\ attempt' = c.back.attempt
  BY <1>1 DEF RESTORE, Enter
<1>3. ASSUME NEW d \in calls \ {c}
      PROVE  /\ R(d).op = d.op /\ R(d).turn = d.turn
             /\ R(d).back = d.back /\ R(d).later = d.later \ {c.turn}
             /\ c.turn \in d.later /\ c.turn \in Nat /\ d.turn \in Nat /\ d.turn < c.turn
             /\ d.later \subseteq Nat
  <2>1. c.turn \in Nat /\ d.turn \in Nat /\ d.later \subseteq Nat
    BY DEF AuthTypeOK, Call
  <2>2. c.turn # d.turn /\ ~(c.turn < d.turn)
    BY <1>1 DEF EpochInv, Ordered
  <2>3. c.turn \in d.later /\ d.turn < c.turn
    BY <2>1, <2>2 DEF EpochInv, Ordered
  <2> QED
    BY <2>1, <2>3 DEF AuthTypeOK, Call
<1>4. calls' = {R(d) : d \in calls \ {c}}
  BY DEF GivesBack, RollBack
<1> HIDE DEF R
<1>5. ASSUME NEW d \in calls \ {c}, d.op = "google", R(d).later = {}, c.back.status = "signingIn"
      PROVE  c.back.attempt = "external"
  <2>1. FirstAfter(c, d)
    BY <1>3, <1>5 DEF FirstAfter
  <2> QED
    BY <1>1, <1>5, <2>1 DEF FlowInv
<1>6. ASSUME NEW d \in calls \ {c}, NEW e \in calls \ {c}, FirstAfter(R(e), R(d))
      PROVE  FirstAfter(e, d)
  BY <1>3, <1>6 DEF FirstAfter
<1>7. \A d, e : FirstAfter(d, e)' <=> FirstAfter(d, e)
  BY DEF FirstAfter
<1> QED
  BY <1>1, <1>2, <1>3, <1>4, <1>5, <1>6, <1>7 DEF FlowInv

\* Every step keeps it.
LEMMA FlowStep ==
    ASSUME AuthInv, FlowInv, [AuthNext]_authVars
    PROVE  FlowInv'
<1>1. AuthTypeOK /\ EpochInv
  BY DEF AuthInv
<1>2. ASSUME NEW op \in SignInOp, SignIn(op) PROVE FlowInv'
  <2>1. Start(op, NoPoint) /\ ~disposed' /\ op # "signOut"
    BY <1>2 DEF SignIn, MayStart, SignInOp
  <2>2. op = "google" => attempt' = "external"
    BY <1>2 DEF SignIn, SIGN_IN_START
  <2> QED
    BY <1>1, <2>1, <2>2, StartFlow
<1>3. CASE SignOut
  BY <1>1, <1>3, StartFlow DEF SignOut, MayStart
<1>4. CASE Refresh
  BY <1>1, <1>4, StartFlow DEF Refresh, MayStart
<1>5. CASE ForceLocalSignOut \/ Ends \/ Dispose
  BY <1>1, <1>5, FenceFlow DEF ForceLocalSignOut, Ends, Dispose
<1>6. ASSUME NEW c \in calls, Settle(c) PROVE FlowInv'
  <2>1. CASE SettleSignIn(c) \/ SettleBootstrap(c) \/ SettleRefresh(c) \/ SignOutDone(c)
    BY <1>1, <2>1, EndedFlow
       DEF SettleSignIn, SettleBootstrap, SettleRefresh, SignOutDone, Ignore
  <2>2. CASE SignOutFailed(c) /\ Current(c)
    BY <1>1, <2>2, GivesBackFlow DEF SignOutFailed, GivesBack, RollBack, Ignore
  <2>3. CASE SignOutFailed(c) /\ ~Current(c)
    BY <1>1, <2>3, EndedFlow DEF SignOutFailed, Ignore
  <2> QED
    BY <1>6, <2>1, <2>2, <2>3 DEF Settle
<1>7. ASSUME NEW u \in User, NEW refreshed \in BOOLEAN, AdapterAuthenticated(u, refreshed)
      PROVE  FlowInv'
  BY <1>7, QuietFlow DEF AdapterAuthenticated, AUTHENTICATED, Enter
<1>8. CASE AdapterExpired
  BY <1>5, <1>8, QuietFlow DEF AdapterExpired, EXPIRED, Enter, Stay
<1>9. CASE UNCHANGED authVars
  BY <1>9, QuietFlow DEF authVars, machine
<1> QED
  BY <1>2, <1>3, <1>4, <1>5, <1>6, <1>7, <1>8, <1>9 DEF AuthNext, CancelSignIn, AdapterSignedOut

\* A call that ends strands a status only if it is one of those it waits for, and current.
LEMMA EndedStrands ==
    ASSUME NEW c \in calls, Finish(c), UNCHANGED disposed, ~Stranded, Stranded',
           WaitsFor' = {} \/ WaitsFor' = WaitsFor
    PROVE  Current(c) /\ c.op \in WaitsFor
<1>1. calls' = calls \ {c} /\ epoch' = epoch
  BY DEF Finish
<1>2. \A d : Current(d)' <=> Current(d)
  BY <1>1 DEF Current
<1> QED
  BY <1>1, <1>2 DEF Stranded

\* A status comes to wait for a result that will not count only by a failed sign-out, which
\* puts it back, or by a refresh or a callback link, which take the turn of what it awaits:
\* no settlement, report, sign-in or fence leaves it so.
THEOREM StrandedOnly == AuthSpec => StrandedOnlyBy
<1> DEFINE Cause == \/ \E c \in calls : Settles(c) /\ c.op = "signOut"
                    \/ \E c \in calls' : c.turn = turn' /\ c.op \in {"refresh", "complete"}
<1>1. ASSUME AuthInv, FlowInv, [AuthNext]_authVars, ~Stranded, Stranded'
      PROVE  Cause
  <2>1. AuthTypeOK /\ EpochInv /\ WaitsFor' # {} /\ ~disposed'
    BY <1>1 DEF AuthInv, Stranded
  <2>2. status' \in {"bootstrapping", "refreshing"} \/ (status' = "signingIn" /\ attempt' # "outsideApp")
    BY <2>1 DEF WaitsFor
  <2>3. ASSUME NEW op, NEW back, Start(op, back)
        PROVE  \E n \in calls' : n.turn = turn' /\ n.op = op /\ Current(n)'
    <3>1. /\ NewCall(op, turn + 1, epoch + 1, back) \in calls'
          /\ turn' = turn + 1 /\ epoch' = epoch + 1
      BY <2>3 DEF Start
    <3> QED
      BY <3>1 DEF NewCall, Current
  <2>4. ASSUME NEW op \in SignInOp, SignIn(op) PROVE Cause
    <3>1. CASE op = "complete"
      BY <2>3, <2>4, <3>1 DEF SignIn
    <3>2. CASE op # "complete"
      <4>1. status' = "signingIn" /\ attempt' \in {"inCall", "external"}
        BY <2>1, <2>4, <3>2 DEF SignIn, Gate, SIGN_IN_START, Enter, Stay, AuthTypeOK, Status
      <4>2. WaitsFor' = SignInOp
        BY <4>1 DEF WaitsFor
      <4>3. \E n \in calls' : n.op = op /\ Current(n)'
        BY <2>3, <2>4 DEF SignIn
      <4> QED
        BY <1>1, <4>2, <4>3 DEF Stranded
    <3> QED
      BY <3>1, <3>2
  <2>5. CASE Refresh
    BY <2>3, <2>5 DEF Refresh
  <2>6. ~SIGN_OUT(FALSE) /\ ~SIGN_OUT(TRUE) /\ \A u : ~AUTHENTICATED(u)
    BY <2>2 DEF SIGN_OUT, AUTHENTICATED, Enter
  <2>7. ASSUME NEW c \in calls, SettleSignIn(c) PROVE Cause
    <3>1. Finish(c) /\ UNCHANGED disposed /\ c.op \in SignInOp
      BY <2>7 DEF SettleSignIn
    <3>2. WaitsFor' = WaitsFor
      <4>1. CASE UNCHANGED machine
        BY <4>1 DEF WaitsFor, machine
      <4>2. CASE SignInOutcome(c.op)
        <5>1. CASE SIGN_IN_LEFT_APP
          BY <2>2, <5>1 DEF SIGN_IN_LEFT_APP, WaitsFor
        <5>2. CASE SIGN_IN_FAILURE \/ \E u \in User : SIGN_IN_SUCCESS(u)
          BY <2>2, <5>2 DEF SIGN_IN_FAILURE, SIGN_IN_SUCCESS, Enter, Stay, WaitsFor
        <5> QED
          BY <2>6, <4>2, <5>1, <5>2 DEF SignInOutcome
      <4> QED
        BY <2>7, <4>1, <4>2 DEF SettleSignIn, Ignore
    <3>3. Current(c) /\ c.op \in WaitsFor
      BY <1>1, <3>1, <3>2, EndedStrands
    <3>4. status = "signingIn" /\ attempt # "outsideApp" /\ ~disposed
      BY <2>1, <3>1, <3>3 DEF WaitsFor, SignInOp
    <3>5. c.op = "google" => attempt = "external"
      BY <1>1, <2>1, <3>3, <3>4, CurrentIsLast DEF FlowInv
    <3>6. status' \in {"authenticated", "failed", "signedOut"} \/ attempt' = "outsideApp"
      BY <2>7, <3>3, <3>4, <3>5
         DEF SettleSignIn, SignInOutcome, SIGN_IN_FAILURE, SIGN_IN_SUCCESS, SIGN_OUT,
             SIGN_IN_LEFT_APP, Enter
    <3>7. status' \notin {"bootstrapping", "refreshing"}
      BY <2>7, <3>3, <3>4
         DEF SettleSignIn, SignInOutcome, SIGN_IN_FAILURE, SIGN_IN_SUCCESS, SIGN_OUT,
             SIGN_IN_LEFT_APP, Enter
    <3> QED
      BY <2>2, <3>6, <3>7
  <2>8. ASSUME NEW c \in calls, SettleBootstrap(c) PROVE Cause
    <3>1. Finish(c) /\ UNCHANGED disposed /\ c.op = "bootstrap"
      BY <2>8 DEF SettleBootstrap
    <3>2. CASE UNCHANGED machine
      <4>1. WaitsFor' = WaitsFor
        BY <3>2 DEF WaitsFor, machine
      <4>2. Current(c) /\ status = "bootstrapping"
        BY <1>1, <3>1, <4>1, EndedStrands DEF WaitsFor, SignInOp
      <4> QED
        BY <2>1, <2>2, <2>8, <3>1, <3>2, <4>2
           DEF SettleBootstrap, BOOTSTRAP_FAILURE, BOOTSTRAP_DONE, Enter, machine
    <3>3. CASE BOOTSTRAP_FAILURE \/ \E u \in User \cup {NoUser} : BOOTSTRAP_DONE(u)
      <4>1. status # "bootstrapping" /\ WaitsFor' = WaitsFor
        BY <2>2, <3>3 DEF BOOTSTRAP_FAILURE, BOOTSTRAP_DONE, Enter, Stay, WaitsFor
      <4> QED
        BY <1>1, <3>1, <4>1, EndedStrands DEF WaitsFor, SignInOp
    <3> QED
      BY <2>8, <3>2, <3>3 DEF SettleBootstrap, Ignore
  <2>9. ASSUME NEW c \in calls, SettleRefresh(c) PROVE Cause
    <3>1. Finish(c) /\ UNCHANGED disposed /\ c.op = "refresh"
      BY <2>9 DEF SettleRefresh
    <3>2. CASE UNCHANGED machine
      <4>1. WaitsFor' = WaitsFor
        BY <3>2 DEF WaitsFor, machine
      <4>2. Current(c) /\ status = "refreshing"
        BY <1>1, <3>1, <4>1, EndedStrands DEF WaitsFor, SignInOp
      <4> QED
        BY <2>1, <2>2, <2>9, <3>1, <3>2, <4>2
           DEF SettleRefresh, REFRESH_FAILURE, REFRESH_SUCCESS, Enter, machine
    <3>3. CASE REFRESH_FAILURE \/ \E u \in User : REFRESH_SUCCESS(u)
      <4>1. status # "refreshing" /\ WaitsFor' = WaitsFor
        BY <2>2, <3>3 DEF REFRESH_FAILURE, REFRESH_SUCCESS, Enter, Stay, WaitsFor
      <4> QED
        BY <1>1, <3>1, <4>1, EndedStrands DEF WaitsFor, SignInOp
    <3> QED
      BY <2>9, <3>2, <3>3 DEF SettleRefresh, Ignore
  <2>10. ASSUME NEW c \in calls, SignOutDone(c) \/ SignOutFailed(c) PROVE Cause
    <3>1. c.op = "signOut" /\ (Ended(c) \/ GivesBack(c))
      BY <2>1, <2>10, SettleStep DEF SignOutDone, SignOutFailed, Settle
    <3>2. \A d \in calls \ {c} : /\ [d EXCEPT !.later = @ \ {c.turn}].turn = d.turn
                                 /\ d.turn # c.turn
      BY <2>1 DEF AuthTypeOK, Call, EpochInv, Ordered
    <3>3. Settles(c)
      BY <3>1, <3>2 DEF Ended, Finish, GivesBack, RollBack, Settles
    <3> QED
      BY <3>1, <3>3
  <2>11. CASE AdapterExpired
    <3>1. EXPIRED /\ UNCHANGED <<epoch, calls, disposed>>
      BY <2>6, <2>11 DEF AdapterExpired, Ends
    <3>2. WaitsFor' = WaitsFor /\ \A d : Current(d)' <=> Current(d)
      BY <2>2, <3>1 DEF EXPIRED, Enter, Stay, WaitsFor, Current
    <3> QED
      BY <1>1, <3>1, <3>2 DEF Stranded
  <2>12. CASE UNCHANGED authVars
    <3>1. WaitsFor' = WaitsFor /\ \A d : Current(d)' <=> Current(d)
      BY <2>12 DEF authVars, machine, WaitsFor, Current
    <3> QED
      BY <1>1, <2>12, <3>1 DEF Stranded, authVars
  <2>13. CASE Dispose
    BY <2>1, <2>13 DEF Dispose
  <2> QED
    BY <1>1, <2>4, <2>5, <2>6, <2>7, <2>8, <2>9, <2>10, <2>11, <2>12, <2>13
       DEF AuthNext, Settle, CancelSignIn, AdapterSignedOut, Ends, ForceLocalSignOut, SignOut,
           AdapterAuthenticated
<1>2. AuthInv /\ FlowInv /\ [AuthNext]_authVars => [~Stranded /\ Stranded' => Cause]_authVars
  BY <1>1
<1>3. AuthInit => FlowInv
  BY DEF AuthInit, FlowInv, NewCall, FirstAfter
<1> QED
  BY <1>2, <1>3, FlowStep, InitInv, InvStep, PTL DEF AuthSpec, StrandedOnlyBy
=============================================================================
