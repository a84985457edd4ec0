--------------------------- MODULE AccountProofs ---------------------------
(***************************************************************************)
(* The account: how it is withdrawn, restored and swept, for any number of *)
(* requests, workers and legs, and what its universe wears, for every      *)
(* catalog, every number of saves and every starting balance.  The two     *)
(* parts share no state.                                                   *)
(***************************************************************************)
EXTENDS Withdrawal, Decoration, FiniteSetTheorems, TLAPS

(***************************************************************************)
(* Withdrawal: the types, the order of the sweep, what restore and sweep   *)
(* leave each other, and the generation fence of the status cache.         *)
(***************************************************************************)

\* How far a worker is, and what is deleted by then.
Reached(w) ==
    /\ work[w].pc = "claim" => work[w].leg = 1
    /\ work[w].pc = "purge" =>
          work[w].leg <= Legs /\ \A i \in 1..Legs : i < work[w].leg => i \in purged
    /\ work[w].pc \in {"ban", "delete", "last"} => purged = 1..Legs
    /\ work[w].pc = "last" => credential = "deleted"

SweepInv == (\A w \in Worker : Reached(w)) /\ MarkerGoesLast

----------------------------------------------------------------------------
(* Types *)

\* The initial state satisfies the types and the order of the sweep.
LEMMA InitInv == Init => TypeOK /\ SweepInv
  BY WithdrawalAssumption
  DEF Init, TypeOK, SweepInv, Reached, MarkerGoesLast, Row, Reading, Turn, NoRow, NoCall, NoWork

\* The beginnings of records are records of their types.
LEMMA NoType ==
    /\ NoCall \in Reading
    /\ [NoCall EXCEPT !.pc = "find"] \in Reading
    /\ NoWork \in Turn
    /\ \A id \in Nat : NoRow(id) \in Row
  BY WithdrawalAssumption DEF NoCall, NoWork, NoRow, Reading, Turn, Row

\* A request keeps what it has read typed.
LEMMA CallType ==
    ASSUME TypeOK, NEW c \in Caller, Request(c) PROVE call' \in [Caller -> Reading]
<1>1. /\ call \in [Caller -> Reading] /\ call[c] \in Reading
      /\ now \in Nat /\ version \in Nat /\ marker \in Nat \cup {Live, Gone}
  BY DEF TypeOK
<1>2. CASE call' = [call EXCEPT ![c] = NoCall]
  BY <1>1, <1>2, NoType
<1>3. CASE call' = [call EXCEPT ![c] = [NoCall EXCEPT !.pc = "find"]]
  BY <1>1, <1>3, NoType
<1>4. ASSUME NEW pc \in {"look", "cancel", "forget", "mark"}, call' = [call EXCEPT ![c].pc = pc]
      PROVE  call' \in [Caller -> Reading]
  <2>1. [call[c] EXCEPT !.pc = pc] \in Reading
    BY <1>1 DEF Reading
  <2> QED
    BY <1>1, <1>4, <2>1
<1>5. ASSUME NEW pc \in {"schedule", "clear"}, call' = [call EXCEPT ![c].pc = pc, ![c].at = now]
      PROVE  call' \in [Caller -> Reading]
  <2>1. [call[c] EXCEPT !.pc = pc, !.at = now] \in Reading
    BY <1>1 DEF Reading
  <2> QED
    BY <1>1, <1>5, <2>1
<1>6. CASE call' = [call EXCEPT ![c].pc = "ask", ![c].version = version]
  <2>1. [call[c] EXCEPT !.pc = "ask", !.version = version] \in Reading
    BY <1>1 DEF Reading
  <2> QED
    BY <1>1, <1>6, <2>1
<1>7. ASSUME NEW pc \in {"store", "publish"}, NEW s \in Nat \cup {Live},
             call' = [call EXCEPT ![c].pc = pc, ![c].seen = s]
      PROVE  call' \in [Caller -> Reading]
  <2>1. [call[c] EXCEPT !.pc = pc, !.seen = s] \in Reading
    BY <1>1 DEF Reading
  <2> QED
    BY <1>1, <1>7, <2>1
<1>8. CASE Ask(c)
  <2>1. (IF Marked THEN marker ELSE Live) \in Nat \cup {Live}
    BY DEF Marked
  <2> QED
    BY <1>7, <1>8, <2>1 DEF Ask
<1>9. CASE Mark(c)
  <2>1. CASE marker = Gone
    BY <1>2, <1>9, <2>1 DEF Mark, Return
  <2>2. CASE marker # Gone
    <3>1. call' = [call EXCEPT ![c].pc = "publish", ![c].seen = marker']
      BY <1>9, <2>2 DEF Mark
    <3>2. marker' \in Nat \cup {Live}
      BY <1>1, <1>9, <2>2 DEF Mark, Marked, Reading
    <3> QED
      BY <1>7, <3>1, <3>2
  <2> QED
    BY <2>1, <2>2
<1>10. CASE Look(c) \/ Store(c)
  BY <1>2, <1>3, <1>4, <1>6, <1>10 DEF Look, Store, Admit, Return, Goto
<1>11. CASE BeginWithdraw(c) \/ Schedule(c) \/ Invalidate(c) \/ Clear(c)
  BY <1>2, <1>4, <1>11 DEF BeginWithdraw, Schedule, Invalidate, Clear, Goto, Return
<1>12. CASE Find(c) \/ BeginRestore(c)
  BY <1>2, <1>5, <1>12 DEF Find, BeginRestore, Return
<1>13. CASE Publish(c) \/ Cancel(c) \/ Abort(c)
  BY <1>2, <1>13 DEF Publish, Cancel, Abort, Return
<1> QED
  BY <1>8, <1>9, <1>10, <1>11, <1>12, <1>13, Request(c) DEF Request

\* A worker keeps what it holds typed; a leg past the last one would not.
LEMMA TurnType ==
    ASSUME TypeOK, SweepInv, NEW w \in Worker, Sweep(w) PROVE work' \in [Worker -> Turn]
<1>1. work \in [Worker -> Turn] /\ work[w] \in Turn /\ now \in Nat /\ job \in Row
  BY DEF TypeOK
<1>2. CASE work' = [work EXCEPT ![w] = NoWork]
  BY <1>1, <1>2, NoType
<1>3. ASSUME NEW pc \in {"done", "purge", "delete", "last"}, work' = [work EXCEPT ![w].pc = pc]
      PROVE  work' \in [Worker -> Turn]
  <2>1. [work[w] EXCEPT !.pc = pc] \in Turn
    BY <1>1 DEF Turn
  <2> QED
    BY <1>1, <1>3, <2>1
<1>4. CASE Claim(w)
  <2>1. job.id \in Nat /\ job.gen + 1 \in Nat /\ 1 \in 1..(Legs + 1)
    BY <1>1, WithdrawalAssumption DEF Row
  <2>2. [NoWork EXCEPT !.pc = "claim", !.id = job.id, !.gen = job.gen + 1, !.at = now] \in Turn
    BY <1>1, <2>1 DEF NoWork, Turn
  <2> QED
    BY <1>1, <1>4, <2>2 DEF Claim
<1>5. CASE ClaimSweep(w)
  <2>1. ASSUME Marked PROVE [work[w] EXCEPT !.pc = "later", !.at = Deadline(marker)] \in Turn
    <3>1. Deadline(marker) \in Nat
      BY <2>1, WithdrawalAssumption DEF Marked, Deadline
    <3> QED
      BY <1>1, <3>1 DEF Turn
  <2>2. CASE Marked /\ ~DueAt(work[w].at)
    <3>1. work' = [work EXCEPT ![w].pc = "later", ![w].at = Deadline(marker)]
      BY <1>5, <2>2 DEF ClaimSweep
    <3> QED
      BY <1>1, <2>1, <2>2, <3>1
  <2> QED
    BY <1>3, <1>5, <2>2 DEF ClaimSweep, Step
<1>6. CASE PurgeLeg(w)
  <2> DEFINE pc == IF IsLast(work[w].leg) THEN "ban" ELSE "purge"
  <2>1. work[w].leg \in 1..Legs
    BY <1>1, <1>6, WithdrawalAssumption DEF PurgeLeg, SweepInv, Reached, Turn
  <2>2. [work[w] EXCEPT !.leg = work[w].leg + 1, !.pc = pc] \in Turn
    <3>1. work[w].leg + 1 \in 1..(Legs + 1)
      BY <2>1, WithdrawalAssumption
    <3>2. pc \in {"ban", "purge"}
      OBVIOUS
    <3> QED
      BY <1>1, <3>1, <3>2 DEF Turn
  <2>3. work' = [work EXCEPT ![w].leg = work[w].leg + 1, ![w].pc = pc]
    BY <1>6 DEF PurgeLeg
  <2> QED
    BY <1>1, <2>2, <2>3
<1>7. CASE Later(w) \/ Complete(w) \/ Fail(w) \/ Die(w)
  BY <1>2, <1>7 DEF Later, Complete, Fail, Die, Rest
<1>8. CASE Ban(w) \/ DeleteCredential(w) \/ PurgeMarker(w)
  BY <1>3, <1>8 DEF Ban, DeleteCredential, PurgeMarker, Step
<1> QED
  BY <1>4, <1>5, <1>6, <1>7, <1>8, Sweep(w) DEF Sweep

\* A request keeps the types of everything else.
LEMMA TypeOfRequest ==
    ASSUME TypeOK, NEW c \in Caller, Request(c) PROVE TypeOK'
<1>1. call' \in [Caller -> Reading]
  BY CallType
<1>2. call[c] \in Reading /\ job \in Row
  BY DEF TypeOK
<1>3. marker' \in Nat \cup {Live, Gone} /\ word' \in {"none", "withdrawn", "restored"}
  BY <1>2
  DEF TypeOK, Reading, Request, BeginWithdraw, Look, Ask, Store, Find, Schedule, Mark, Marked,
      Publish, BeginRestore, Clear, Invalidate, Cancel, Abort, account
<1>4. cache' \in Nat \cup {Live, Unknown} /\ version' \in Nat
  BY <1>2
  DEF TypeOK, Reading, Request, BeginWithdraw, Look, Ask, Store, Find, Schedule, Mark,
      Publish, BeginRestore, Clear, Invalidate, Cancel, Abort, gate
<1>5. job' \in Row
  <2>1. CASE Schedule(c)
    BY <1>2, <2>1, WithdrawalAssumption DEF Schedule, Deadline, Row, Reading
  <2>2. CASE Cancel(c)
    BY <1>2, <2>2, NoType DEF Cancel, Row
  <2> QED
    BY <1>2, <2>1, <2>2
    DEF Request, BeginWithdraw, Look, Ask, Store, Find, Mark, Publish, BeginRestore, Clear,
        Invalidate, Abort
<1>6. UNCHANGED <<now, purged, credential, work>> /\ asked' \in Nat
  BY DEF TypeOK, Request, BeginWithdraw, Look, Ask, Store, Find, Schedule, Mark,
      Publish, BeginRestore, Clear, Invalidate, Cancel, Abort, account
<1> QED
  BY <1>1, <1>3, <1>4, <1>5, <1>6 DEF TypeOK

\* A worker keeps the types of everything else.
LEMMA TypeOfSweep ==
    ASSUME TypeOK, SweepInv, NEW w \in Worker, Sweep(w) PROVE TypeOK'
<1>1. work' \in [Worker -> Turn]
  BY TurnType
<1>2. work[w] \in Turn /\ job \in Row /\ now \in Nat
  BY DEF TypeOK
<1>3. job' \in Row
  <2>1. CASE Claim(w)
    <3>1. job.gen + 1 \in Nat /\ now + Lease \in Nat
      BY <1>2, WithdrawalAssumption DEF Row
    <3>2. job' = [job EXCEPT !.status = "running", !.at = now + Lease, !.gen = job.gen + 1]
      BY <2>1 DEF Claim
    <3> QED
      BY <1>2, <3>1, <3>2 DEF Row
  <2>2. CASE Later(w) \/ Fail(w)
    <3>1. PICK at \in Nat : PutBack(w, at)
      BY <1>2, <2>2 DEF Later, Fail, Turn
    <3> QED
      BY <1>2, <3>1 DEF PutBack, Row
  <2>3. CASE PurgeLeg(w)
    BY <1>2, <2>3, NoType DEF PurgeLeg, Row
  <2>4. CASE Complete(w)
    BY <1>2, <2>4 DEF Complete, Row
  <2> QED
    BY <1>2, <2>1, <2>2, <2>3, <2>4, Sweep(w)
    DEF Sweep, ClaimSweep, Ban, DeleteCredential, PurgeMarker, Die
<1>4. purged' \subseteq 1..Legs
  <2>1. CASE PurgeLeg(w)
    <3>1. work[w].leg \in 1..Legs
      BY <1>2, <2>1, WithdrawalAssumption DEF PurgeLeg, SweepInv, Reached, Turn
    <3> QED
      BY <2>1, <3>1 DEF PurgeLeg, TypeOK
  <2> QED
    BY <2>1, Sweep(w)
    DEF TypeOK, Sweep, Claim, ClaimSweep, Later, Ban, DeleteCredential, PurgeMarker, Complete,
        Fail, Die, account
<1>5. /\ marker' \in Nat \cup {Live, Gone}
      /\ credential' \in {"usable", "banned", "deleted"}
      /\ UNCHANGED <<now, gate, call, asked, word>>
  BY Sweep(w)
  DEF TypeOK, Sweep, Claim, ClaimSweep, Later, PurgeLeg, Ban, DeleteCredential, PurgeMarker,
      Complete, Fail, Die, account
<1> QED
  BY <1>1, <1>3, <1>4, <1>5 DEF TypeOK, gate

\* Every step keeps the types.
LEMMA TypeStep == ASSUME TypeOK, SweepInv, [Next]_vars PROVE TypeOK'
<1>1. CASE Forget \/ CleanUp \/ Crash \/ Tick
  <2>1. job' \in Row
    BY <1>1, NoType DEF Forget, CleanUp, Crash, Tick, TypeOK, Row
  <2>2. call' \in [Caller -> Reading]
    BY <1>1, NoType DEF Forget, CleanUp, Crash, Tick, TypeOK
  <2>3. now' \in Nat /\ cache' \in Nat \cup {Live, Unknown} /\ version' \in Nat
    BY <1>1 DEF Forget, CleanUp, Crash, Tick, TypeOK, gate
  <2>4. UNCHANGED <<account, work, asked, word>>
    BY <1>1 DEF Forget, CleanUp, Crash, Tick
  <2> QED
    BY <2>1, <2>2, <2>3, <2>4 DEF TypeOK, account
<1>2. CASE UNCHANGED vars
  BY <1>2 DEF TypeOK, vars, account, gate
<1> QED
  BY <1>1, <1>2, TypeOfRequest, TypeOfSweep DEF Next

----------------------------------------------------------------------------
(* The order of the sweep *)

\* A request deletes nothing and moves no worker; its mark is on a row that is
\* there.
LEMMA RequestFrame ==
    ASSUME TypeOK, NEW c \in Caller, Request(c)
    PROVE  /\ UNCHANGED <<purged, credential, work, now>>
           /\ marker' = Gone => marker = Gone
<1>1. call[c].at \in Nat
  BY DEF TypeOK, Reading
<1> QED
  BY <1>1, WithdrawalAssumption
  DEF Request, BeginWithdraw, Look, Ask, Store, Find, Schedule, Mark, Marked, Publish,
      BeginRestore, Clear, Invalidate, Cancel, Abort, account

\* Deleting more keeps the other workers where they are.
LEMMA Elsewhere ==
    ASSUME TypeOK, SweepInv, NEW w \in Worker,
           \A v \in Worker \ {w} : work'[v] = work[v],
           purged \subseteq purged', purged' \subseteq 1..Legs,
           credential = "deleted" => credential' = "deleted",
           Reached(w)', MarkerGoesLast'
    PROVE  SweepInv'
<1>1. ASSUME NEW v \in Worker \ {w} PROVE Reached(v)'
  BY <1>1 DEF SweepInv, Reached
<1> QED
  BY <1>1 DEF SweepInv

\* A worker is only where its steps have led, and what is deleted stays so.
LEMMA SweepStep == ASSUME TypeOK, SweepInv, [Next]_vars PROVE SweepInv'
<1>1. ASSUME NEW c \in Caller, Request(c) PROVE SweepInv'
  BY <1>1, RequestFrame DEF SweepInv, Reached, MarkerGoesLast
<1>2. ASSUME NEW w \in Worker, Sweep(w) PROVE SweepInv'
  <2>1. /\ work \in [Worker -> Turn] /\ work[w] \in Turn /\ purged \subseteq 1..Legs
        /\ Reached(w) /\ MarkerGoesLast /\ Legs \in Nat
    BY WithdrawalAssumption DEF TypeOK, SweepInv
  <2>2. \A v \in Worker \ {w} : work'[v] = work[v]
    BY <1>2, <2>1
    DEF Sweep, Claim, ClaimSweep, Later, PurgeLeg, Ban, DeleteCredential, PurgeMarker, Complete,
        Fail, Die, Rest, Step
  <2>3. CASE Claim(w) \/ Later(w) \/ Complete(w) \/ Fail(w) \/ Die(w)
    <3>1. UNCHANGED account /\ work'[w].pc \in {"claim", "idle"} /\ work'[w].leg = 1
      <4>1. UNCHANGED account
        BY <2>3 DEF Claim, Later, Complete, Fail, Die
      <4>2. CASE Claim(w)
        BY <2>1, <4>1, <4>2 DEF Claim, NoWork
      <4>3. CASE ~Claim(w)
        BY <2>1, <2>3, <4>1, <4>3 DEF Later, Complete, Fail, Die, Rest, NoWork
      <4> QED
        BY <4>2, <4>3
    <3>2. Reached(w)' /\ MarkerGoesLast'
      BY <2>1, <3>1 DEF Reached, MarkerGoesLast, account
    <3> QED
      BY <2>1, <2>2, <3>1, <3>2, Elsewhere DEF account
  <2>4. CASE ClaimSweep(w)
    <3>1. UNCHANGED account /\ work'[w].pc \in {"done", "purge", "later"} /\ work'[w].leg = 1
      <4>1. work[w].leg = 1
        BY <2>1, <2>4 DEF ClaimSweep, Reached
      <4>2. \/ \E pc \in {"done", "purge"} : work' = [work EXCEPT ![w].pc = pc]
            \/ work' = [work EXCEPT ![w].pc = "later", ![w].at = Deadline(marker)]
        BY <2>4 DEF ClaimSweep, Step
      <4>3. work'[w].pc \in {"done", "purge", "later"} /\ work'[w].leg = work[w].leg
        BY <2>1, <4>2 DEF Turn
      <4> QED
        BY <2>4, <4>1, <4>3 DEF ClaimSweep
    <3>2. Reached(w)' /\ MarkerGoesLast'
      BY <2>1, <3>1, WithdrawalAssumption DEF Reached, MarkerGoesLast, account
    <3> QED
      BY <2>1, <2>2, <3>1, <3>2, Elsewhere DEF account
  <2>5. CASE PurgeLeg(w)
    <3> DEFINE leg == work[w].leg
    <3>1. leg \in 1..Legs /\ \A i \in 1..Legs : i < leg => i \in purged
      BY <2>1, <2>5, WithdrawalAssumption DEF PurgeLeg, Reached, Turn
    <3>2. /\ purged' = purged \cup {leg} /\ UNCHANGED <<marker, credential>>
          /\ work'[w].leg = leg + 1
          /\ work'[w].pc = IF leg = Legs THEN "ban" ELSE "purge"
      BY <2>1, <2>5 DEF PurgeLeg, Turn, IsLast
    <3>3. \A i \in 1..Legs : i < leg + 1 => i \in purged'
      BY <3>1, <3>2, <2>1
    <3>4. Reached(w)'
      <4>1. CASE leg = Legs
        <5>1. \A i \in 1..Legs : i \in purged'
          BY <2>1, <3>3, <4>1
        <5>2. purged' \subseteq 1..Legs
          BY <2>1, <3>1, <3>2
        <5>3. purged' = 1..Legs
          BY <5>1, <5>2
        <5> QED
          BY <3>2, <4>1, <5>3 DEF Reached
      <4>2. CASE leg # Legs
        BY <2>1, <3>1, <3>2, <3>3, <4>2 DEF Reached
      <4> QED
        BY <4>1, <4>2
    <3>5. MarkerGoesLast'
      BY <2>1, <3>1, <3>2 DEF MarkerGoesLast
    <3> QED
      BY <2>1, <2>2, <3>1, <3>2, <3>4, <3>5, Elsewhere
  <2>6. CASE Ban(w) \/ DeleteCredential(w) \/ PurgeMarker(w)
    <3>1. /\ UNCHANGED purged /\ purged = 1..Legs
          /\ credential = "deleted" => credential' = "deleted"
          /\ marker' = Gone => credential' = "deleted"
          /\ \/ work'[w].pc = "delete"
             \/ work'[w].pc = "last" /\ credential' = "deleted"
             \/ work'[w].pc = "done"
      BY <2>1, <2>6
      DEF Ban, DeleteCredential, PurgeMarker, Step, Reached, Turn, MarkerGoesLast
    <3>2. Reached(w)' /\ MarkerGoesLast'
      BY <3>1 DEF Reached, MarkerGoesLast
    <3> QED
      BY <2>1, <2>2, <3>1, <3>2, Elsewhere
  <2> QED
    BY <1>2, <2>3, <2>4, <2>5, <2>6 DEF Sweep
<1>3. CASE Forget \/ CleanUp \/ Crash \/ Tick
  BY <1>3 DEF Forget, CleanUp, Crash, Tick, account, SweepInv, Reached, MarkerGoesLast
<1>4. CASE UNCHANGED vars
  BY <1>4 DEF vars, account, SweepInv, Reached, MarkerGoesLast
<1> QED
  BY <1>1, <1>2, <1>3, <1>4 DEF Next

\* The types and the order of the sweep hold throughout.
LEMMA Safe == Spec => [](TypeOK /\ SweepInv)
  BY InitInv, TypeStep, SweepStep, PTL DEF Spec

\* The account, its job, the cache and what requests and workers hold stay well
\* formed; no worker goes past the last leg.
THEOREM TypeCorrect == Spec => []TypeOK
  BY Safe, PTL

\* An account without a users row has lost every leg and its credential.
THEOREM MarkerLast == Spec => []MarkerGoesLast
<1>1. SweepInv => MarkerGoesLast
  BY DEF SweepInv
<1> QED
  BY <1>1, Safe, PTL

----------------------------------------------------------------------------
(* Restore and sweep *)

\* A restore still within its budget read its clock at the deadline or later; one
\* that has used it up can no longer write.
LEMMA FinalStep ==
    ASSUME TypeOK, Final, [Next]_vars PROVE Final'
<1> USE WithdrawalAssumption DEF Final, Marked, Deadline, TypeOK
<1>1. ASSUME NEW c \in Caller, Request(c) PROVE Final'
  <2>1. CASE Clear(c)
    <3>1. call[c].at \in Nat
      BY DEF Reading
    <3>2. ~Restorable(call[c].at)
      BY <2>1, <3>1 DEF Clear, InBudget, Restorable
    <3> QED
      BY <2>1, <3>2 DEF Clear
  <2> QED
    BY <1>1, <2>1
    DEF Request, BeginWithdraw, Look, Ask, Store, Find, Schedule, Mark, Publish,
        BeginRestore, Invalidate, Cancel, Abort, account
<1>2. ASSUME NEW w \in Worker, Sweep(w) PROVE Final'
  BY <1>2
  DEF Sweep, Claim, ClaimSweep, Later, PurgeLeg, Ban, DeleteCredential, PurgeMarker, Complete,
      Fail, Die, account
<1> QED
  BY <1>1, <1>2 DEF Next, Forget, CleanUp, Crash, Tick, account, vars

\* A withdrawal whose window has been over for as long as a request may take is
\* final.
THEOREM FinalForGood == Spec => FinalStays
<1>1. TypeOK /\ [Next]_vars => [Final => Final']_vars
  BY FinalStep
<1> QED
  BY <1>1, Safe, PTL DEF Spec, FinalStays

----------------------------------------------------------------------------
(* The generation fence of the status cache *)

\* A request moves no other.
LEMMA CallElse ==
    ASSUME TypeOK, NEW c \in Caller, Request(c)
    PROVE  \A d \in Caller \ {c} : call'[d] = call[d]
<1>1. call \in [Caller -> Reading]
  BY DEF TypeOK
<1>2. CASE Look(c) \/ Store(c)
  BY <1>1, <1>2 DEF Look, Store, Admit, Goto, Return
<1>3. CASE Ask(c)
  BY <1>1, <1>3 DEF Ask
<1>4. CASE Mark(c)
  BY <1>1, <1>4 DEF Mark, Return
<1>5. CASE Find(c) \/ Clear(c)
  BY <1>1, <1>5 DEF Find, Clear, Goto, Return
<1>6. CASE BeginWithdraw(c) \/ Schedule(c) \/ Publish(c) \/ BeginRestore(c) \/ Invalidate(c)
             \/ Cancel(c) \/ Abort(c)
  BY <1>1, <1>6
  DEF BeginWithdraw, Schedule, Publish, BeginRestore, Invalidate, Cancel, Abort, Goto, Return
<1> QED
  BY <1>2, <1>3, <1>4, <1>5, <1>6, Request(c) DEF Request

\* What a request may still put into the cache.
Reads(c) ==
    /\ call[c].version <= version
    /\ call[c].pc = "publish" => call[c].seen \in Nat
    /\ call[c].pc = "store" => call[c].seen \in Nat \cup {Live}
    /\ call[c].pc = "store" /\ Current(c) =>
          /\ word = "withdrawn" /\ Marked => call[c].seen # Live
          /\ word = "restored" /\ marker = Live => call[c].seen = Live

GateInv == (\A c \in Caller : Reads(c)) /\ GateFollows

\* A request that does not come to write the cache.
LEMMA GateFrame ==
    ASSUME TypeOK, GateInv, NEW c \in Caller, Request(c),
           UNCHANGED <<marker, word, gate>>,
           call'[c].pc \notin {"publish", "store"},
           call'[c].version <= version
    PROVE  GateInv'
<1>1. \A d \in Caller \ {c} : call'[d] = call[d]
  BY CallElse
<1> QED
  BY <1>1 DEF GateInv, Reads, Current, GateFollows, Marked, gate

\* A step that overtakes every read in flight.
LEMMA GateFence ==
    ASSUME TypeOK, GateInv, NEW c \in Caller, Request(c),
           UNCHANGED marker, version' = version + 1,
           call'[c].pc \notin {"publish", "store"}, call'[c].version <= version,
           GateFollows'
    PROVE  GateInv'
<1>1. \A d \in Caller \ {c} : call'[d] = call[d]
  BY CallElse
<1>2. version \in Nat /\ \A d \in Caller : call[d].version \in Nat
  BY DEF TypeOK, Reading
<1>3. ASSUME NEW d \in Caller \ {c} PROVE Reads(d)'
  <2>1. call'[d].version <= version' /\ call'[d].version # version'
    BY <1>1, <1>2 DEF GateInv, Reads
  <2> QED
    BY <1>1, <2>1 DEF GateInv, Reads, Current
<1>4. Reads(c)'
  <2>1. call'[c].version <= version'
    BY <1>2, CallType DEF Reading
  <2> QED
    BY <2>1 DEF Reads
<1> QED
  BY <1>3, <1>4 DEF GateInv

\* A step that changes the account takes back what was said of it.
LEMMA GateSilent ==
    ASSUME TypeOK, GateInv, NEW c \in Caller, Request(c),
           UNCHANGED gate, word' = "none",
           call'[c].pc # "store", call'[c].version <= version,
           call'[c].pc = "publish" => call'[c].seen \in Nat
    PROVE  GateInv'
<1>1. \A d \in Caller \ {c} : call'[d] = call[d]
  BY CallElse
<1> QED
  BY <1>1 DEF GateInv, Reads, Current, GateFollows, gate

\* No step lets a read that was overtaken into the cache.
LEMMA GateStep == ASSUME TypeOK, GateInv, [Next]_vars PROVE GateInv'
<1>1. ASSUME NEW c \in Caller, Request(c) PROVE GateInv'
  <2>1. /\ call \in [Caller -> Reading] /\ call[c] \in Reading /\ version \in Nat
        /\ marker \in Nat \cup {Live, Gone} /\ cache \in Nat \cup {Live, Unknown}
        /\ Reads(c) /\ GateFollows
    BY DEF TypeOK, GateInv
  <2>2. CASE BeginWithdraw(c) \/ Find(c) \/ Schedule(c) \/ BeginRestore(c) \/ Cancel(c) \/ Abort(c)
    <3>1. UNCHANGED <<marker, word, gate>>
      BY <2>2 DEF BeginWithdraw, Find, Schedule, BeginRestore, Cancel, Abort, account
    <3>2. call'[c].pc \notin {"publish", "store"} /\ call'[c].version <= version
      <4>1. call'[c].pc \notin {"publish", "store"}
        BY <2>1, <2>2
        DEF BeginWithdraw, Find, Schedule, BeginRestore, Cancel, Abort, Goto, Return, NoCall,
            Reading
      <4>2. call'[c].version = call[c].version \/ call'[c].version = 0
        BY <2>1, <2>2
        DEF BeginWithdraw, Find, Schedule, BeginRestore, Cancel, Abort, Goto, Return, NoCall,
            Reading
      <4> QED
        BY <2>1, <4>1, <4>2 DEF Reads
    <3> QED
      BY <1>1, <3>1, <3>2, GateFrame
  <2>3. CASE Look(c)
    <3>1. UNCHANGED <<marker, word, gate>>
      BY <2>3 DEF Look, account
    <3>2. call'[c].pc \in {"ask", "find", "idle"} /\ call'[c].version \in {0, version}
      BY <2>1, <2>3 DEF Look, Admit, Return, NoCall, Reading
    <3> QED
      BY <1>1, <2>1, <3>1, <3>2, GateFrame
  <2>4. CASE Ask(c)
    <3>1. UNCHANGED <<marker, word, gate>>
      BY <2>4 DEF Ask, account
    <3>2. /\ call'[c].pc = "store" /\ call'[c].version = call[c].version
          /\ call'[c].seen = IF Marked THEN marker ELSE Live
      BY <2>1, <2>4 DEF Ask, Reading
    <3>3. Reads(c)'
      BY <2>1, <3>1, <3>2, WithdrawalAssumption DEF Reads, Marked, gate
    <3> QED
      BY <1>1, <3>1, <3>3, CallElse DEF GateInv, Reads, Current, GateFollows, Marked, gate
  <2>5. CASE Store(c)
    <3>1. UNCHANGED <<marker, word, version>>
      BY <2>5 DEF Store, account
    <3>2. call'[c].pc \in {"look", "find", "idle"} /\ call'[c].version \in {0, call[c].version}
      BY <2>1, <2>5 DEF Store, Admit, Goto, Return, NoCall, Reading
    <3>3. GateFollows'
      BY <2>1, <2>5, <3>1, WithdrawalAssumption DEF Store, Reads, GateFollows, Marked
    <3> QED
      BY <1>1, <2>1, <3>1, <3>2, <3>3, CallElse DEF GateInv, Reads, Current, Marked
  <2>6. CASE Mark(c)
    <3>1. UNCHANGED gate
      BY <2>6 DEF Mark
    <3>2. CASE marker = Gone
      <4>1. UNCHANGED <<marker, word>> /\ call'[c] = NoCall
        BY <2>1, <2>6, <3>2 DEF Mark, Return
      <4> QED
        BY <1>1, <2>1, <3>1, <4>1, GateFrame DEF NoCall
    <3>3. CASE marker # Gone
      <4>1. /\ call'[c].pc = "publish" /\ call'[c].version = call[c].version
            /\ call'[c].seen = marker'
        BY <2>1, <2>6, <3>3 DEF Mark, Reading
      <4>2. CASE Marked
        <5>1. UNCHANGED <<marker, word>>
          BY <2>6, <3>3, <4>2 DEF Mark
        <5>2. Reads(c)'
          BY <2>1, <3>1, <4>1, <4>2, <5>1 DEF Reads, Marked, gate
        <5> QED
          BY <1>1, <3>1, <5>1, <5>2, CallElse DEF GateInv, Reads, Current, GateFollows, Marked, gate
      <4>3. CASE ~Marked
        <5>1. word' = "none" /\ marker' \in Nat
          BY <2>1, <2>6, <3>3, <4>3 DEF Mark, Reading
        <5> QED
          BY <1>1, <2>1, <3>1, <4>1, <5>1, GateSilent DEF Reads
      <4> QED
        BY <4>2, <4>3
    <3> QED
      BY <3>2, <3>3
  <2>7. CASE Clear(c)
    <3>1. UNCHANGED gate /\ call'[c].pc \in {"forget", "idle"}
          /\ call'[c].version \in {0, call[c].version}
      BY <2>1, <2>7 DEF Clear, Goto, Return, NoCall, Reading
    <3>2. word' = "none" \/ UNCHANGED <<marker, word>>
      BY <2>7 DEF Clear
    <3> QED
      BY <1>1, <2>1, <3>1, <3>2, GateFrame, GateSilent DEF Reads
  <2>8. CASE Publish(c) \/ Invalidate(c)
    <3>1. /\ UNCHANGED marker /\ version' = version + 1
          /\ call'[c].pc \in {"idle", "cancel"} /\ call'[c].version \in {0, call[c].version}
      BY <2>1, <2>8 DEF Publish, Invalidate, Goto, Return, NoCall, Reading, account
    <3>2. GateFollows'
      <4>1. CASE Publish(c)
        BY <2>1, <4>1, WithdrawalAssumption DEF Publish, Reads, GateFollows
      <4>2. CASE Invalidate(c)
        BY <4>2 DEF Invalidate, GateFollows
      <4> QED
        BY <2>8, <4>1, <4>2
    <3> QED
      BY <1>1, <2>1, <3>1, <3>2, GateFence DEF Reads
  <2> QED
    BY <1>1, <2>2, <2>3, <2>4, <2>5, <2>6, <2>7, <2>8 DEF Request
<1>2. ASSUME NEW w \in Worker, Sweep(w) PROVE GateInv'
  <2>1. /\ UNCHANGED <<gate, call, word>>
        /\ Marked' => UNCHANGED marker
        /\ marker' = Live => marker = Live
    BY <1>2, WithdrawalAssumption
    DEF Sweep, Claim, ClaimSweep, Later, PurgeLeg, Ban, DeleteCredential, PurgeMarker, Complete,
        Fail, Die, account, Marked
  <2> QED
    BY <2>1 DEF GateInv, Reads, Current, GateFollows, Marked, gate
<1>3. CASE Crash
  <2>1. UNCHANGED <<marker, word>> /\ cache' = Unknown /\ version' = 0
        /\ \A c \in Caller : call'[c] = NoCall
    BY <1>3 DEF Crash, account
  <2> QED
    BY <2>1, WithdrawalAssumption DEF GateInv, Reads, GateFollows, NoCall
<1>4. CASE Forget
  BY <1>4, WithdrawalAssumption DEF Forget, GateInv, Reads, Current, GateFollows, Marked, account
<1>5. CASE CleanUp \/ Tick \/ UNCHANGED vars
  BY <1>5 DEF CleanUp, Tick, vars, GateInv, Reads, Current, GateFollows, Marked, account, gate
<1> QED
  BY <1>1, <1>2, <1>3, <1>4, <1>5 DEF Next

\* What a finished request said of the account stands until it is changed.
THEOREM Fenced == Spec => []GateFollows
<1>1. Init => GateInv
  BY DEF Init, GateInv, Reads, GateFollows, NoCall
<1>2. GateInv => GateFollows
  BY DEF GateInv
<1> QED
  BY <1>1, <1>2, GateStep, Safe, PTL DEF Spec

(***************************************************************************)
(* Decorating: the types, what purchases cost and leave, and what the      *)
(* universe wears.                                                         *)
(***************************************************************************)

(* Type correctness *)

\* The client's steps move one save at most, and none of the service's state.
LEMMA ClientKeepsServer == Client => UNCHANGED serverVars
  BY DEF Client, RequestPanel, Pick, PressSave, SaveAnswered, SaveFailed, ClosePanel,
         LeaveRoute, EnterRoute, Saved, Refocus, ReadSelection, ReadArrives, ReadFails

\* The selection without a choice is a selection.
LEMMA PlainIsSelection == Plain \in Selections /\ Unused \in SaveRecord
  BY DEF Plain, Selections, Unused, SaveRecord, Steps

\* A save that ends is still well formed.
LEMMA EndedType ==
    ASSUME NEW s \in SaveRecord, NEW step \in Steps
    PROVE  /\ Ended(s, step) \in SaveRecord
           /\ [Ended(s, step) EXCEPT !.gained = {}] \in SaveRecord
  BY DEF Ended, SaveRecord

\* So is one that goes on to its next statement.
LEMMA MovedType ==
    ASSUME NEW s \in SaveRecord, NEW set \in SUBSET Ornament, NEW t \in Selections
    PROVE  /\ [s EXCEPT !.step = "begun", !.had = set] \in SaveRecord
           /\ [s EXCEPT !.step = "bought", !.gained = set] \in SaveRecord
           /\ [s EXCEPT !.step = "viewed", !.seen = t] \in SaveRecord
  BY DEF SaveRecord, Steps

\* So is one whose answer was heard.
LEMMA HeardType == ASSUME NEW s \in SaveRecord PROVE [s EXCEPT !.heard = TRUE] \in SaveRecord
  BY DEF SaveRecord

\* A record put in the place of another keeps the saves well formed.
LEMMA PutType ==
    ASSUME NEW saves \in [Save -> SaveRecord], NEW r \in Save, NEW s \in SaveRecord
    PROVE  [saves EXCEPT ![r] = s] \in [Save -> SaveRecord]
  OBVIOUS

\* A save that is asked is well formed.
LEMMA SendType ==
    ASSUME DecorTypeOK, NEW r \in Save, NEW by \in {"panel", "other"}, NEW s \in Selections,
           Send(r, by, s)
    PROVE  save' \in [Save -> SaveRecord]
  BY PlainIsSelection DEF DecorTypeOK, Send, SaveRecord, Steps

\* The transactions of the service keep every row well formed.
LEMMA TypeService == DecorTypeOK /\ Service => DecorTypeOK'
  <1> SUFFICES ASSUME DecorTypeOK, Service PROVE DecorTypeOK'
    OBVIOUS
  <1> USE DEF clientVars, storeVars
  <1>0. /\ \A r \in Save : save[r] \in SaveRecord
        /\ owned \in SUBSET Ornament
        /\ stored \in Selections
    BY DEF DecorTypeOK
  <1>1. ASSUME NEW r \in Save, Begin(r) PROVE DecorTypeOK'
    <2>1. save' \in [Save -> SaveRecord]
      BY <1>0, <1>1, MovedType, PutType DEF Begin, DecorTypeOK
    <2>. QED  BY <1>1, <2>1 DEF Begin, DecorTypeOK, serverVars
  <1>2. ASSUME NEW r \in Save, Buy(r) PROVE DecorTypeOK'
    <2>1. Acquired(r) \in SUBSET Ornament
      BY DEF Acquired, Needs, Shown
    <2>2. save' \in [Save -> SaveRecord]
      BY <1>0, <1>2, <2>1, MovedType, PutType DEF Buy, DecorTypeOK
    <2>. QED  BY <1>2, <2>2 DEF Buy, DecorTypeOK, serverVars
  <1>3. ASSUME NEW r \in Save, View(r) PROVE DecorTypeOK'
    <2>1. save' \in [Save -> SaveRecord]
      BY <1>0, <1>3, MovedType, PutType DEF View, DecorTypeOK
    <2>. QED  BY <1>3, <2>1 DEF View, DecorTypeOK, serverVars
  <1>4. ASSUME NEW r \in Save, Refuse(r) PROVE DecorTypeOK'
    <2>1. save' \in [Save -> SaveRecord]
      BY <1>4, EndedType DEF Refuse, DecorTypeOK, Steps
    <2>. QED  BY <1>4, <2>1 DEF Refuse, DecorTypeOK, serverVars
  <1>5. ASSUME NEW r \in Save, NEW s \in Selections, OtherSave(r, s) PROVE DecorTypeOK'
    BY <1>5, SendType DEF OtherSave, DecorTypeOK, serverVars
  <1>6. ASSUME NEW o \in Ornament, GrantOwnership(o) PROVE DecorTypeOK'
    <2>1. Cardinality(owned \cup {o}) \in Nat
      BY CatalogAssumption, FS_Subset, FS_CardinalityType DEF DecorTypeOK
    <2>2. reach' \in Nat
      BY <1>6, <2>1 DEF GrantOwnership, AtLeast, DecorTypeOK
    <2>. QED  BY <1>6, <2>2 DEF GrantOwnership, DecorTypeOK
  <1>7. ASSUME NEW r \in Save, Commit(r) PROVE DecorTypeOK'
    <2>1. /\ save[r].gained \in SUBSET Ornament
          /\ save[r].had \in SUBSET Ornament
          /\ save[r].wanted \in Selections
      BY <1>0 DEF SaveRecord
    <2>2. owned' \subseteq Ornament /\ debits' \subseteq SUBSET Ornament
      BY <1>0, <1>7, <2>1 DEF Commit, DecorTypeOK
    <2>3. balance' \in Int
      <3>1. Cost[save[r].gained] \in Int
        BY <2>1, CatalogAssumption
      <3>. QED  BY <1>7, <3>1 DEF Commit, DecorTypeOK
    <2>4. stored' \in Selections
      BY <1>0, <1>7, <2>1 DEF Commit, Selections
    <2>5. reach' \in Nat
      <3>1. OwnedAfter(r) \in Nat
        BY <2>1, CatalogAssumption, FS_Subset, FS_CardinalityType DEF OwnedAfter
      <3>. QED  BY <1>7, <3>1 DEF Commit, AtLeast, DecorTypeOK
    <2>6. save' \in [Save -> SaveRecord]
      <3>1. Ended(save[r], "saved") \in SaveRecord
        BY <1>0, EndedType DEF Steps
      <3>. QED  BY <1>7, <3>1, PutType DEF Commit, DecorTypeOK
    <2>. QED  BY <1>7, <2>2, <2>3, <2>4, <2>5, <2>6 DEF Commit, DecorTypeOK
  <1>. QED  BY <1>1, <1>2, <1>3, <1>4, <1>5, <1>6, <1>7 DEF Service

\* Gestures, effects, answers and reads keep the client well formed.
LEMMA TypeClient == DecorTypeOK /\ Client => DecorTypeOK'
  <1> SUFFICES ASSUME DecorTypeOK, Client PROVE DecorTypeOK'
    OBVIOUS
  <1> USE DEF serverVars, storeVars
  <1>0. \A r \in Save : save[r] \in SaveRecord
    BY DEF DecorTypeOK
  <1>1. CASE RequestPanel \/ ClosePanel \/ LeaveRoute \/ EnterRoute \/ Saved
    BY <1>1 DEF RequestPanel, ClosePanel, LeaveRoute, EnterRoute, Saved, open, revert, DecorTypeOK
  <1>2. ASSUME NEW k \in Kind, NEW o \in Ornament \cup {Default}, Pick(k, o) PROVE DecorTypeOK'
    <2>1. previewed' \in Selections
      BY <1>2 DEF Pick, DecorTypeOK, Selections
    <2>. QED  BY <1>2, <2>1 DEF Pick, DecorTypeOK
  <1>3. ASSUME NEW r \in Save, PressSave(r) PROVE DecorTypeOK'
    <2>1. save' \in [Save -> SaveRecord]
      BY <1>3, SendType DEF PressSave, DecorTypeOK
    <2>. QED  BY <1>3, <2>1 DEF PressSave, DecorTypeOK
  <1>4. ASSUME NEW r \in Save, SaveAnswered(r) \/ SaveFailed(r) PROVE DecorTypeOK'
    <2>1. save' \in [Save -> SaveRecord]
      BY <1>0, <1>4, HeardType, PutType DEF SaveAnswered, SaveFailed, DecorTypeOK
    <2>2. save[r].wanted \in Selections
      BY <1>0 DEF SaveRecord
    <2>. QED  BY <1>4, <2>1, <2>2 DEF SaveAnswered, SaveFailed, commit, DecorTypeOK
  <1>5. CASE Refocus \/ ReadSelection \/ ReadArrives \/ ReadFails
    BY <1>5 DEF Refocus, ReadSelection, ReadArrives, ReadFails, adopt, DecorTypeOK
  <1>. QED  BY <1>1, <1>2, <1>3, <1>4, <1>5 DEF Client

\* Every variable keeps its type: rows, saves, panel, preview and read.
THEOREM DecorTypeCorrect == DecorSpec => []DecorTypeOK
  <1>1. DecorInit => DecorTypeOK
    <2> SUFFICES ASSUME DecorInit PROVE DecorTypeOK
      OBVIOUS
    <2>1. save \in [Save -> SaveRecord]
      BY PlainIsSelection DEF DecorInit
    <2>2. balance \in Int
      BY CatalogAssumption DEF DecorInit
    <2>. QED  BY <2>1, <2>2, PlainIsSelection DEF DecorInit, DecorTypeOK
  <1>2. DecorTypeOK /\ [DecorNext]_decorVars => DecorTypeOK'
    BY TypeService, TypeClient DEF DecorNext, decorVars, serverVars, clientVars, storeVars, DecorTypeOK
  <1>. QED  BY <1>1, <1>2, PTL DEF DecorSpec
-----------------------------------------------------------------------------
(* Buying *)

Active(r) == At(r, {"begun", "bought", "viewed"})
Holding(r) == At(r, {"bought", "viewed"})

\* The inductive invariant: only a transaction that holds rows, or committed,
\* has acquired any; what it holds nobody owns, it can pay for, and no other
\* transaction that pays runs beside it.
Locks ==
    \A r \in Save :
        /\ Holding(r) \/ At(r, {"saved"}) \/ save[r].gained = {}
        /\ Active(r) => save[r].had \subseteq owned
        /\ Holding(r) =>
              /\ save[r].gained \subseteq Purchasable
              /\ save[r].gained \cap owned = {}
              /\ save[r].gained # {} =>
                    /\ Cost[save[r].gained] <= balance
                    /\ \A q \in Save \ {r} : Holding(q) => save[q].gained = {}

Account == Locks /\ PaidForOnce

\* Whatever keeps the rows, the balance and what the saves hold keeps the account.
LEMMA AccountKept ==
    ASSUME Account, UNCHANGED <<owned, balance, debits>>,
           \A r \in Save : /\ save'[r].step = save[r].step
                           /\ save'[r].had = save[r].had
                           /\ save'[r].gained = save[r].gained
    PROVE  Account'
  BY DEF Account, Locks, PaidForOnce, Active, Holding, At

\* So does a save that is asked, or refused.
LEMMA AccountWithout ==
    ASSUME DecorTypeOK, Account, UNCHANGED <<owned, balance, debits>>,
           NEW r \in Save,
           \A q \in Save \ {r} : save'[q] = save[q],
           save'[r].step \in {"sent", "refused"}, save'[r].gained = {}
    PROVE  Account'
  BY DEF Account, Locks, PaidForOnce, Active, Holding, At

\* An asked save holds nothing.
LEMMA SendLooks ==
    ASSUME DecorTypeOK, NEW r \in Save, NEW by \in {"panel", "other"}, NEW s \in Selections,
           Send(r, by, s)
    PROVE  /\ \A q \in Save \ {r} : save'[q] = save[q]
           /\ save'[r].step = "sent" /\ save'[r].gained = {}
  BY DEF Send, Unused, DecorTypeOK

\* Every step keeps the account.
LEMMA AccountStep == DecorTypeOK /\ Account /\ DecorNext => Account'
  <1> SUFFICES ASSUME DecorTypeOK, Account, DecorNext PROVE Account'
    OBVIOUS
  <1>0. \A r \in Save : save[r] \in SaveRecord
    BY DEF DecorTypeOK
  <1>1. ASSUME NEW r \in Save, Begin(r) PROVE Account'
    <2>1. /\ \A q \in Save \ {r} : save'[q] = save[q]
          /\ save'[r].step = "begun" /\ save'[r].had = owned
          /\ save'[r].gained = save[r].gained
      BY <1>0, <1>1 DEF Begin, DecorTypeOK, SaveRecord
    <2>2. UNCHANGED <<owned, balance, debits>> /\ save[r].step = "sent"
      BY <1>1 DEF Begin, serverVars, At
    <2>. QED  BY <2>1, <2>2 DEF Account, Locks, PaidForOnce, Active, Holding, At
  <1>2. ASSUME NEW r \in Save, Buy(r) PROVE Account'
    <2> DEFINE gained == Acquired(r)
    <2>1. /\ \A q \in Save \ {r} : save'[q] = save[q]
          /\ save'[r].step = "bought" /\ save'[r].had = save[r].had
          /\ save'[r].gained = gained
      BY <1>0, <1>2 DEF Buy, DecorTypeOK, SaveRecord
    <2>2. UNCHANGED <<owned, balance, debits>> /\ save[r].step = "begun"
      BY <1>2 DEF Buy, serverVars, At
    <2>3. /\ gained \subseteq Purchasable /\ gained \cap owned = {}
          /\ gained # {} => /\ Cost[gained] <= balance
                            /\ \A q \in Save \ {r} : Holding(q) => save[q].gained = {}
      BY <1>2 DEF Buy, Acquired, BalanceFree, Holding
    <2>4. \A q \in Save \ {r} : Holding(q) /\ save[q].gained # {} => gained = {}
      BY <2>3
    <2> HIDE DEF gained
    <2>. QED  BY <2>1, <2>2, <2>3, <2>4 DEF Account, Locks, PaidForOnce, Active, Holding, At
  <1>3. ASSUME NEW r \in Save, View(r) PROVE Account'
    <2>1. /\ \A q \in Save \ {r} : save'[q] = save[q]
          /\ save'[r].step = "viewed" /\ save'[r].had = save[r].had
          /\ save'[r].gained = save[r].gained
      BY <1>0, <1>3 DEF View, DecorTypeOK, SaveRecord
    <2>2. UNCHANGED <<owned, balance, debits>> /\ save[r].step = "bought"
      BY <1>3 DEF View, serverVars, At
    <2>. QED  BY <2>1, <2>2 DEF Account, Locks, PaidForOnce, Active, Holding, At
  <1>4. ASSUME NEW r \in Save, Refuse(r) PROVE Account'
    <2>1. /\ \A q \in Save \ {r} : save'[q] = save[q]
          /\ save'[r].step = "refused" /\ save'[r].gained = {}
      BY <1>0, <1>4 DEF Refuse, Ended, DecorTypeOK, SaveRecord
    <2>. QED  BY <1>4, <2>1, AccountWithout DEF Refuse, serverVars
  <1>5. ASSUME NEW r \in Save, NEW s \in Selections, OtherSave(r, s) PROVE Account'
    BY <1>5, SendLooks, AccountWithout DEF OtherSave, serverVars
  <1>6. ASSUME NEW o \in Ornament, GrantOwnership(o) PROVE Account'
    <2>1. /\ owned' = owned \cup {o} /\ o \notin Purchasable
          /\ UNCHANGED <<balance, debits, save>>
      BY <1>6 DEF GrantOwnership
    <2>2. PaidForOnce'
      BY <2>1 DEF Account, PaidForOnce
    <2>3. Locks'
      BY <2>1 DEF Account, Locks, Active, Holding, At
    <2>. QED  BY <2>2, <2>3 DEF Account
  <1>7. ASSUME NEW r \in Save, Commit(r) PROVE Account'
    <2> DEFINE key == save[r].gained
    <2>1. /\ Holding(r)
          /\ key \subseteq Purchasable /\ key \cap owned = {} /\ key \in SUBSET Ornament
          /\ key # {} => /\ Cost[key] <= balance
                         /\ \A q \in Save \ {r} : Holding(q) => save[q].gained = {}
      BY <1>0, <1>7 DEF Commit, Account, Locks, Holding, At, SaveRecord
    <2>2. key # {} => key \notin debits
      BY <2>1 DEF Account, PaidForOnce
    <2>3. /\ owned' = owned \cup key
          /\ balance' = IF key # {} THEN balance - Cost[key] ELSE balance
          /\ debits' = IF key # {} THEN debits \cup {key} ELSE debits
      BY <1>7, <2>2 DEF Commit
    <2>4. /\ \A q \in Save \ {r} : save'[q] = save[q]
          /\ save'[r].step = "saved"
      BY <1>0, <1>7 DEF Commit, Ended, DecorTypeOK, SaveRecord
    <2>5. balance \in Int /\ (key # {} => Cost[key] \in Int)
      BY <2>1, CatalogAssumption DEF DecorTypeOK
    <2>6. PaidForOnce'
      <3>1. CASE key = {}
        BY <2>3, <3>1 DEF Account, PaidForOnce
      <3>2. CASE key # {}
        <4>1. balance' >= 0
          BY <2>1, <2>3, <2>5, <3>2
        <4>2. \A d \in debits : d \cap key = {}
          BY <2>1 DEF Account, PaidForOnce
        <4>3. \A d, e \in debits' : d # e => d \cap e = {}
          BY <2>3, <3>2, <4>2 DEF Account, PaidForOnce
        <4>4. UNION debits' = owned' \cap Purchasable
          BY <2>1, <2>3, <3>2 DEF Account, PaidForOnce
        <4>. QED  BY <4>1, <4>3, <4>4 DEF PaidForOnce
      <3>. QED  BY <3>1, <3>2
    <2>7. Locks'
      <3> SUFFICES ASSUME NEW q \in Save \ {r}
                   PROVE  /\ (Holding(q) \/ At(q, {"saved"}) \/ save[q].gained = {})'
                          /\ (Active(q) => save[q].had \subseteq owned)'
                          /\ (Holding(q) =>
                                 /\ save[q].gained \subseteq Purchasable
                                 /\ save[q].gained \cap owned = {}
                                 /\ save[q].gained # {} =>
                                       /\ Cost[save[q].gained] <= balance
                                       /\ \A p \in Save \ {q} : Holding(p) => save[p].gained = {})'
        BY <2>4 DEF Locks, Active, Holding, At
      <3>1. save'[q] = save[q] /\ ~Holding(r)'
        BY <2>4 DEF Holding, At
      <3>2. CASE key = {}
        BY <2>3, <2>4, <3>1, <3>2 DEF Account, Locks, Active, Holding, At
      <3>3. CASE key # {}
        BY <2>1, <2>3, <3>1, <3>3 DEF Account, Locks, Active, Holding, At
      <3>. QED  BY <3>2, <3>3
    <2>. QED  BY <2>6, <2>7 DEF Account
  <1>8. CASE Client
    <2>1. UNCHANGED <<owned, balance, debits>>
      BY <1>8, ClientKeepsServer DEF serverVars
    <2>2. ASSUME NEW r \in Save, PressSave(r) PROVE Account'
      <3>1. Send(r, "panel", previewed) /\ previewed \in Selections
        BY <2>2 DEF PressSave, DecorTypeOK
      <3>. QED  BY <2>1, <3>1, SendLooks, AccountWithout
    <2>3. ASSUME NEW r \in Save, SaveAnswered(r) \/ SaveFailed(r) PROVE Account'
      BY <1>0, <2>1, <2>3, AccountKept DEF SaveAnswered, SaveFailed, DecorTypeOK, SaveRecord
    <2>4. CASE UNCHANGED save
      BY <2>1, <2>4, AccountKept
    <2>. QED
      BY <1>8, <2>2, <2>3, <2>4
         DEF Client, RequestPanel, Pick, ClosePanel, LeaveRoute, EnterRoute, Saved, Refocus,
             ReadSelection, ReadArrives, ReadFails
  <1>. QED  BY <1>1, <1>2, <1>3, <1>4, <1>5, <1>6, <1>7, <1>8 DEF DecorNext, Service

\* The account is sound whatever happens.
LEMMA AccountInvariant == DecorSpec => []Account
  <1>1. DecorInit => Account
    BY CatalogAssumption
       DEF DecorInit, Account, Locks, PaidForOnce, Active, Holding, At, Unused
  <1>2. DecorTypeOK /\ Account /\ [DecorNext]_decorVars => Account'
    BY AccountStep, AccountKept DEF decorVars, serverVars
  <1>. QED  BY <1>1, <1>2, DecorTypeCorrect, PTL DEF DecorSpec

\* Every ornament bought is in exactly one debit, and the balance covers them
\* all, for any number of overlapping saves.
THEOREM BoughtOnce == DecorSpec => []PaidForOnce
  <1>1. Account => PaidForOnce
    BY DEF Account
  <1>. QED  BY <1>1, AccountInvariant, PTL

-----------------------------------------------------------------------------
(* The ownership counter *)

\* What a save acquired is not among what it read, even after others committed.
Fresh == \A r \in Save : Holding(r) => save[r].gained \cap save[r].had = {}

\* Sets of ornaments are finite, and a part is never more than the whole.
LEMMA Counts ==
    ASSUME NEW S \in SUBSET Ornament, NEW T \in SUBSET S
    PROVE  /\ Cardinality(T) \in Nat /\ Cardinality(S) \in Nat
           /\ Cardinality(T) <= Cardinality(S)
  <1>1. IsFiniteSet(S)
    BY CatalogAssumption, FS_Subset
  <1>2. IsFiniteSet(T) /\ Cardinality(T) <= Cardinality(S)
    BY <1>1, FS_Subset
  <1>. QED  BY <1>1, <1>2, FS_CardinalityType

\* The list a save read and what it acquired add up to no more than the rows
\* the account has after the save.
LEMMA SumIsOwned ==
    ASSUME DecorTypeOK, Account, Fresh, NEW r \in Save, At(r, {"viewed"})
    PROVE  OwnedAfter(r) <= Cardinality(owned \cup save[r].gained)
  <1> DEFINE had == save[r].had
             gained == save[r].gained
  <1>1. had \in SUBSET Ornament /\ gained \in SUBSET Ornament /\ owned \in SUBSET Ornament
    BY DEF DecorTypeOK, SaveRecord
  <1>2. had \subseteq owned /\ had \cap gained = {}
    BY DEF Account, Locks, Fresh, Active, Holding, At
  <1>3. IsFiniteSet(had) /\ IsFiniteSet(gained)
    BY <1>1, CatalogAssumption, FS_Subset
  <1>4. Cardinality(had \cup gained) = Cardinality(had) + Cardinality(gained)
    <2>1. Cardinality(had \cup gained)
            = Cardinality(had) + Cardinality(gained) - Cardinality(had \cap gained)
      BY <1>3, FS_Union
    <2>2. Cardinality(had) \in Nat /\ Cardinality(gained) \in Nat
      BY <1>3, FS_CardinalityType
    <2>3. Cardinality(had \cap gained) = 0
      BY <1>2, FS_EmptySet
    <2>. QED  BY <2>1, <2>2, <2>3
  <1>5. Cardinality(had \cup gained) <= Cardinality(owned \cup gained)
    BY <1>1, <1>2, Counts
  <1>. QED  BY <1>4, <1>5 DEF OwnedAfter

\* Every step keeps the freshness and the counter.
LEMMA CounterStep ==
    DecorTypeOK /\ Account /\ Fresh /\ NeverOverstated /\ DecorNext => Fresh' /\ NeverOverstated'
  <1> SUFFICES ASSUME DecorTypeOK, Account, Fresh, NeverOverstated, DecorNext
               PROVE  Fresh' /\ NeverOverstated'
    OBVIOUS
  <1>0. /\ \A r \in Save : save[r] \in SaveRecord
        /\ owned \in SUBSET Ornament /\ reach \in Nat
    BY DEF DecorTypeOK
  <1>1. ASSUME NEW r \in Save, Begin(r) \/ View(r) \/ Buy(r) PROVE Fresh' /\ NeverOverstated'
    <2>1. /\ \A q \in Save \ {r} : save'[q] = save[q]
          /\ \/ save'[r].step = "begun"
             \/ save'[r].step = "bought" /\ save'[r].gained \cap save'[r].had = {}
             \/ /\ save[r].step = "bought"
                /\ save'[r].had = save[r].had /\ save'[r].gained = save[r].gained
      <3>1. CASE Begin(r)
        BY <1>0, <3>1 DEF Begin, DecorTypeOK, SaveRecord
      <3>2. CASE View(r)
        BY <1>0, <3>2 DEF View, DecorTypeOK, SaveRecord, At
      <3>3. CASE Buy(r)
        <4>1. Acquired(r) \cap save[r].had = {}
          BY DEF Acquired, Needs
        <4>2. /\ \A q \in Save \ {r} : save'[q] = save[q]
              /\ save'[r].step = "bought"
              /\ save'[r].gained = Acquired(r) /\ save'[r].had = save[r].had
          BY <1>0, <3>3 DEF Buy, DecorTypeOK, SaveRecord
        <4>. QED  BY <4>1, <4>2
      <3>. QED  BY <1>1, <3>1, <3>2, <3>3
    <2>2. Fresh'
      BY <2>1 DEF Fresh, Holding, At
    <2>3. UNCHANGED <<owned, reach>>
      BY <1>1 DEF Begin, View, Buy, serverVars
    <2>. QED  BY <2>2, <2>3 DEF NeverOverstated
  <1>2. ASSUME NEW r \in Save, Refuse(r) PROVE Fresh' /\ NeverOverstated'
    <2>1. /\ \A q \in Save \ {r} : save'[q] = save[q]
          /\ save'[r].step = "refused"
      BY <1>0, <1>2 DEF Refuse, Ended, DecorTypeOK, SaveRecord
    <2>. QED  BY <1>2, <2>1 DEF Refuse, serverVars, Fresh, Holding, At, NeverOverstated
  <1>3. ASSUME NEW r \in Save, NEW s \in Selections, NEW by \in {"panel", "other"},
               Send(r, by, s), UNCHANGED serverVars
        PROVE  Fresh' /\ NeverOverstated'
    BY <1>3, SendLooks DEF serverVars, Fresh, Holding, At, NeverOverstated
  <1>4. ASSUME NEW o \in Ornament, GrantOwnership(o) PROVE Fresh' /\ NeverOverstated'
    <2>1. owned \in SUBSET (owned \cup {o}) /\ owned \cup {o} \in SUBSET Ornament
      BY <1>0
    <2>2. Cardinality(owned) <= Cardinality(owned \cup {o})
      BY <2>1, Counts
    <2>3. Cardinality(owned) \in Nat /\ Cardinality(owned \cup {o}) \in Nat
      BY <2>1, Counts
    <2>. QED  BY <1>0, <1>4, <2>2, <2>3 DEF GrantOwnership, AtLeast, Fresh, Holding, At, NeverOverstated
  <1>5. ASSUME NEW r \in Save, Commit(r) PROVE Fresh' /\ NeverOverstated'
    <2> DEFINE all == owned \cup save[r].gained
    <2>1. /\ \A q \in Save \ {r} : save'[q] = save[q]
          /\ save'[r].step = "saved"
      BY <1>0, <1>5 DEF Commit, Ended, DecorTypeOK, SaveRecord
    <2>2. owned \in SUBSET all /\ all \in SUBSET Ornament
      BY <1>0 DEF SaveRecord
    <2>3. /\ Cardinality(owned) <= Cardinality(all)
          /\ Cardinality(owned) \in Nat /\ Cardinality(all) \in Nat
      BY <2>2, Counts
    <2>4. OwnedAfter(r) <= Cardinality(all)
      BY <1>5, SumIsOwned DEF Commit
    <2>5. owned' = all /\ (reach' = reach \/ reach' = OwnedAfter(r))
      BY <1>5 DEF Commit, AtLeast
    <2> HIDE DEF all
    <2>6. NeverOverstated'
      BY <1>0, <2>3, <2>4, <2>5 DEF NeverOverstated
    <2>7. Fresh'
      BY <2>1 DEF Fresh, Holding, At
    <2>. QED  BY <2>6, <2>7
  <1>6. CASE Client
    <2>1. UNCHANGED serverVars
      BY <1>6, ClientKeepsServer
    <2>2. ASSUME NEW r \in Save, PressSave(r) PROVE Fresh' /\ NeverOverstated'
      BY <1>3, <2>1, <2>2 DEF PressSave, DecorTypeOK
    <2>3. ASSUME NEW r \in Save, SaveAnswered(r) \/ SaveFailed(r) PROVE Fresh' /\ NeverOverstated'
      <3>1. \A q \in Save : /\ save'[q].step = save[q].step /\ save'[q].had = save[q].had
                            /\ save'[q].gained = save[q].gained
        BY <1>0, <2>3 DEF SaveAnswered, SaveFailed, DecorTypeOK, SaveRecord
      <3>. QED  BY <2>1, <3>1 DEF serverVars, Fresh, Holding, At, NeverOverstated
    <2>4. CASE UNCHANGED save
      BY <2>1, <2>4 DEF serverVars, Fresh, Holding, At, NeverOverstated
    <2>. QED
      BY <1>6, <2>2, <2>3, <2>4
         DEF Client, RequestPanel, Pick, ClosePanel, LeaveRoute, EnterRoute, Saved, Refocus,
             ReadSelection, ReadArrives, ReadFails
  <1>. QED  BY <1>1, <1>2, <1>3, <1>4, <1>5, <1>6 DEF DecorNext, Service, OtherSave

\* The counter never overstates what the account owns, although a save adds
\* up a list that was read before it waited for others.
THEOREM CounterSound == DecorSpec => []NeverOverstated
  <1>1. DecorInit => Fresh /\ NeverOverstated
    BY FS_EmptySet DEF DecorInit, Fresh, Holding, At, Unused, NeverOverstated
  <1>2. DecorTypeOK /\ Account /\ Fresh /\ NeverOverstated /\ [DecorNext]_decorVars
          => Fresh' /\ NeverOverstated'
    BY CounterStep DEF decorVars, serverVars, Fresh, Holding, At, NeverOverstated
  <1>. QED  BY <1>1, <1>2, DecorTypeCorrect, AccountInvariant, PTL DEF DecorSpec

-----------------------------------------------------------------------------
(* The selection *)

\* A save that ended for nothing: no lock ordered it after the others.
FreeSaved == \E r \in Save : At(r, {"saved"}) /\ save[r].gained = {}

\* Without such a save, one that paid sees what is stored until it commits.
Ordered ==
    \A r \in Save :
        At(r, {"viewed"}) /\ save[r].gained # {} /\ ~FreeSaved => save[r].seen = stored

\* Whatever keeps the stored selection, the saved saves and what is seen keeps
\* the selection whole.
LEMMA SelectionKept ==
    ASSUME Ordered, WholeSelection, stored' = stored,
           \A r \in Save :
              /\ At(r, {"saved"}) => /\ At(r, {"saved"})'
                                    /\ save'[r].wanted = save[r].wanted
                                    /\ save'[r].gained = save[r].gained
              /\ At(r, {"viewed"})' =>
                    \/ save'[r].seen = stored
                    \/ /\ At(r, {"viewed"})
                       /\ save'[r].gained = save[r].gained /\ save'[r].seen = save[r].seen
    PROVE  Ordered' /\ WholeSelection'
  <1>1. FreeSaved => FreeSaved'
    BY DEF FreeSaved, At
  <1>2. WholeSelection'
    BY DEF WholeSelection, At
  <1>3. Ordered'
    BY <1>1 DEF Ordered
  <1>. QED  BY <1>2, <1>3

\* The commit of a save that paid leaves its own selection; any other leaves
\* a save that paid nothing behind.
LEMMA SelectionCommit ==
    ASSUME DecorTypeOK, Account, Ordered, WholeSelection, NEW r \in Save, Commit(r)
    PROVE  Ordered' /\ WholeSelection'
  <1>0. \A q \in Save : save[q] \in SaveRecord
    BY DEF DecorTypeOK
  <1>1. /\ \A q \in Save \ {r} : save'[q] = save[q]
        /\ save'[r].step = "saved" /\ save'[r].wanted = save[r].wanted
        /\ save'[r].gained = save[r].gained
    BY <1>0 DEF Commit, Ended, DecorTypeOK, SaveRecord
  <1>2. At(r, {"viewed"}) /\ save[r].wanted \in Selections
    BY <1>0 DEF Commit, SaveRecord
  <1>3. CASE save[r].gained = {}
    <2>1. FreeSaved'
      BY <1>1, <1>3 DEF FreeSaved, At
    <2>. QED  BY <2>1 DEF FreeSaved, Ordered, WholeSelection
  <1>4. CASE save[r].gained # {} /\ FreeSaved
    <2>1. FreeSaved'
      BY <1>1, <1>2, <1>4 DEF FreeSaved, At
    <2>. QED  BY <2>1 DEF FreeSaved, Ordered, WholeSelection
  <1>5. CASE save[r].gained # {} /\ ~FreeSaved
    <2>1. save[r].seen = stored
      BY <1>2, <1>5 DEF Ordered
    <2>2. stored' = save[r].wanted
      BY <1>2, <2>1 DEF Commit, Changed, Selections, DecorTypeOK
    <2>3. WholeSelection'
      BY <1>1, <2>2 DEF WholeSelection, At
    <2>4. \A q \in Save \ {r} : At(q, {"viewed"}) => save[q].gained = {}
      BY <1>2, <1>5 DEF Account, Locks, Holding, At
    <2>5. Ordered'
      BY <1>1, <2>4 DEF Ordered, At
    <2>. QED  BY <2>3, <2>5
  <1>. QED  BY <1>3, <1>4, <1>5

\* Every other step leaves the stored selection as it is.
LEMMA SelectionStep ==
    DecorTypeOK /\ Account /\ Ordered /\ WholeSelection /\ DecorNext => Ordered' /\ WholeSelection'
  <1> SUFFICES ASSUME DecorTypeOK, Account, Ordered, WholeSelection, DecorNext
               PROVE  Ordered' /\ WholeSelection'
    OBVIOUS
  <1>0. \A r \in Save : save[r] \in SaveRecord
    BY DEF DecorTypeOK
  <1>1. ASSUME NEW r \in Save, Begin(r) \/ Buy(r) \/ View(r) \/ Refuse(r)
        PROVE  Ordered' /\ WholeSelection'
    <2>1. /\ \A q \in Save \ {r} : save'[q] = save[q]
          /\ ~At(r, {"saved"}) /\ stored' = stored
          /\ save'[r].step # "viewed" \/ save'[r].seen = stored
      <3>1. CASE Begin(r)
        BY <1>0, <3>1 DEF Begin, DecorTypeOK, SaveRecord, At, serverVars
      <3>2. CASE Buy(r)
        BY <1>0, <3>2 DEF Buy, DecorTypeOK, SaveRecord, At, serverVars
      <3>3. CASE View(r)
        BY <1>0, <3>3 DEF View, DecorTypeOK, SaveRecord, At, serverVars
      <3>4. CASE Refuse(r)
        BY <1>0, <3>4 DEF Refuse, Ended, DecorTypeOK, SaveRecord, At, serverVars
      <3>. QED  BY <1>1, <3>1, <3>2, <3>3, <3>4
    <2>. QED  BY <2>1, SelectionKept DEF At
  <1>2. ASSUME NEW r \in Save, NEW s \in Selections, NEW by \in {"panel", "other"},
               Send(r, by, s), UNCHANGED serverVars
        PROVE  Ordered' /\ WholeSelection'
    <2>1. ~At(r, {"saved"})
      BY <1>2 DEF Send, At
    <2>. QED  BY <1>2, <2>1, SendLooks, SelectionKept DEF At, serverVars
  <1>3. ASSUME NEW o \in Ornament, GrantOwnership(o) PROVE Ordered' /\ WholeSelection'
    BY <1>3, SelectionKept DEF GrantOwnership, At
  <1>4. CASE Client
    <2>1. UNCHANGED serverVars
      BY <1>4, ClientKeepsServer
    <2>2. ASSUME NEW r \in Save, PressSave(r) PROVE Ordered' /\ WholeSelection'
      BY <1>2, <2>1, <2>2 DEF PressSave, DecorTypeOK
    <2>3. ASSUME NEW r \in Save, SaveAnswered(r) \/ SaveFailed(r) PROVE Ordered' /\ WholeSelection'
      <3>1. \A q \in Save : /\ save'[q].step = save[q].step /\ save'[q].wanted = save[q].wanted
                            /\ save'[q].gained = save[q].gained /\ save'[q].seen = save[q].seen
        BY <1>0, <2>3 DEF SaveAnswered, SaveFailed, DecorTypeOK, SaveRecord
      <3>. QED  BY <2>1, <3>1, SelectionKept DEF serverVars, At
    <2>4. CASE UNCHANGED save
      BY <2>1, <2>4, SelectionKept DEF serverVars, At
    <2>. QED
      BY <1>4, <2>2, <2>3, <2>4
         DEF Client, RequestPanel, Pick, ClosePanel, LeaveRoute, EnterRoute, Saved, Refocus,
             ReadSelection, ReadArrives, ReadFails
  <1>. QED  BY <1>1, <1>2, <1>3, <1>4, SelectionCommit DEF DecorNext, Service, OtherSave

\* The universe wears a selection somebody asked for in whole, unless a save
\* that paid nothing ran beside others.
THEOREM Whole == DecorSpec => []WholeSelection
  <1>1. DecorInit => Ordered /\ WholeSelection
    BY DEF DecorInit, Ordered, WholeSelection, At, Unused
  <1>2. DecorTypeOK /\ Account /\ Ordered /\ WholeSelection /\ [DecorNext]_decorVars
          => Ordered' /\ WholeSelection'
    <2>1. ASSUME Ordered, WholeSelection, UNCHANGED decorVars PROVE Ordered' /\ WholeSelection'
      BY <2>1, SelectionKept DEF decorVars, serverVars, At
    <2>. QED  BY <2>1, SelectionStep
  <1>. QED  BY <1>1, <1>2, DecorTypeCorrect, AccountInvariant, PTL DEF DecorSpec
=============================================================================
