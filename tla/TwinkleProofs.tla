--------------------------- MODULE TwinkleProofs ---------------------------
(***************************************************************************)
(* Proofs about the Twinkle ledger for any users, requests, number of      *)
(* open transactions, prices and time zones.                               *)
(***************************************************************************)
EXTENDS TwinkleRefinement, Sums, FiniteSetTheorems, TLAPS

-----------------------------------------------------------------------------
(* Type correctness *)

\* The start of a window is a natural number.
LEMMA TodayIsDay ==
    ASSUME clock \in Nat, NEW z \in Zones
    PROVE  Today(z) \in Nat
<1>1. z \in Nat /\ DayLength \in Nat \ {0}
  BY TwinkleAssumption
<1>2. QED
  BY <1>1, SMT DEF Today

\* The lazy refill never hands out more than a grant, nor less than nothing.
LEMMA SmallInGrant ==
    ASSUME NEW day \in Int, NEW row \in Row
    PROVE  SmallRemaining(day, row) \in 0..Grant
<1>1. Grant \in Nat
  BY TwinkleAssumption
<1>2. QED
  BY <1>1 DEF SmallRemaining, Most, Least, Row

\* A delta the row admits leaves a well-formed balance.
LEMMA MovedIsRow ==
    ASSUME NEW row \in Row, NEW e \in Entry
    PROVE  Moved(row, e) \in Row
BY DEF Moved, Row, Entry, Most

\* What a plan reads of a balance is well formed.
LEMMA RowSeenIsRow ==
    ASSUME TypeOK, NEW t \in Tx, NEW u \in User
    PROVE  RowSeen(t, u) \in Row
BY DEF TypeOK, RowSeen, Locked

\* What a transaction holds while it is open.
Shape(t) ==
    /\ pc[t] = "idle" => req[t] = None /\ written[t] = {}
    /\ pc[t] # "idle" => /\ req[t] \in Request
                         /\ party[t] \in {req[t].user, req[t].inviter}
                         /\ req[t].kind # "invite" => party[t] = req[t].user
    /\ pc[t] \in {"plan", "append", "apply"} => seen[t] \in Zones
    /\ pc[t] \notin {"append", "apply"} => draft[t] = None
    /\ draft[t] # None => draft[t].req = req[t] /\ draft[t].user = party[t]
    /\ pc[t] = "apply" => draft[t] \in written[t]

TypeInv == TypeOK /\ \A t \in Tx : Shape(t)

\* The fields of a request are of their types.
LEMMA RequestFields ==
    ASSUME NEW r \in Request
    PROVE  /\ r.kind \in Kinds /\ r.user \in User /\ r.inviter \in User
           /\ r.amount \in Nat \ {0}
           /\ r.kind = "invite" => r.user # r.inviter
BY TwinkleAssumption DEF Requests

\* Moving on to the next leg keeps the state well formed.
LEMMA NextLegKeepsType ==
    ASSUME TypeInv, NEW t \in Tx, pc[t] # "idle", NextLeg(t)
    PROVE  /\ party' \in [Tx -> User \cup {None}]
           /\ pc'[t] \in {"zone", "commit"}
           /\ pc' = [pc EXCEPT ![t] = pc'[t]]
           /\ party' = [party EXCEPT ![t] = party'[t]]
           /\ party'[t] \in {req[t].user, req[t].inviter}
           /\ req[t].kind # "invite" => party'[t] = req[t].user
<1>1. /\ req[t] \in Request /\ party[t] \in {req[t].user, req[t].inviter}
      /\ req[t].kind # "invite" => party[t] = req[t].user
  BY DEF TypeInv, Shape
<1>2. req[t].inviter \in User /\ req[t].user \in User
  BY <1>1, RequestFields
<1>3. CASE req[t].kind = "invite" /\ party[t] = req[t].user
  BY <1>1, <1>2, <1>3 DEF NextLeg, Goto, TypeInv, TypeOK
<1>4. CASE ~(req[t].kind = "invite" /\ party[t] = req[t].user)
  BY <1>1, <1>2, <1>4 DEF NextLeg, Goto, TypeInv, TypeOK
<1>5. QED
  BY <1>3, <1>4

\* The empty ledger is well formed.
LEMMA TypeInit == Init => TypeInv
BY TwinkleAssumption DEF Init, TypeInv, TypeOK, Shape, LazyBirth, Row

\* Every step keeps the ledger well formed.
LEMMA TypeStep == TypeInv /\ [Next]_vars => TypeInv'
<1> SUFFICES ASSUME TypeInv, [Next]_vars PROVE TypeInv'
  OBVIOUS
<1> USE DEF TypeInv
<1>none. None \notin Request \cup User \cup Entry \cup Row
  BY TwinkleAssumption
<1>1. ASSUME NEW t \in Tx, NEW r \in Request, Begin(t, r) PROVE TypeInv'
  BY <1>1, RequestFields DEF Begin, Goto, TypeOK, Shape, shared
<1>2. ASSUME NEW t \in Tx, LockInviter(t) PROVE TypeInv'
  BY <1>2 DEF LockInviter, Proceeds, Goto, TypeOK, Shape, shared
<1>3. ASSUME NEW t \in Tx, CountInvites(t) PROVE TypeInv'
  BY <1>3 DEF CountInvites, Goto, TypeOK, Shape, shared
<1>4. ASSUME NEW t \in Tx, ReadZone(t) PROVE TypeInv'
  <2>1. /\ pc[t] = "zone" /\ req[t] \in Request /\ draft[t] = None
        /\ party[t] \in {req[t].user, req[t].inviter}
    BY <1>4 DEF ReadZone, Shape
  <2>2. PICK next \in {"plan", "append"} : pc' = [pc EXCEPT ![t] = next]
    BY <1>4 DEF ReadZone, Goto
  <2>3. PICK z \in Zones : seen' = [seen EXCEPT ![t] = z]
    <3>1. party[t] \in User
      BY <2>1, RequestFields
    <3>2. zone[party[t]] \in Zones
      BY <3>1 DEF TypeOK
    <3>3. QED
      BY <1>4, <3>2 DEF ReadZone
  <2>4. UNCHANGED <<shared, req, party, draft, written, rows>>
    BY <1>4 DEF ReadZone
  <2>5. TypeOK'
    BY <2>2, <2>3, <2>4 DEF TypeOK, shared
  <2>6. \A q \in Tx : Shape(q)'
    <3>1. Shape(t)'
      BY <2>1, <2>2, <2>3, <2>4 DEF TypeOK, Shape, shared
    <3>2. ASSUME NEW q \in Tx \ {t} PROVE Shape(q)'
      <4>1. pc'[q] = pc[q] /\ seen'[q] = seen[q]
        BY <2>2, <2>3 DEF TypeOK
      <4>2. QED
        BY <2>4, <4>1 DEF Shape
    <3>3. QED
      BY <3>1, <3>2
  <2>7. QED
    BY <2>5, <2>6
<1>5. ASSUME NEW t \in Tx, NEW cost \in Costs, Plan(t, cost) PROVE TypeInv'
  <2> DEFINE row   == RowSeen(t, party[t])
             small == FromSmall(req[t].kind, Today(seen[t]), row, cost)
             e     == [req |-> req[t], user |-> party[t], credit |-> 0,
                       small |-> small, general |-> cost - small,
                       window |-> Today(seen[t])]
  <2>1. req[t] \in Request /\ party[t] \in User /\ seen[t] \in Zones
    BY <1>5, RequestFields DEF Plan, TypeOK, Shape
  <2>2. Today(seen[t]) \in Nat
    BY <2>1, TodayIsDay DEF TypeOK
  <2>3. row \in Row
    BY <2>1, RowSeenIsRow
  <2>4. cost \in Nat
    BY TwinkleAssumption
  <2>5. small \in 0..cost
    <3>1. SmallRemaining(Today(seen[t]), row) \in Nat
      BY <2>2, <2>3, SmallInGrant, TwinkleAssumption
    <3> HIDE DEF row
    <3>2. QED
      BY <3>1, <2>4 DEF FromSmall, Least
  <2> HIDE DEF small
  <2>6. e \in Entry
    BY <2>1, <2>2, <2>4, <2>5 DEF Entry
  <2>7. /\ draft' = [draft EXCEPT ![t] = e]
        /\ pc' = [pc EXCEPT ![t] = "append"]
        /\ UNCHANGED <<shared, req, party, seen, written, rows>>
    BY <1>5 DEF Plan, Goto, small
  <2>8. e.req = req[t] /\ e.user = party[t] /\ pc[t] = "plan"
    BY <1>5 DEF Plan
  <2> HIDE DEF e
  <2>9. QED
    BY <2>1, <2>6, <2>7, <2>8 DEF TypeOK, Shape, shared
<1>6. ASSUME NEW t \in Tx, Append(t) PROVE TypeInv'
  <2>1. /\ pc[t] = "append" /\ req[t] \in Request /\ party[t] \in User /\ seen[t] \in Zones
        /\ req[t].inviter \in User
    BY <1>6, RequestFields DEF Append, Proceeds, TypeOK, Shape
  <2>2. Today(seen[t]) \in Nat
    BY <2>1, TodayIsDay DEF TypeOK
  <2>3. Planned(t) \in Entry /\ Planned(t).req = req[t] /\ Planned(t).user = party[t]
    BY <2>1, <2>2, RequestFields DEF Planned, Entry, TypeOK, Shape
  <2>4. UNCHANGED <<shared, req, seen, rows>>
    BY <1>6 DEF Append
  <2>5. CASE Keyed(ledger \cup written[t], req[t], party[t])
    <3>1. /\ draft' = [draft EXCEPT ![t] = None] /\ UNCHANGED written /\ NextLeg(t)
      BY <1>6, <2>5 DEF Append
    <3>2. QED
      BY <3>1, <2>1, <2>4, NextLegKeepsType DEF TypeOK, Shape, shared
  <2>6. CASE ~Keyed(ledger \cup written[t], req[t], party[t])
    <3>1. /\ pc' = [pc EXCEPT ![t] = "apply"]
          /\ draft' = [draft EXCEPT ![t] = Planned(t)]
          /\ written' = [written EXCEPT ![t] = @ \cup {Planned(t)}]
          /\ UNCHANGED party
      BY <1>6, <2>6 DEF Append, Goto
    <3>2. QED
      BY <3>1, <2>1, <2>3, <2>4 DEF TypeOK, Shape, shared
  <2>7. QED
    BY <2>5, <2>6
<1>7. ASSUME NEW t \in Tx, Apply(t) PROVE TypeInv'
  <2>1. /\ pc[t] = "apply" /\ req[t] \in Request /\ party[t] \in User /\ draft[t] \in Entry
        /\ req[t].inviter \in User
    BY <1>7, RequestFields DEF Apply, Proceeds, TypeOK, Shape
  <2>2. Moved(RowSeen(t, party[t]), draft[t]) \in Row
    BY <2>1, RowSeenIsRow, MovedIsRow
  <2>3. /\ rows' = [rows EXCEPT ![t][party[t]] = Moved(RowSeen(t, party[t]), draft[t])]
        /\ draft' = [draft EXCEPT ![t] = None]
        /\ UNCHANGED <<shared, req, seen, written>>
        /\ NextLeg(t)
    BY <1>7 DEF Apply
  <2>4. rows' \in [Tx -> [User -> Row \cup {None}]]
    BY <2>1, <2>2, <2>3 DEF TypeOK
  <2>5. /\ pc'[t] \in {"zone", "commit"} /\ pc' = [pc EXCEPT ![t] = pc'[t]]
        /\ party' \in [Tx -> User \cup {None}] /\ party' = [party EXCEPT ![t] = party'[t]]
        /\ party'[t] \in {req[t].user, req[t].inviter}
        /\ req[t].kind # "invite" => party'[t] = req[t].user
    BY <2>1, <2>3, NextLegKeepsType
  <2>6. TypeOK'
    BY <2>3, <2>4, <2>5 DEF TypeOK, shared
  <2>7. Shape(t)'
    BY <2>1, <2>3, <2>5 DEF TypeOK, Shape
  <2>8. ASSUME NEW q \in Tx \ {t} PROVE Shape(q)'
    <3>1. pc'[q] = pc[q] /\ party'[q] = party[q] /\ draft'[q] = draft[q]
      BY <2>3, <2>5 DEF TypeOK
    <3>2. QED
      BY <2>3, <3>1 DEF Shape
  <2>9. QED
    BY <2>6, <2>7, <2>8
<1>8. ASSUME NEW t \in Tx, Commit(t) PROVE TypeInv'
  BY <1>8, RowSeenIsRow DEF Commit, End, Goto, TypeOK, Shape
<1>9. ASSUME NEW t \in Tx, Rollback(t) PROVE TypeInv'
  BY <1>9 DEF Rollback, End, Goto, TypeOK, Shape, shared
<1>10. ASSUME NEW u \in User, NEW z \in Zones, ChangeZone(u, z) PROVE TypeInv'
  BY <1>10 DEF ChangeZone, TypeOK, Shape
<1>11. CASE Tick
  BY <1>11 DEF Tick, TypeOK, Shape
<1>12. CASE UNCHANGED vars
  BY <1>12 DEF vars, shared, TypeOK, Shape
<1>13. QED
  BY <1>1, <1>2, <1>3, <1>4, <1>5, <1>6, <1>7, <1>8, <1>9, <1>10, <1>11, <1>12
     DEF Next, Step

\* Every state of the ledger is well typed, whatever interleaving of
\* transactions, retries, rollbacks and clock steps led to it.
THEOREM TypeCorrect == Spec => []TypeOK
<1>1. Init => TypeInv
  BY TypeInit
<1>2. TypeInv /\ [Next]_vars => TypeInv'
  BY TypeStep
<1>3. TypeInv => TypeOK
  BY DEF TypeInv
<1>4. QED
  BY <1>1, <1>2, <1>3, PTL DEF Spec

-----------------------------------------------------------------------------
(* What open transactions hold: keys, row locks and the rows they moved *)

Early == {"lock", "count", "zone", "plan", "append"}

WriteShape(t) ==
    /\ \A e \in written[t] : e.req = req[t] /\ e.user \in {req[t].user, req[t].inviter}
    /\ \A e, f \in written[t] : e.user = f.user => e = f
    /\ pc[t] \in Early => \A e \in written[t] : e.user # party[t]
    /\ pc[t] \in Early \cup {"apply"} /\ party[t] = req[t].user =>
         \A e \in written[t] : e.user = req[t].user

RowShape(t) ==
    /\ \A u \in User : Locked(t, u) =>
         \E e \in written[t] : /\ e.user = u
                               /\ rows[t][u] = Moved(balance[u], e)
                               /\ Admitted(rows[t][u])
    /\ \A e \in written[t] : Locked(t, e.user) \/ (pc[t] = "apply" /\ party[t] = e.user)
    /\ pc[t] = "apply" => ~Locked(t, party[t])

RowLocksExclude ==
    \A s, t \in Tx, u \in User : Locked(s, u) /\ Locked(t, u) => s = t

KeysExclude ==
    /\ \A s, t \in Tx : \A e \in written[s], f \in written[t] :
         e.req = f.req /\ e.user = f.user => s = t
    /\ \A t \in Tx : \A e \in written[t] : ~Keyed(ledger, e.req, e.user)

BalancesAdmitted ==
    \A u \in User : Admitted(balance[u]) /\ balance[u].spent >= 0 /\ balance[u].window >= -1

LockInv ==
    /\ TypeInv
    /\ \A t \in Tx : WriteShape(t)
    /\ \A t \in Tx : RowShape(t)
    /\ RowLocksExclude
    /\ KeysExclude
    /\ MovedOnce
    /\ BalancesAdmitted

\* No lock is held at first.
LEMMA LockInit == Init => LockInv
<1> SUFFICES ASSUME Init PROVE LockInv
  OBVIOUS
<1>1. TypeInv
  BY TypeInit
<1>2. \A t \in Tx : WriteShape(t) /\ RowShape(t)
  BY DEF Init, WriteShape, RowShape, Locked, Early
<1>3. RowLocksExclude /\ KeysExclude /\ MovedOnce
  BY DEF Init, RowLocksExclude, KeysExclude, MovedOnce, Locked
<1>4. BalancesAdmitted
  BY TwinkleAssumption DEF Init, BalancesAdmitted, Admitted, LazyBirth
<1>5. QED
  BY <1>1, <1>2, <1>3, <1>4 DEF LockInv

\* Steps that write nothing: only pc, party, seen or draft of t may move.
LEMMA QuietStep ==
    ASSUME LockInv, TypeInv', NEW t \in Tx,
           UNCHANGED <<ledger, balance, written, rows>>,
           \A s \in Tx \ {t} : pc'[s] = pc[s] /\ party'[s] = party[s] /\ req'[s] = req[s],
           WriteShape(t)', RowShape(t)'
    PROVE  LockInv'
<1>1. \A s \in Tx : WriteShape(s)'
  BY DEF LockInv, WriteShape
<1>2. \A s \in Tx : RowShape(s)'
  BY DEF LockInv, RowShape, Locked
<1>3. (RowLocksExclude /\ KeysExclude /\ MovedOnce /\ BalancesAdmitted)'
  BY DEF LockInv, RowLocksExclude, KeysExclude, MovedOnce, BalancesAdmitted, Locked, Keyed, Admitted
<1>4. QED
  BY <1>1, <1>2, <1>3 DEF LockInv

\* Moving on to the inviter's leg, or to the commit, after party's leg is done.
LEMMA NextLegQuiet ==
    ASSUME LockInv, NEW t \in Tx, pc[t] \in {"append", "apply"}, NextLeg(t)
    PROVE  /\ \A s \in Tx \ {t} : pc'[s] = pc[s] /\ party'[s] = party[s]
           /\ pc'[t] \in {"zone", "commit"}
           /\ pc'[t] = "zone" => /\ party[t] = req[t].user
                                 /\ party'[t] = req[t].inviter
                                 /\ req[t].user # req[t].inviter
<1>1. /\ req[t] \in Request /\ party[t] \in {req[t].user, req[t].inviter}
      /\ pc \in [Tx -> {"idle", "lock", "count", "zone", "plan", "append", "apply", "commit"}]
      /\ party \in [Tx -> User \cup {None}]
  BY DEF LockInv, TypeInv, TypeOK, Shape
<1>2. req[t].kind = "invite" => req[t].user # req[t].inviter
  BY <1>1, RequestFields
<1>3. CASE req[t].kind = "invite" /\ party[t] = req[t].user
  BY <1>1, <1>2, <1>3 DEF NextLeg, Goto
<1>4. CASE ~(req[t].kind = "invite" /\ party[t] = req[t].user)
  BY <1>1, <1>4 DEF NextLeg, Goto
<1>5. QED
  BY <1>3, <1>4

\* An append takes its key, or waits for the transaction that has it.
LEMMA AppendKeepsLocks == ASSUME LockInv, TypeInv', NEW t \in Tx, Append(t) PROVE LockInv'
<1>1. /\ pc[t] = "append" /\ req[t] \in Request /\ party[t] \in User
      /\ UNCHANGED <<shared, req, seen, rows>>
      /\ party[t] \in {req[t].user, req[t].inviter}
      /\ WriteShape(t) /\ RowShape(t)
  BY RequestFields DEF Append, Proceeds, LockInv, TypeInv, TypeOK, Shape
<1>2. \A s \in Tx \ {t} : ~Keyed(written[s], req[t], party[t])
  BY <1>1 DEF Append, Proceeds, Waits
<1>3. CASE Keyed(ledger \cup written[t], req[t], party[t])
  <2>1. NextLeg(t) /\ UNCHANGED written
    BY <1>3 DEF Append
  <2>2. WriteShape(t)'
    BY <1>1, <2>1, NextLegQuiet DEF WriteShape, Early
  <2>3. RowShape(t)'
    BY <1>1, <2>1, NextLegQuiet DEF RowShape, Locked, shared
  <2>4. QED
    BY <1>1, <2>1, <2>2, <2>3, NextLegQuiet, QuietStep DEF shared
<1>4. CASE ~Keyed(ledger \cup written[t], req[t], party[t])
  <2> DEFINE e == Planned(t)
  <2>1. /\ pc' = [pc EXCEPT ![t] = "apply"]
        /\ written' = [written EXCEPT ![t] = @ \cup {e}]
        /\ UNCHANGED <<shared, req, seen, rows, party>>
    BY <1>1, <1>4 DEF Append, Goto
  <2>2. e.req = req[t] /\ e.user = party[t]
    BY <1>1 DEF Planned, LockInv, TypeInv, Shape
  <2>3. ~Keyed(ledger, req[t], party[t])
    BY <1>4 DEF Keyed
  <2> HIDE DEF e
  <2>4. pc \in [Tx -> {"idle", "lock", "count", "zone", "plan", "append", "apply", "commit"}]
        /\ written \in [Tx -> SUBSET Entry]
    BY DEF LockInv, TypeInv, TypeOK
  <2>5. \A s \in Tx : WriteShape(s)'
    BY <1>1, <2>1, <2>2, <2>4 DEF LockInv, WriteShape, Early
  <2>6. ~Locked(t, party[t])
    BY <1>1 DEF WriteShape, RowShape, Early
  <2>7. \A s \in Tx : RowShape(s)'
    BY <1>1, <2>1, <2>2, <2>4, <2>6 DEF LockInv, RowShape, Locked, shared
  <2>8. (RowLocksExclude /\ MovedOnce /\ BalancesAdmitted)'
    BY <2>1 DEF LockInv, RowLocksExclude, MovedOnce, BalancesAdmitted, Locked, Admitted, shared
  <2>9. KeysExclude'
    BY <1>2, <2>1, <2>2, <2>3, <2>4 DEF LockInv, KeysExclude, Keyed, shared
  <2>10. QED
    BY <2>5, <2>7, <2>8, <2>9 DEF LockInv
<1>5. QED
  BY <1>3, <1>4

\* An update takes its row, or waits for the transaction that has it.
LEMMA ApplyKeepsLocks == ASSUME LockInv, TypeInv', NEW t \in Tx, Apply(t) PROVE LockInv'
<1> DEFINE u0  == party[t]
           new == Moved(RowSeen(t, u0), draft[t])
<1>1. /\ pc[t] = "apply" /\ req[t] \in Request /\ u0 \in User
      /\ UNCHANGED <<shared, req, seen, written>>
      /\ u0 \in {req[t].user, req[t].inviter}
      /\ WriteShape(t) /\ RowShape(t)
      /\ draft[t] \in written[t] /\ draft[t].user = u0
      /\ draft[t] \in Entry
      /\ NextLeg(t) /\ Admitted(new)
      /\ rows' = [rows EXCEPT ![t][u0] = new]
  BY RequestFields, TwinkleAssumption DEF Apply, Proceeds, LockInv, TypeInv, TypeOK, Shape
<1>2. \A s \in Tx \ {t} : ~Locked(s, u0)
  BY <1>1 DEF Apply, Proceeds, Waits
<1>3. new = Moved(balance[u0], draft[t])
  BY <1>1 DEF RowSeen, RowShape
<1>4. new # None
  <2>1. new \in Row
    BY <1>1, RowSeenIsRow, MovedIsRow DEF LockInv, TypeInv
  <2>2. QED
    BY <2>1, TwinkleAssumption
<1> HIDE DEF new
<1>5. rows \in [Tx -> [User -> Row \cup {None}]]
  BY DEF LockInv, TypeInv, TypeOK
<1>6. \A s \in Tx, u \in User : rows'[s][u] = IF s = t /\ u = u0 THEN new ELSE rows[s][u]
  BY <1>1, <1>5
<1>7. \A s \in Tx, u \in User : Locked(s, u)' <=> Locked(s, u) \/ (s = t /\ u = u0)
  BY <1>4, <1>6 DEF Locked
<1>8. \A s \in Tx : WriteShape(s)'
  BY <1>1, NextLegQuiet DEF LockInv, WriteShape, Early
<1>9. \A s \in Tx : RowShape(s)'
  <2>1. ASSUME NEW s \in Tx, s # t PROVE RowShape(s)'
    <3>1. RowShape(s) /\ pc'[s] = pc[s] /\ party'[s] = party[s] /\ written'[s] = written[s]
          /\ balance' = balance
      BY <1>1, <2>1, NextLegQuiet DEF LockInv, shared
    <3>2. \A u \in User : rows'[s][u] = rows[s][u]
      BY <1>6, <2>1
    <3>3. pc[s] = "apply" => party[s] \in User
      BY RequestFields DEF LockInv, TypeInv, Shape
    <3>4. \A e \in written[s] : e.user \in User
      BY DEF LockInv, TypeInv, TypeOK, Entry
    <3>5. QED
      BY <3>1, <3>2, <3>3, <3>4 DEF RowShape, Locked
  <2>2. RowShape(t)'
    <3>1. /\ pc'[t] \in {"zone", "commit"} /\ written'[t] = written[t] /\ balance' = balance
      BY <1>1, NextLegQuiet DEF shared
    <3>2. \A e \in written[t] : e.user \in User
      BY DEF LockInv, TypeInv, TypeOK, Entry
    <3>3. \A u \in User : Locked(t, u)' =>
            \E e \in written[t] : /\ e.user = u
                                  /\ rows'[t][u] = Moved(balance[u], e)
                                  /\ Admitted(rows'[t][u])
      BY <1>1, <1>3, <1>6, <1>7 DEF RowShape
    <3>4. \A e \in written[t] : Locked(t, e.user)'
      BY <1>1, <1>7, <3>2 DEF RowShape
    <3>5. QED
      BY <3>1, <3>3, <3>4 DEF RowShape, Moved, Most, Admitted
  <2>3. QED
    BY <2>1, <2>2
<1>10. RowLocksExclude'
  BY <1>2, <1>7 DEF LockInv, RowLocksExclude
<1>11. (KeysExclude /\ MovedOnce /\ BalancesAdmitted)'
  BY <1>1 DEF LockInv, KeysExclude, MovedOnce, BalancesAdmitted, Keyed, Admitted, shared
<1>12. QED
  BY <1>8, <1>9, <1>10, <1>11 DEF LockInv

\* What the commit of t publishes, as the other transactions and the contract see it.
LEMMA CommitFacts ==
    ASSUME LockInv, NEW t \in Tx, Commit(t)
    PROVE  /\ pc[t] = "commit" /\ req[t] \in Request
           /\ ledger' = ledger \cup written[t]
           /\ written[t] \subseteq Entry
           /\ written' = [written EXCEPT ![t] = {}]
           /\ \A e \in written[t] : e.req = req[t] /\ e.user \in User /\ e \notin ledger
           /\ \A u \in User :
                \/ \E e \in written[t] : /\ e.user = u
                                         /\ Locked(t, u)
                                         /\ balance'[u] = Moved(balance[u], e)
                                         /\ Admitted(balance'[u])
                \/ /\ \A e \in written[t] : e.user # u
                   /\ ~Locked(t, u)
                   /\ balance'[u] = balance[u]
<1>1. /\ pc[t] = "commit" /\ req[t] \in Request
      /\ ledger' = ledger \cup written[t]
      /\ written[t] \subseteq Entry
      /\ written' = [written EXCEPT ![t] = {}]
      /\ balance' = [u \in User |-> RowSeen(t, u)]
      /\ WriteShape(t) /\ RowShape(t)
  BY DEF Commit, End, LockInv, TypeInv, TypeOK, Shape
<1>2. \A e \in written[t] : e.req = req[t] /\ e.user \in User /\ e \notin ledger
  <2>1. \A e \in written[t] : ~Keyed(ledger, e.req, e.user)
    BY DEF LockInv, KeysExclude
  <2>2. QED
    BY <1>1, <2>1 DEF WriteShape, Entry, Keyed
<1>3. ASSUME NEW u \in User
      PROVE  \/ \E e \in written[t] : /\ e.user = u
                                      /\ Locked(t, u)
                                      /\ balance'[u] = Moved(balance[u], e)
                                      /\ Admitted(balance'[u])
             \/ /\ \A e \in written[t] : e.user # u
                /\ ~Locked(t, u)
                /\ balance'[u] = balance[u]
  <2>1. balance'[u] = RowSeen(t, u)
    BY <1>1
  <2>2. CASE Locked(t, u)
    <3>1. PICK e \in written[t] : /\ e.user = u
                                  /\ rows[t][u] = Moved(balance[u], e)
                                  /\ Admitted(rows[t][u])
      BY <1>1, <2>2 DEF RowShape
    <3>2. balance'[u] = rows[t][u]
      BY <2>1, <2>2 DEF RowSeen
    <3>3. Admitted(balance'[u])
      BY <3>1, <3>2 DEF Admitted
    <3>4. balance'[u] = Moved(balance[u], e)
      BY <3>1, <3>2
    <3>5. QED
      BY <3>1, <3>3, <3>4, <2>2
  <2>3. CASE ~Locked(t, u)
    BY <1>1, <2>1, <2>3 DEF RowShape, RowSeen
  <2>4. QED
    BY <2>2, <2>3
<1>4. QED
  BY <1>1, <1>2, <1>3

\* A commit publishes what its locks protected and drops them.
LEMMA CommitKeepsLocks == ASSUME LockInv, TypeInv', NEW t \in Tx, Commit(t) PROVE LockInv'
<1>1. /\ pc' = [pc EXCEPT ![t] = "idle"] /\ req' = [req EXCEPT ![t] = None]
      /\ party' = [party EXCEPT ![t] = None]
      /\ rows' = [rows EXCEPT ![t] = [u \in User |-> None]]
  BY DEF Commit, End, Goto
<1>2. /\ ledger' = ledger \cup written[t]
      /\ written' = [written EXCEPT ![t] = {}]
      /\ written[t] \subseteq Entry
  BY CommitFacts
<1>3. /\ pc \in [Tx -> {"idle", "lock", "count", "zone", "plan", "append", "apply", "commit"}]
      /\ req \in [Tx -> Request \cup {None}] /\ party \in [Tx -> User \cup {None}]
      /\ rows \in [Tx -> [User -> Row \cup {None}]]
      /\ written \in [Tx -> SUBSET Entry]
      /\ balance \in [User -> Row]
  BY DEF LockInv, TypeInv, TypeOK
<1>4. \A s \in Tx : WriteShape(s)'
  BY <1>1, <1>2, <1>3 DEF LockInv, WriteShape, Early
<1>5. \A s \in Tx : RowShape(s)'
  <2>1. ASSUME NEW s \in Tx, s # t PROVE RowShape(s)'
    <3>1. /\ RowShape(s) /\ pc'[s] = pc[s] /\ party'[s] = party[s]
          /\ written'[s] = written[s] /\ rows'[s] = rows[s]
      BY <1>1, <1>2, <1>3, <2>1 DEF LockInv
    <3>2. \A u \in User : Locked(s, u) => balance'[u] = balance[u]
      <4> SUFFICES ASSUME NEW u \in User, Locked(s, u) PROVE balance'[u] = balance[u]
        OBVIOUS
      <4>1. ~Locked(t, u)
        BY <2>1 DEF LockInv, RowLocksExclude
      <4>2. QED
        BY <4>1, CommitFacts
    <3>3. \A u \in User : Locked(s, u)' <=> Locked(s, u)
      BY <3>1 DEF Locked
    <3>4. \A u \in User : Locked(s, u)' =>
            \E e \in written[s] : /\ e.user = u
                                  /\ rows[s][u] = Moved(balance'[u], e)
                                  /\ Admitted(rows[s][u])
      BY <3>1, <3>2, <3>3 DEF RowShape
    <3>5. /\ \A e \in written[s] : Locked(s, e.user)' \/ (pc[s] = "apply" /\ party[s] = e.user)
          /\ pc[s] = "apply" => ~Locked(s, party[s])'
      BY <3>1 DEF RowShape, Locked
    <3>6. QED
      BY <3>1, <3>4, <3>5 DEF RowShape, Moved, Admitted, Most
  <2>2. RowShape(t)'
    BY <1>1, <1>2, <1>3 DEF RowShape, Locked
  <2>3. QED
    BY <2>1, <2>2
<1>6. RowLocksExclude'
  BY <1>1, <1>3 DEF LockInv, RowLocksExclude, Locked
<1>7. KeysExclude'
  BY <1>2, <1>3 DEF LockInv, KeysExclude, Keyed
<1>8. MovedOnce'
  BY <1>2, CommitFacts DEF LockInv, MovedOnce, KeysExclude, WriteShape, Keyed
<1>9. BalancesAdmitted'
  <2> SUFFICES ASSUME NEW u \in User
               PROVE  Admitted(balance'[u]) /\ balance'[u].spent >= 0 /\ balance'[u].window >= -1
    BY DEF BalancesAdmitted, Admitted
  <2>1. Admitted(balance[u]) /\ balance[u].spent >= 0 /\ balance[u].window >= -1
        /\ balance[u] \in Row
    BY <1>3 DEF LockInv, BalancesAdmitted
  <2>2. CASE \E e \in written[t] : /\ e.user = u
                                   /\ balance'[u] = Moved(balance[u], e)
                                   /\ Admitted(balance'[u])
    BY <1>2, <2>1, <2>2 DEF Moved, Most, Row, Entry
  <2>3. CASE balance'[u] = balance[u]
    BY <2>1, <2>3
  <2>4. QED
    BY <2>2, <2>3, CommitFacts
<1>10. QED
  BY <1>4, <1>5, <1>6, <1>7, <1>8, <1>9 DEF LockInv

\* A rollback drops its locks and publishes nothing.
LEMMA RollbackKeepsLocks == ASSUME LockInv, TypeInv', NEW t \in Tx, Rollback(t) PROVE LockInv'
<1>1. /\ pc' = [pc EXCEPT ![t] = "idle"] /\ req' = [req EXCEPT ![t] = None]
      /\ party' = [party EXCEPT ![t] = None]
      /\ rows' = [rows EXCEPT ![t] = [u \in User |-> None]]
      /\ written' = [written EXCEPT ![t] = {}]
      /\ UNCHANGED shared
  BY DEF Rollback, End, Goto
<1>2. /\ pc \in [Tx -> {"idle", "lock", "count", "zone", "plan", "append", "apply", "commit"}]
      /\ req \in [Tx -> Request \cup {None}] /\ party \in [Tx -> User \cup {None}]
      /\ rows \in [Tx -> [User -> Row \cup {None}]]
      /\ written \in [Tx -> SUBSET Entry]
  BY DEF LockInv, TypeInv, TypeOK
<1>3. \A s \in Tx : WriteShape(s)'
  BY <1>1, <1>2 DEF LockInv, WriteShape, Early
<1>4. \A s \in Tx : RowShape(s)'
  BY <1>1, <1>2 DEF LockInv, RowShape, Locked, shared
<1>5. (RowLocksExclude /\ KeysExclude)'
  BY <1>1, <1>2 DEF LockInv, RowLocksExclude, KeysExclude, Locked, Keyed, shared
<1>6. (MovedOnce /\ BalancesAdmitted)'
  BY <1>1 DEF LockInv, MovedOnce, BalancesAdmitted, Admitted, shared
<1>7. QED
  BY <1>3, <1>4, <1>5, <1>6 DEF LockInv

\* Every step keeps what the locks protect.
LEMMA LockStep == LockInv /\ [Next]_vars => LockInv'
<1> SUFFICES ASSUME LockInv, [Next]_vars PROVE LockInv'
  OBVIOUS
<1>type. TypeInv' /\ TypeInv
  BY TypeStep DEF LockInv
<1>dom. /\ pc \in [Tx -> {"idle", "lock", "count", "zone", "plan", "append", "apply", "commit"}]
        /\ req \in [Tx -> Request \cup {None}] /\ party \in [Tx -> User \cup {None}]
        /\ written \in [Tx -> SUBSET Entry]
  BY <1>type DEF TypeInv, TypeOK
<1>1. ASSUME NEW t \in Tx, NEW r \in Request, Begin(t, r) PROVE LockInv'
  <2>1. /\ pc[t] = "idle" /\ written[t] = {} /\ \A u \in User : ~Locked(t, u)
        /\ pc'[t] \in {"lock", "zone"}
        /\ UNCHANGED <<ledger, balance, written, rows>>
    BY <1>1, <1>dom, <1>type
       DEF Begin, Goto, TypeInv, Shape, LockInv, RowShape, WriteShape, shared
  <2>2. WriteShape(t)' /\ RowShape(t)'
    BY <2>1 DEF WriteShape, RowShape, Locked
  <2>3. \A s \in Tx \ {t} : pc'[s] = pc[s] /\ party'[s] = party[s] /\ req'[s] = req[s]
    BY <1>1, <1>dom DEF Begin, Goto
  <2>4. QED
    BY <1>type, <2>1, <2>2, <2>3, QuietStep
<1>2. ASSUME NEW t \in Tx,
             LockInviter(t) \/ CountInvites(t) \/ ReadZone(t) \/ \E c \in Costs : Plan(t, c)
      PROVE  LockInv'
  <2>1. /\ UNCHANGED <<ledger, balance, written, rows, req, party>>
        /\ \A s \in Tx \ {t} : pc'[s] = pc[s]
        /\ pc[t] \in Early /\ pc'[t] \in Early
    BY <1>2, <1>dom
       DEF LockInviter, CountInvites, ReadZone, Plan, Proceeds, Goto, Early, shared
  <2>2. WriteShape(t)' /\ RowShape(t)'
    BY <2>1 DEF LockInv, WriteShape, RowShape, Locked, Early
  <2>3. QED
    BY <1>type, <2>1, <2>2, QuietStep
<1>3. ASSUME NEW t \in Tx, Append(t) PROVE LockInv'
  BY <1>3, <1>type, AppendKeepsLocks
<1>4. ASSUME NEW t \in Tx, Apply(t) PROVE LockInv'
  BY <1>4, <1>type, ApplyKeepsLocks
<1>5. ASSUME NEW t \in Tx, Commit(t) PROVE LockInv'
  BY <1>5, <1>type, CommitKeepsLocks
<1>6. ASSUME NEW t \in Tx, Rollback(t) PROVE LockInv'
  BY <1>6, <1>type, RollbackKeepsLocks
<1>7. ASSUME UNCHANGED <<ledger, balance, pc, req, party, seen, draft, written, rows>>
      PROVE  LockInv'
  BY <1>7, <1>type
     DEF LockInv, WriteShape, RowShape, RowLocksExclude, KeysExclude, MovedOnce,
         BalancesAdmitted, Locked, Keyed, Admitted, Early
<1>8. QED
  BY <1>1, <1>2, <1>3, <1>4, <1>5, <1>6, <1>7 DEF Next, Step, ChangeZone, Tick, vars, shared

\* A request is charged or credited at most once, for any number of
\* connections that serve it at the same time and any number of retries.
THEOREM ChargedOnce == Spec => []MovedOnce
<1>1. Init => LockInv
  BY LockInit
<1>2. LockInv /\ [Next]_vars => LockInv'
  BY LockStep
<1>3. LockInv => MovedOnce
  BY DEF LockInv
<1>4. QED
  BY <1>1, <1>2, <1>3, PTL DEF Spec

-----------------------------------------------------------------------------
(* The ledger implements its contract *)

\* The empty ledger is the contract's.
LEMMA ContractInit == Init => Contract!Init
BY DEF Init, Contract!Init, Contract!NewUser, LazyBirth

\* Every step of the statements is one whole posting of the contract or none.
LEMMA ContractStep ==
    ASSUME LockInv, LockInv', NEW t \in Tx, Commit(t)
    PROVE  Contract!Next
<1> DEFINE E == ledger' \ ledger
<1>1. E = written[t] /\ ledger \subseteq ledger'
  BY CommitFacts
<1>2. E \subseteq Contract!Entry
  BY <1>1, CommitFacts DEF Contract!Entry, Entry
<1>3. Contract!Fresh(E)
  BY <1>1, CommitFacts DEF LockInv, MovedOnce, Contract!Fresh
<1>4. Contract!Whole(E)
  <2> SUFFICES ASSUME NEW e \in E, e.req.kind = "invite",
                      NEW u \in {e.req.user, e.req.inviter}
               PROVE  \E f \in E : f.req = e.req /\ f.user = u
    BY DEF Contract!Whole
  <2>1. e.req = req[t] /\ e.user \in {req[t].user, req[t].inviter}
    BY <1>1 DEF LockInv, WriteShape
  <2>2. LegsAgree(t)
    BY DEF Commit
  <2>3. Keyed(written[t], req[t], req[t].user) /\ Keyed(written[t], req[t], req[t].inviter)
    BY <1>1, <2>1, <2>2 DEF LegsAgree, Keyed
  <2>4. QED
    BY <1>1, <2>1, <2>3 DEF Keyed
<1>5. \A e, f \in E : e.req = f.req
  BY <1>1, CommitFacts
<1>6. balance \in [User -> Row] /\ balance' \in [User -> Row]
  BY DEF LockInv, TypeInv, TypeOK
<1>7. \A u \in User :
        \/ \E e \in E : e.user = u /\ Contract!Moved(balance[u], balance'[u], e)
        \/ (\A e \in E : e.user # u) /\ balance'[u] = balance[u]
  <2> SUFFICES ASSUME NEW u \in User, NEW e \in written[t], e.user = u,
                      balance'[u] = Moved(balance[u], e)
               PROVE  Contract!Moved(balance[u], balance'[u], e)
    BY <1>1, CommitFacts
  <2>1. balance[u] \in Row /\ e \in Entry
    BY <1>6, CommitFacts
  <2>2. QED
    BY <2>1 DEF Moved, Contract!Moved, Most, Row, Entry
<1>8. balance' \in [User -> Contract!Row]
  <2>1. \A u \in User : balance'[u] \in Contract!Row
    BY <1>6, TwinkleAssumption DEF LockInv, BalancesAdmitted, Admitted, Row, Contract!Row
  <2>2. QED
    BY <1>6, <2>1
<1> HIDE DEF E
<1>9. Contract!Post(E)
  BY <1>2, <1>3, <1>4, <1>5, <1>7 DEF Contract!Post
<1>10. QED
  BY <1>1, <1>8, <1>9 DEF Contract!Next, E

\* Whatever the transactions do, the log and the balances move as the contract
\* says: one request at a time, whole, once, never into debt and never past a
\* grant per window.
THEOREM ContractKept == Spec => ImplementsContract
<1>1. Init => LockInv /\ Contract!Init
  BY LockInit, ContractInit
<1>2. LockInv /\ [Next]_vars => LockInv'
  BY LockStep
<1>3. LockInv /\ LockInv' /\ [Next]_vars => [Contract!Next]_(Contract!vars)
  <2> SUFFICES ASSUME LockInv, LockInv', [Next]_vars
               PROVE  Contract!Next \/ UNCHANGED Contract!vars
    OBVIOUS
  <2>1. CASE \E t \in Tx : Commit(t)
    BY <2>1, ContractStep
  <2>2. CASE ~\E t \in Tx : Commit(t)
    BY <2>2 DEF Next, Step, Begin, LockInviter, CountInvites, ReadZone, Plan, Append, Apply,
                Rollback, ChangeZone, Tick, vars, shared, Contract!vars
  <2>3. QED
    BY <2>1, <2>2
<1>4. QED
  BY <1>1, <1>2, <1>3, PTL DEF Spec, ImplementsContract, Contract!Spec

-----------------------------------------------------------------------------
(* Invites *)

Counted(t) == pc[t] \notin {"idle", "lock", "count"} /\ req[t].kind = "invite"

InviteInv ==
    /\ LockInv
    /\ IsFiniteSet(ledger) /\ \A t \in Tx : IsFiniteSet(written[t])
    /\ \A s, t \in Tx, u \in User : HoldsInviter(s, u) /\ HoldsInviter(t, u) => s = t
    /\ \A t \in Tx, u \in User : Counted(t) /\ req[t].inviter = u =>
         Keyed(ledger, req[t], u) \/ Cardinality(Rewarded(u)) < InviteCap
    /\ InvitesCapped
    /\ InviteLegsTogether

\* No invite is counted at first.
LEMMA InviteInit == Init => InviteInv
<1> SUFFICES ASSUME Init PROVE InviteInv
  OBVIOUS
<1>1. LockInv
  BY LockInit
<1>2. IsFiniteSet(ledger) /\ \A t \in Tx : IsFiniteSet(written[t])
  BY FS_EmptySet DEF Init
<1>3. InvitesCapped
  <2>1. \A u \in User : Rewarded(u) = {}
    BY DEF Init, Rewarded
  <2>2. QED
    BY <2>1, FS_EmptySet, TwinkleAssumption DEF InvitesCapped
<1>4. InviteLegsTogether
  BY DEF Init, InviteLegsTogether, Keyed
<1>5. QED
  BY <1>1, <1>2, <1>3, <1>4 DEF Init, InviteInv, HoldsInviter, Counted

\* Only the lock statement makes a transaction a holder, and only the count
\* lets one past it.
LEMMA HoldersMove ==
    ASSUME LockInv, [Next]_vars, NEW t \in Tx
    PROVE  /\ \A u \in User : HoldsInviter(t, u)' => HoldsInviter(t, u) \/ LockInviter(t)
           /\ Counted(t)' => (Counted(t) \/ CountInvites(t)) /\ req'[t] = req[t]
<1>dom. /\ pc \in [Tx -> {"idle", "lock", "count", "zone", "plan", "append", "apply", "commit"}]
        /\ req \in [Tx -> Request \cup {None}]
        /\ Shape(t)
  BY DEF LockInv, TypeInv, TypeOK
<1>1. ASSUME NEW s \in Tx, NEW r \in Request, Begin(s, r)
      PROVE  /\ \A u \in User : HoldsInviter(t, u)' => HoldsInviter(t, u) \/ LockInviter(t)
             /\ Counted(t)' => (Counted(t) \/ CountInvites(t)) /\ req'[t] = req[t]
  BY <1>1, <1>dom DEF Begin, Goto, HoldsInviter, Counted
<1>2. ASSUME NEW s \in Tx,
             LockInviter(s) \/ CountInvites(s) \/ ReadZone(s) \/ \E c \in Costs : Plan(s, c)
      PROVE  /\ \A u \in User : HoldsInviter(t, u)' => HoldsInviter(t, u) \/ LockInviter(t)
             /\ Counted(t)' => (Counted(t) \/ CountInvites(t)) /\ req'[t] = req[t]
  BY <1>2, <1>dom
     DEF LockInviter, CountInvites, ReadZone, Plan, Proceeds, Goto, HoldsInviter, Counted
<1>3. ASSUME NEW s \in Tx, Append(s) \/ Apply(s)
      PROVE  /\ \A u \in User : HoldsInviter(t, u)' => HoldsInviter(t, u) \/ LockInviter(t)
             /\ Counted(t)' => (Counted(t) \/ CountInvites(t)) /\ req'[t] = req[t]
  <2>1. /\ req' = req /\ pc[s] \in {"append", "apply"}
        /\ \A q \in Tx \ {s} : pc'[q] = pc[q]
    BY <1>3, <1>dom, NextLegQuiet DEF Append, Apply, Proceeds, Goto
  <2>2. QED
    BY <2>1, <1>dom DEF HoldsInviter, Counted
<1>4. ASSUME NEW s \in Tx, Commit(s) \/ Rollback(s)
      PROVE  /\ \A u \in User : HoldsInviter(t, u)' => HoldsInviter(t, u) \/ LockInviter(t)
             /\ Counted(t)' => (Counted(t) \/ CountInvites(t)) /\ req'[t] = req[t]
  BY <1>4, <1>dom DEF Commit, Rollback, End, Goto, HoldsInviter, Counted
<1>5. ASSUME UNCHANGED <<pc, req>>
      PROVE  /\ \A u \in User : HoldsInviter(t, u)' => HoldsInviter(t, u) \/ LockInviter(t)
             /\ Counted(t)' => (Counted(t) \/ CountInvites(t)) /\ req'[t] = req[t]
  BY <1>5 DEF HoldsInviter, Counted
<1>6. QED
  BY <1>1, <1>2, <1>3, <1>4, <1>5 DEF Next, Step, ChangeZone, Tick, vars

\* Two transactions never hold the lock of one inviter.
LEMMA HoldersExclude ==
    ASSUME InviteInv, [Next]_vars, NEW s \in Tx, NEW t \in Tx, NEW u \in User,
           HoldsInviter(s, u)', HoldsInviter(t, u)'
    PROVE  s = t
<1>1. LockInv
  BY DEF InviteInv
<1>2. /\ HoldsInviter(s, u) \/ LockInviter(s)
      /\ HoldsInviter(t, u) \/ LockInviter(t)
  BY <1>1, HoldersMove
<1>3. ASSUME NEW a \in Tx, NEW b \in Tx, LockInviter(a), a # b, HoldsInviter(a, u)'
      PROVE  ~HoldsInviter(b, u) /\ ~LockInviter(b)
  <2>1. req'[a].inviter = u /\ req' = req /\ pc[a] = "lock"
    BY <1>3 DEF LockInviter, Proceeds, HoldsInviter
  <2>2. ~HoldsInviter(b, u)
    BY <1>3, <2>1 DEF LockInviter, Proceeds, Waits
  <2>3. ~LockInviter(b)
    <3>1. pc \in [Tx -> {"idle", "lock", "count", "zone", "plan", "append", "apply", "commit"}]
      BY <1>1 DEF LockInv, TypeInv, TypeOK
    <3>2. QED
      BY <1>3, <3>1, <2>1 DEF LockInviter, Proceeds, Goto
  <2>4. QED
    BY <2>2, <2>3
<1>4. QED
  BY <1>2, <1>3 DEF InviteInv

\* The rewarded invites of an inviter are finitely many.
LEMMA RewardedFinite ==
    ASSUME IsFiniteSet(ledger), NEW u \in User
    PROVE  IsFiniteSet(Rewarded(u)) /\ Cardinality(Rewarded(u)) \in Nat
<1>1. Rewarded(u) \subseteq ledger
  BY DEF Rewarded
<1>2. QED
  BY <1>1, FS_Subset, FS_CardinalityType

\* A commit gives at most one inviter one more reward, and only one whose
\* transaction holds that inviter's lock and found room under the cap.
LEMMA RewardedMoves ==
    ASSUME InviteInv, NEW t \in Tx, Commit(t), NEW u \in User
    PROVE  \/ Rewarded(u)' = Rewarded(u)
           \/ /\ HoldsInviter(t, u)
              /\ Cardinality(Rewarded(u)) < InviteCap
              /\ \E e : Rewarded(u)' = Rewarded(u) \cup {e}
<1> DEFINE new == {e \in written[t] : e.req.kind = "invite" /\ e.user = u /\ e.req.inviter = u}
<1>0. LockInv /\ WriteShape(t)
  BY DEF InviteInv, LockInv
<1>1. Rewarded(u)' = Rewarded(u) \cup new
  BY <1>0, CommitFacts DEF Rewarded
<1>2. CASE new = {}
  BY <1>1, <1>2
<1>3. CASE new # {}
  <2>1. PICK e \in new : TRUE
    BY <1>3
  <2>2. /\ e \in written[t] /\ e.req = req[t] /\ e.user = u
        /\ req[t].kind = "invite" /\ req[t].inviter = u /\ pc[t] = "commit"
    BY <1>0, <2>1, CommitFacts
  <2>3. new = {e}
    BY <1>0, <2>1, <2>2 DEF WriteShape
  <2>4. ~Keyed(ledger, req[t], u)
    BY <1>0, <2>2 DEF LockInv, KeysExclude
  <2>5. HoldsInviter(t, u) /\ Counted(t)
    BY <2>2 DEF HoldsInviter, Counted
  <2>6. Cardinality(Rewarded(u)) < InviteCap
    BY <2>2, <2>4, <2>5 DEF InviteInv
  <2>7. QED
    BY <1>1, <2>3, <2>5, <2>6
<1>4. QED
  BY <1>2, <1>3

\* No step rewards past the cap or commits one leg without the other.
LEMMA InviteStep == InviteInv /\ [Next]_vars => InviteInv'
<1> SUFFICES ASSUME InviteInv, [Next]_vars PROVE InviteInv'
  OBVIOUS
<1>1. LockInv /\ LockInv'
  BY LockStep DEF InviteInv
<1>dom. written \in [Tx -> SUBSET Entry] /\ written' \in [Tx -> SUBSET Entry]
  BY <1>1 DEF LockInv, TypeInv, TypeOK
<1>2. \A s, t \in Tx, u \in User : HoldsInviter(s, u)' /\ HoldsInviter(t, u)' => s = t
  BY HoldersExclude
<1>3. CASE \E t \in Tx : Commit(t)
  <2>1. PICK t \in Tx : Commit(t)
    BY <1>3
  <2>2. /\ ledger' = ledger \cup written[t] /\ written' = [written EXCEPT ![t] = {}]
        /\ pc'[t] = "idle"
    BY <1>1, <2>1, CommitFacts DEF Commit, End, Goto, LockInv, TypeInv, TypeOK
  <2>3. IsFiniteSet(ledger') /\ \A s \in Tx : IsFiniteSet(written'[s])
    BY <2>2, <1>dom, FS_EmptySet, FS_Union DEF InviteInv
  <2>4. ASSUME NEW s \in Tx, NEW u \in User, Counted(s)', req'[s].inviter = u
        PROVE  Keyed(ledger', req'[s], u) \/ Cardinality(Rewarded(u)') < InviteCap
    <3>1. s # t
      BY <2>2, <2>4 DEF Counted
    <3>2. ~CountInvites(s)
      <4>1. pc' = [pc EXCEPT ![t] = "idle"] /\ pc[t] = "commit"
        BY <2>1 DEF Commit, End, Goto
      <4>2. pc'[s] = pc[s] /\ pc[s] # "count"
        BY <2>4, <3>1, <4>1 DEF Counted, LockInv, TypeInv, TypeOK, Commit, End, Goto
      <4>3. QED
        BY <4>2 DEF CountInvites
    <3>3. Counted(s) /\ req'[s] = req[s]
      BY <1>1, <2>4, <3>2, HoldersMove
    <3>4. HoldsInviter(s, u)
      BY <2>4, <3>3 DEF Counted, HoldsInviter
    <3>5. Rewarded(u)' = Rewarded(u)
      BY <2>1, <3>1, <3>4, RewardedMoves DEF InviteInv
    <3>6. Keyed(ledger, req[s], u) \/ Cardinality(Rewarded(u)) < InviteCap
      BY <2>4, <3>3 DEF InviteInv
    <3>7. QED
      BY <2>2, <3>3, <3>5, <3>6 DEF Keyed
  <2>5. InvitesCapped'
    <3> SUFFICES ASSUME NEW u \in User PROVE Cardinality(Rewarded(u)') <= InviteCap
      BY DEF InvitesCapped
    <3>1. IsFiniteSet(Rewarded(u)) /\ Cardinality(Rewarded(u)) \in Nat
      BY RewardedFinite DEF InviteInv
    <3>2. CASE Rewarded(u)' = Rewarded(u)
      BY <3>2 DEF InviteInv, InvitesCapped
    <3>3. CASE Rewarded(u)' # Rewarded(u)
      <4>1. PICK e : Rewarded(u)' = Rewarded(u) \cup {e}
        BY <2>1, <3>3, RewardedMoves
      <4>2. Cardinality(Rewarded(u)) < InviteCap
        BY <2>1, <3>3, RewardedMoves
      <4>3. Cardinality(Rewarded(u) \cup {e})
              \in {Cardinality(Rewarded(u)), Cardinality(Rewarded(u)) + 1}
        BY <3>1, FS_AddElement
      <4>4. Cardinality(Rewarded(u)') \in {Cardinality(Rewarded(u)), Cardinality(Rewarded(u)) + 1}
        BY <4>1, <4>3
      <4>5. QED
        BY <3>1, <4>2, <4>4, TwinkleAssumption
    <3>4. QED
      BY <3>2, <3>3
  <2>6. InviteLegsTogether'
    <3> SUFFICES ASSUME NEW r \in Request, r.kind = "invite"
                 PROVE  Keyed(ledger', r, r.user) <=> Keyed(ledger', r, r.inviter)
      BY DEF InviteLegsTogether, Keyed
    <3>1. Keyed(ledger, r, r.user) <=> Keyed(ledger, r, r.inviter)
      BY DEF InviteInv, InviteLegsTogether
    <3>2. Keyed(written[t], r, r.user) <=> Keyed(written[t], r, r.inviter)
      <4>1. CASE r = req[t]
        BY <2>1, <4>1 DEF Commit, LegsAgree
      <4>2. CASE r # req[t]
        BY <1>1, <4>2 DEF LockInv, WriteShape, Keyed
      <4>3. QED
        BY <4>1, <4>2
    <3>3. QED
      BY <2>2, <3>1, <3>2 DEF Keyed
  <2>7. QED
    BY <1>1, <1>2, <2>3, <2>4, <2>5, <2>6 DEF InviteInv
<1>4. CASE ~\E t \in Tx : Commit(t)
  <2>1. ledger' = ledger
    BY <1>4 DEF Next, Step, Begin, LockInviter, CountInvites, ReadZone, Plan, Append, Apply,
                Rollback, ChangeZone, Tick, vars, shared
  <2>2. \A s \in Tx : IsFiniteSet(written'[s])
    <3>1. ASSUME NEW t \in Tx, Append(t) PROVE \A s \in Tx : IsFiniteSet(written'[s])
      <4>1. \/ written' = written
            \/ written' = [written EXCEPT ![t] = @ \cup {Planned(t)}]
        BY <3>1 DEF Append
      <4>2. QED
        BY <4>1, <1>dom, FS_AddElement DEF InviteInv
    <3>2. ASSUME NEW t \in Tx, Rollback(t) PROVE \A s \in Tx : IsFiniteSet(written'[s])
      BY <3>2, <1>dom, FS_EmptySet DEF InviteInv, Rollback, End
    <3>3. CASE UNCHANGED written
      BY <3>3 DEF InviteInv
    <3>4. QED
      BY <1>4, <3>1, <3>2, <3>3
         DEF Next, Step, Begin, LockInviter, CountInvites, ReadZone, Plan, Apply,
             ChangeZone, Tick, vars, shared
  <2>3. ASSUME NEW s \in Tx, NEW u \in User, Counted(s)', req'[s].inviter = u
        PROVE  Keyed(ledger', req'[s], u) \/ Cardinality(Rewarded(u)') < InviteCap
    <3>1. (Counted(s) \/ CountInvites(s)) /\ req'[s] = req[s]
      BY <1>1, <2>3, HoldersMove
    <3>2. Keyed(ledger, req[s], u) \/ Cardinality(Rewarded(u)) < InviteCap
      BY <2>3, <3>1 DEF InviteInv, CountInvites
    <3>3. Rewarded(u)' = Rewarded(u)
      BY <2>1 DEF Rewarded
    <3>4. QED
      BY <2>1, <3>1, <3>2, <3>3 DEF Keyed
  <2>4. (InvitesCapped /\ InviteLegsTogether)'
    BY <2>1 DEF InviteInv, InvitesCapped, InviteLegsTogether, Rewarded, Keyed
  <2>5. IsFiniteSet(ledger')
    BY <2>1 DEF InviteInv
  <2>6. QED
    BY <1>1, <1>2, <2>2, <2>3, <2>4, <2>5 DEF InviteInv
<1>5. QED
  BY <1>3, <1>4

\* No inviter is rewarded past the lifetime cap, with any number of their
\* invites claimed, replayed and raced at once.
THEOREM CapHolds == Spec => []InvitesCapped
<1>1. InviteInv => InvitesCapped
  BY DEF InviteInv
<1>2. QED
  BY <1>1, InviteInit, InviteStep, PTL DEF Spec

\* Both legs of an invite are in the log, or neither is.
THEOREM LegsTogether == Spec => []InviteLegsTogether
<1>1. InviteInv => InviteLegsTogether
  BY DEF InviteInv
<1>2. QED
  BY <1>1, InviteInit, InviteStep, PTL DEF Spec

-----------------------------------------------------------------------------
(* What was drawn from SMALL *)

\* What an entry drew from SMALL, and the windows a user acted in.
Small == [e \in Entry |-> e.small]
Windows(u) == {e.window : e \in Of(u)}

\* What the property adds up.
LEMMA DrawnIs ==
    ASSUME NEW E \in SUBSET Entry, IsFiniteSet(E)
    PROVE  SumFunction([e \in E |-> e.small]) = Sum(Small, E)
<1> DEFINE small == [e \in E |-> e.small]
<1>1. DOMAIN small = E /\ \A e \in E : small[e] = Small[e]
  BY DEF Small
<1> HIDE DEF small
<1>2. Sum(small, E) = Sum(Small, E)
  BY <1>1, SumCongruent
<1>3. SumFunction(small) = Sum(small, E)
  BY <1>1 DEF SumFunction, Sum
<1>4. QED
  BY <1>2, <1>3 DEF small

\* The grants of the windows before the one a balance stands in cover what was drawn
\* before it.
GrantInv ==
    \A u \in User :
        /\ Of(u) = {} => balance[u].window = -1
        /\ \A w \in Windows(u) : w <= balance[u].window
        /\ Of(u) # {} => Sum(Small, Of(u)) + Grant
                            <= Grant * Cardinality(Windows(u)) + balance[u].spent

\* As many windows as entries at most.
LEMMA WindowsFinite ==
    ASSUME NEW E, IsFiniteSet(E)
    PROVE  IsFiniteSet({e.window : e \in E})
<1> DEFINE W == {e.window : e \in E}
           g == [e \in E |-> e.window]
<1>1. g \in Surjection(E, W)
  BY DEF Surjection
<1>2. QED
  BY <1>1, FS_Surjection

\* A charge or a credit of one user keeps the grants ahead of the draws.
LEMMA OneMore ==
    ASSUME NEW E \in SUBSET Entry, IsFiniteSet(E), NEW e \in Entry, e \notin E,
           NEW row \in Row, row.spent \in 0..Grant,
           E = {} => row.window = -1,
           \A f \in E : f.window <= row.window,
           E # {} => Sum(Small, E) + Grant
                       <= Grant * Cardinality({f.window : f \in E}) + row.spent
    PROVE  /\ \A f \in E \cup {e} : f.window <= Moved(row, e).window
           /\ Sum(Small, E \cup {e}) + Grant
                <= Grant * Cardinality({f.window : f \in E \cup {e}}) + Moved(row, e).spent
<1> DEFINE W == {f.window : f \in E}
           V == {f.window : f \in E \cup {e}}
           new == Moved(row, e)
<1>1. /\ e.window \in Nat /\ e.small \in Nat /\ row.window \in Int /\ row.spent \in Nat
      /\ Grant \in Nat /\ \A f \in E : f.window \in Nat
  BY TwinkleAssumption DEF Entry, Row
<1>2. /\ new.window = IF row.window >= e.window THEN row.window ELSE e.window
      /\ new.spent = IF row.window < e.window THEN e.small ELSE row.spent + e.small
  BY DEF Moved, Most
<1> HIDE DEF new
<1>3. Sum(Small, E \cup {e}) = Sum(Small, E) + e.small /\ Sum(Small, E) \in Int
  <2>1. \A f \in E \cup {e} : Small[f] \in Int /\ Small[f] = f.small
    BY DEF Small, Entry
  <2>2. Sum(Small, E \cup {e}) = Sum(Small, E) + Small[e] /\ Sum(Small, E) \in Int
    <3> DEFINE small == Small
    <3>1. \A y \in E \cup {e} : small[y] \in Int
      BY <2>1
    <3> HIDE DEF small
    <3>2. Sum(small, E \cup {e}) = Sum(small, E) + small[e] /\ Sum(small, E) \in Int
      BY <3>1, SumAdds
    <3>3. QED
      BY <3>2 DEF small
  <2>3. QED
    BY <2>1, <2>2
<1>4. /\ IsFiniteSet(W) /\ V = W \cup {e.window}
      /\ Cardinality(W) \in Nat
      /\ Cardinality(V) = IF e.window \in W THEN Cardinality(W) ELSE Cardinality(W) + 1
  <2>1. V = W \cup {e.window}
    OBVIOUS
  <2>2. IsFiniteSet(W)
    BY WindowsFinite
  <2>3. QED
    BY <2>1, <2>2, FS_AddElement, FS_CardinalityType
<1>5. \A f \in E \cup {e} : f.window <= new.window
  BY <1>1, <1>2
<1>6. \A k \in Nat : Grant * k \in Nat /\ Grant * (k + 1) = Grant * k + Grant
  BY <1>1, SMT
<1>7. Sum(Small, E \cup {e}) + Grant <= Grant * Cardinality(V) + new.spent
  <2>1. CASE E = {}
    <3>1. Sum(Small, E) = 0 /\ Cardinality(W) = 0 /\ e.window \notin W
      BY <2>1, SumFirst, FS_EmptySet
    <3>2. new.spent = e.small
      BY <1>1, <1>2, <2>1
    <3>3. Grant * Cardinality(V) = Grant
      BY <1>1, <1>4, <3>1, SMT
    <3>4. QED
      BY <1>1, <1>3, <3>1, <3>2, <3>3
  <2>2. CASE E # {} /\ row.window < e.window
    <3>1. e.window \notin W
      BY <1>1, <2>2
    <3>2. Grant * Cardinality(V) = Grant * Cardinality(W) + Grant /\ Grant * Cardinality(W) \in Nat
      BY <1>4, <1>6, <3>1
    <3> HIDE DEF W, V
    <3>3. Sum(Small, E) + Grant <= Grant * Cardinality(W) + row.spent
      BY <2>2 DEF W
    <3>4. new.spent = e.small /\ row.spent <= Grant
      BY <1>1, <1>2, <2>2
    <3>5. QED
      BY <1>1, <1>3, <3>2, <3>3, <3>4
  <2>3. CASE E # {} /\ ~(row.window < e.window)
    <3>1. Grant * Cardinality(W) <= Grant * Cardinality(V) /\ Grant * Cardinality(W) \in Nat
      <4>1. Grant * Cardinality(W) \in Nat
            /\ Grant * (Cardinality(W) + 1) = Grant * Cardinality(W) + Grant
        BY <1>4, <1>6
      <4>2. CASE Cardinality(V) = Cardinality(W)
        BY <4>1, <4>2
      <4>3. CASE Cardinality(V) = Cardinality(W) + 1
        BY <1>1, <4>1, <4>3
      <4>4. QED
        BY <1>4, <4>2, <4>3
    <3>2. Grant * Cardinality(V) \in Nat
      BY <1>4, <1>6
    <3> HIDE DEF W, V
    <3>3. Sum(Small, E) + Grant <= Grant * Cardinality(W) + row.spent
      BY <2>3 DEF W
    <3>4. new.spent = row.spent + e.small
      BY <1>1, <1>2, <2>3
    <3>5. QED
      BY <1>1, <1>3, <3>1, <3>2, <3>3, <3>4
  <2>4. QED
    BY <2>1, <2>2, <2>3
<1>8. QED
  BY <1>5, <1>7 DEF new

\* Every step keeps the grants ahead of the draws.
LEMMA GrantStep == InviteInv /\ GrantInv /\ [Next]_vars => GrantInv'
<1> SUFFICES ASSUME InviteInv, GrantInv, [Next]_vars PROVE GrantInv'
  OBVIOUS
<1>type. /\ LockInv /\ IsFiniteSet(ledger) /\ ledger \subseteq Entry /\ balance \in [User -> Row]
         /\ \A u \in User : balance[u].spent \in 0..Grant
  <2>1. LockInv /\ IsFiniteSet(ledger) /\ TypeOK /\ BalancesAdmitted
    BY DEF InviteInv, LockInv, TypeInv
  <2>2. QED
    BY <2>1, TwinkleAssumption DEF TypeOK, BalancesAdmitted, Admitted, Row
<1>1. ASSUME NEW t \in Tx, Commit(t) PROVE GrantInv'
  <2> SUFFICES ASSUME NEW u \in User
               PROVE  /\ Of(u)' = {} => balance'[u].window = -1
                      /\ \A w \in Windows(u)' : w <= balance'[u].window
                      /\ Of(u)' # {} => Sum(Small, Of(u)') + Grant
                             <= Grant * Cardinality(Windows(u)') + balance'[u].spent
    BY DEF GrantInv
  <2>1. CASE \E e \in written[t] : e.user = u
    <3>1. PICK e \in written[t] : e.user = u /\ balance'[u] = Moved(balance[u], e)
      BY <1>type, <1>1, <2>1, CommitFacts
    <3>2. Of(u)' = Of(u) \cup {e} /\ e \notin Of(u) /\ e \in Entry
      <4>1. \A f \in written[t] : f.user = u => f = e
        BY <1>type, <3>1 DEF LockInv, WriteShape
      <4>2. ledger' = ledger \cup written[t] /\ e \notin ledger /\ e \in Entry
        BY <1>type, <1>1, <3>1, CommitFacts
      <4>3. QED
        BY <3>1, <4>1, <4>2 DEF Of
    <3>3. Of(u) \in SUBSET Entry /\ IsFiniteSet(Of(u))
      BY <1>type, FS_Subset DEF Of
    <3>4. /\ \A f \in Of(u) \cup {e} : f.window <= balance'[u].window
          /\ Sum(Small, Of(u) \cup {e}) + Grant
               <= Grant * Cardinality({f.window : f \in Of(u) \cup {e}}) + balance'[u].spent
      <4>1. /\ Of(u) = {} => balance[u].window = -1
            /\ \A f \in Of(u) : f.window <= balance[u].window
            /\ Of(u) # {} => Sum(Small, Of(u)) + Grant
                  <= Grant * Cardinality({f.window : f \in Of(u)}) + balance[u].spent
        BY DEF GrantInv, Windows
      <4>2. balance[u] \in Row /\ balance[u].spent \in 0..Grant
        BY <1>type
      <4>3. QED
        BY <3>1, <3>2, <3>3, <4>1, <4>2, OneMore
    <3>5. Windows(u)' = {f.window : f \in Of(u) \cup {e}}
      BY <3>2 DEF Windows
    <3>6. QED
      BY <3>2, <3>4, <3>5
  <2>2. CASE \A e \in written[t] : e.user # u
    <3>1. balance'[u] = balance[u] /\ ledger' = ledger \cup written[t]
      BY <1>type, <1>1, <2>2, CommitFacts
    <3>2. Of(u)' = Of(u)
      BY <2>2, <3>1 DEF Of
    <3>3. Windows(u)' = Windows(u)
      BY <3>2 DEF Windows
    <3>4. QED
      BY <3>1, <3>2, <3>3 DEF GrantInv
  <2>3. QED
    BY <2>1, <2>2
<1>2. ASSUME UNCHANGED <<ledger, balance>> PROVE GrantInv'
  <2>1. \A u \in User : Of(u)' = Of(u) /\ Windows(u)' = Windows(u)
    BY <1>2 DEF Of, Windows
  <2>2. QED
    BY <1>2, <2>1 DEF GrantInv
<1>3. QED
  BY <1>1, <1>2 DEF Next, Step, Begin, LockInviter, CountInvites, ReadZone, Plan, Append, Apply,
                    Rollback, ChangeZone, Tick, vars, shared

\* For any users, requests, zones and open transactions, and however plans race midnight:
\* the SMALL a user ever drew fits in one grant per local day they acted on.
THEOREM DrawsFitGrants == Spec => []SmallWithinGrants
<1>1. Init => InviteInv /\ GrantInv
  <2>1. Init => GrantInv
    BY DEF Init, GrantInv, Of, Windows, LazyBirth
  <2>2. QED
    BY <2>1, InviteInit
<1>2. InviteInv /\ GrantInv /\ [Next]_vars => (InviteInv /\ GrantInv)'
  BY InviteStep, GrantStep
<1>3. InviteInv /\ GrantInv => SmallWithinGrants
  <2> SUFFICES ASSUME InviteInv, GrantInv, NEW u \in User
               PROVE  SumFunction([e \in Of(u) |-> e.small])
                        <= Grant * Cardinality({e.window : e \in Of(u)})
    BY DEF SmallWithinGrants
  <2>1. Of(u) \in SUBSET Entry /\ IsFiniteSet(Of(u)) /\ balance[u].spent \in 0..Grant /\ Grant \in Nat
    <3>1. ledger \subseteq Entry /\ IsFiniteSet(ledger) /\ balance \in [User -> Row] /\ BalancesAdmitted
      BY DEF InviteInv, LockInv, TypeInv, TypeOK
    <3>2. QED
      BY <3>1, TwinkleAssumption, FS_Subset DEF Of, BalancesAdmitted, Admitted, Row
  <2>2. SumFunction([e \in Of(u) |-> e.small]) = Sum(Small, Of(u))
    BY <2>1, DrawnIs
  <2>3. Sum(Small, Of(u)) \in Int
    <3>1. \A e \in Of(u) : Small[e] \in Int
      BY <2>1 DEF Small, Entry
    <3>2. QED
      BY <2>1, <3>1, SumTakes
  <2>4. Cardinality(Windows(u)) \in Nat /\ Grant * Cardinality(Windows(u)) \in Nat
    <3>1. IsFiniteSet(Windows(u))
      BY <2>1, WindowsFinite DEF Windows
    <3>2. Cardinality(Windows(u)) \in Nat
      BY <3>1, FS_CardinalityType
    <3>3. QED
      BY <2>1, <3>2, SMT
  <2>5. Sum(Small, Of(u)) <= Grant * Cardinality(Windows(u))
    <3>1. CASE Of(u) = {}
      <4>1. Sum(Small, Of(u)) = 0
        BY <2>1, <3>1, SumFirst
      <4>2. QED
        BY <2>4, <4>1
    <3>2. CASE Of(u) # {}
      <4>1. Sum(Small, Of(u)) + Grant <= Grant * Cardinality(Windows(u)) + balance[u].spent
        BY <3>2 DEF GrantInv
      <4>2. QED
        BY <2>1, <2>3, <2>4, <4>1
    <3>3. QED
      BY <3>1, <3>2
  <2>6. QED
    BY <2>2, <2>5 DEF Windows
<1>4. QED
  BY <1>1, <1>2, <1>3, PTL DEF Spec
=============================================================================
