------------------------------ MODULE Twinkle ------------------------------
(***************************************************************************)
(* The Twinkle economy: the append-only ledger, the balance row of each    *)
(* user and the transactions that move them.  A spend plans against an     *)
(* unlocked read of the balance; an earn and both legs of an invite append *)
(* first and apply afterwards.                                             *)
(*                                                                         *)
(* Every statement is one action, as READ COMMITTED runs it: it sees what  *)
(* is committed and what its own transaction wrote, it waits for a row or  *)
(* a key another transaction has written and not yet committed, and then   *)
(* works on the committed version.  A request is the identity its dedup    *)
(* key is made of: the client, a worker or a crashed settlement may send   *)
(* it any number of times, from several connections at once.               *)
(***************************************************************************)
EXTENDS Integers, FiniteSets, Functions

CONSTANTS
    User, None,
    Tx,         \* database transactions that may be open at once
    Request,    \* what is asked for, see Requests
    Grant,      \* SMALL refilled per local day
    InviteCap,  \* invites one user is rewarded for
    Costs,      \* prices a recall or a purchase may have when it is planned
    Zones,      \* time-zone offsets a profile may hold
    DayLength,  \* clock ticks in a day
    MaxTime     \* bound: the clock stops here

\* write: any earn of one leg (diary, signup bonus, achievement, admin gift);
\* invite: the invitee's and the inviter's credit.
Kinds == {"write", "invite", "recall", "purchase"}
Requests == [kind : Kinds, user : User, inviter : User, amount : Nat \ {0}, id : Nat]

Entry == [req : Request, user : User, credit : Nat, small : Nat, general : Nat, window : Nat]
Row == [general : Int, spent : Int, window : Int]

ASSUME TwinkleAssumption ==
    /\ None \notin Request \cup User \cup Entry \cup Row
    /\ Request \subseteq Requests
    /\ \A r \in Request : r.kind = "invite" => r.user # r.inviter
    /\ IsFiniteSet(Request) /\ IsFiniteSet(User)
    /\ Grant \in Nat /\ InviteCap \in Nat
    /\ Costs \subseteq Nat \ {0}
    /\ Zones \subseteq Nat /\ Zones # {}
    /\ DayLength \in Nat \ {0}
    /\ MaxTime \in Nat

VARIABLES
    clock,      \* real time
    zone,       \* the time zone of each user's profile
    ledger,     \* twinkle_ledger_entries
    balance,    \* twinkle_balances
    pc,         \* where each transaction stands
    req,        \* the request it serves
    party,      \* the user whose balance it is moving
    seen,       \* the time zone it read
    draft,      \* the entry it planned
    written,    \* ledger entries it appended, not yet committed
    rows        \* balance rows it updated, not yet committed, and locks

shared == <<clock, zone, ledger, balance>>
vars == <<shared, pc, req, party, seen, draft, written, rows>>

\* A user without a row reads as a zero record whose window is long past, and
\* the row's birth applies the first delta to exactly that record.
LazyBirth == [general |-> 0, spent |-> 0, window |-> -1]

TypeOK ==
    /\ clock \in Nat
    /\ zone \in [User -> Zones]
    /\ ledger \subseteq Entry
    /\ balance \in [User -> Row]
    /\ pc \in [Tx -> {"idle", "lock", "count", "zone", "plan", "append", "apply", "commit"}]
    /\ req \in [Tx -> Request \cup {None}]
    /\ party \in [Tx -> User \cup {None}]
    /\ seen \in [Tx -> Zones \cup {None}]
    /\ draft \in [Tx -> Entry \cup {None}]
    /\ written \in [Tx -> SUBSET Entry]
    /\ rows \in [Tx -> [User -> Row \cup {None}]]

-----------------------------------------------------------------------------
(* The pure ledger model *)

Least(a, b) == IF a <= b THEN a ELSE b
Most(a, b) == IF a >= b THEN a ELSE b

\* ResetWindowOf: the local calendar day.
Today(z) == (clock + z) \div DayLength

\* A later local day than the anchor is a fresh grant; the anchored day, and a
\* day before it, has what its spends left.
SmallRemaining(day, row) ==
    IF day > row.window THEN Grant
    ELSE Most(0, Least(Grant, Grant - Most(0, row.spent)))

\* SMALL pays for the recall family alone, before GENERAL is touched.
FromSmall(kind, day, row, cost) ==
    IF kind = "recall" THEN Least(cost, SmallRemaining(day, row)) ELSE 0

\* The balance statement: a later window starts its spend afresh, the anchor
\* never moves back.
Moved(row, e) ==
    [general |-> row.general + e.credit - e.general,
     spent   |-> IF row.window < e.window THEN e.small ELSE row.spent + e.small,
     window  |-> Most(row.window, e.window)]

\* Broken variant of Admitted: without the grant guard.
AdmittedPastGrant(row) == row.general >= 0

\* The CHECKs of the table and the grant guard of the statement.
Admitted(row) == row.general >= 0 /\ row.spent <= Grant

-----------------------------------------------------------------------------
(* What a statement of a transaction sees and waits for *)

Locked(t, u) == rows[t][u] # None
RowSeen(t, u) == IF Locked(t, u) THEN rows[t][u] ELSE balance[u]
Keyed(E, r, u) == \E e \in E : e.req = r /\ e.user = u

\* Broken variant of HoldsInviter: the lock released before the count.
HoldsInviterNever(t, u) == FALSE

\* The advisory lock is held from its statement to the end of the transaction.
HoldsInviter(t, u) ==
    /\ pc[t] \notin {"idle", "lock"}
    /\ req[t].kind = "invite"
    /\ req[t].inviter = u

Waits(t, s) ==
    /\ t # s
    /\ \/ pc[t] = "lock" /\ HoldsInviter(s, req[t].inviter)
       \/ pc[t] = "append" /\ Keyed(written[s], req[t], party[t])
       \/ pc[t] = "apply" /\ Locked(s, party[t])

Proceeds(t, step) == pc[t] = step /\ \A s \in Tx : ~Waits(t, s)

-----------------------------------------------------------------------------

Init ==
    /\ clock = 0
    /\ zone \in [User -> Zones]
    /\ ledger = {}
    /\ balance = [u \in User |-> LazyBirth]
    /\ pc = [t \in Tx |-> "idle"]
    /\ req = [t \in Tx |-> None]
    /\ party = [t \in Tx |-> None]
    /\ seen = [t \in Tx |-> None]
    /\ draft = [t \in Tx |-> None]
    /\ written = [t \in Tx |-> {}]
    /\ rows = [t \in Tx |-> [u \in User |-> None]]

-----------------------------------------------------------------------------
(* One transaction, statement by statement *)

Goto(t, step) == pc' = [pc EXCEPT ![t] = step]

\* The transaction ends: what it wrote, and every lock it held, is gone.
End(t) ==
    /\ Goto(t, "idle")
    /\ req' = [req EXCEPT ![t] = None]
    /\ party' = [party EXCEPT ![t] = None]
    /\ seen' = [seen EXCEPT ![t] = None]
    /\ draft' = [draft EXCEPT ![t] = None]
    /\ written' = [written EXCEPT ![t] = {}]
    /\ rows' = [rows EXCEPT ![t] = [u \in User |-> None]]

\* A request arrives, for the first time or once more.
Begin(t, r) ==
    /\ pc[t] = "idle"
    /\ Goto(t, IF r.kind = "invite" THEN "lock" ELSE "zone")
    /\ req' = [req EXCEPT ![t] = r]
    /\ party' = [party EXCEPT ![t] = r.user]
    /\ UNCHANGED <<shared, seen, draft, written, rows>>

LockInviter(t) ==
    /\ Proceeds(t, "lock")
    /\ Goto(t, "count")
    /\ UNCHANGED <<shared, req, party, seen, draft, written, rows>>

Rewarded(u) == {e \in ledger : e.req.kind = "invite" /\ e.user = u /\ e.req.inviter = u}

\* GetInviteRewardState: a replay of this invite is let through at the cap.
CountInvites(t) ==
    /\ pc[t] = "count"
    /\ \/ Keyed(ledger, req[t], req[t].inviter)
       \/ Cardinality(Rewarded(req[t].inviter)) < InviteCap
    /\ Goto(t, "zone")
    /\ UNCHANGED <<shared, req, party, seen, draft, written, rows>>

\* The zone is the one of the user being moved, not of the caller.
ReadZone(t) ==
    /\ pc[t] = "zone"
    /\ Goto(t, IF req[t].kind \in {"recall", "purchase"} THEN "plan" ELSE "append")
    /\ seen' = [seen EXCEPT ![t] = zone[party[t]]]
    /\ UNCHANGED <<shared, req, party, draft, written, rows>>

\* prepareSpend: the price of the moment against an unlocked read.
Plan(t, cost) ==
    LET row   == RowSeen(t, party[t])
        small == FromSmall(req[t].kind, Today(seen[t]), row, cost)
    IN
    /\ pc[t] = "plan"
    /\ cost - small <= Most(0, row.general)
    /\ draft' = [draft EXCEPT ![t] =
         [req |-> req[t], user |-> party[t], credit |-> 0,
          small |-> small, general |-> cost - small, window |-> Today(seen[t])]]
    /\ Goto(t, "append")
    /\ UNCHANGED <<shared, req, party, seen, written, rows>>

\* After the invitee's leg comes the inviter's; every other request has one.
NextLeg(t) ==
    IF req[t].kind = "invite" /\ party[t] = req[t].user
      THEN Goto(t, "zone") /\ party' = [party EXCEPT ![t] = req[t].inviter]
      ELSE Goto(t, "commit") /\ UNCHANGED party

\* An earn reads the clock once, for its entry and for the window it anchors.
Planned(t) ==
    IF draft[t] # None THEN draft[t]
    ELSE [req |-> req[t], user |-> party[t], credit |-> req[t].amount,
          small |-> 0, general |-> 0, window |-> Today(seen[t])]

\* AppendLedgerEntry: a key already in the log skips the balance.
Append(t) ==
    /\ Proceeds(t, "append")
    /\ \/ /\ Keyed(ledger \cup written[t], req[t], party[t])
          /\ NextLeg(t)
          /\ draft' = [draft EXCEPT ![t] = None]
          /\ UNCHANGED written
       \/ /\ ~Keyed(ledger \cup written[t], req[t], party[t])
          /\ Goto(t, "apply")
          /\ draft' = [draft EXCEPT ![t] = Planned(t)]
          /\ written' = [written EXCEPT ![t] = @ \cup {Planned(t)}]
          /\ UNCHANGED party
    /\ UNCHANGED <<shared, req, seen, rows>>

\* ApplyBalanceDelta, refused when a concurrent spend left too little.
Apply(t) ==
    LET new == Moved(RowSeen(t, party[t]), draft[t]) IN
    /\ Proceeds(t, "apply")
    /\ Admitted(new)
    /\ rows' = [rows EXCEPT ![t][party[t]] = new]
    /\ draft' = [draft EXCEPT ![t] = None]
    /\ NextLeg(t)
    /\ UNCHANGED <<shared, req, seen, written>>

\* ClaimInvite refuses to credit one leg of an invite without the other.
LegsAgree(t) ==
    req[t].kind = "invite" =>
        (Keyed(written[t], req[t], req[t].user) <=> Keyed(written[t], req[t], req[t].inviter))

\* Broken variant of Commit: each leg in a transaction of its own.
CommitEachLeg(t) ==
    /\ pc[t] \in {"zone", "commit"}
    /\ ledger' = ledger \cup written[t]
    /\ balance' = [u \in User |-> RowSeen(t, u)]
    /\ End(t)
    /\ UNCHANGED <<clock, zone>>

Commit(t) ==
    /\ pc[t] = "commit"
    /\ LegsAgree(t)
    /\ ledger' = ledger \cup written[t]
    /\ balance' = [u \in User |-> RowSeen(t, u)]
    /\ End(t)
    /\ UNCHANGED <<clock, zone>>

\* The plan does not fit, a statement is refused or fails, the surrounding
\* use-case fails, the connection or the process dies.
Rollback(t) ==
    /\ pc[t] # "idle"
    /\ End(t)
    /\ UNCHANGED shared

-----------------------------------------------------------------------------

\* The user edits the profile's time zone.
ChangeZone(u, z) ==
    /\ zone' = [zone EXCEPT ![u] = z]
    /\ UNCHANGED <<clock, ledger, balance, pc, req, party, seen, draft, written, rows>>

Tick ==
    /\ clock < MaxTime
    /\ clock' = clock + 1
    /\ UNCHANGED <<zone, ledger, balance, pc, req, party, seen, draft, written, rows>>

Step(t) ==
    \/ \E r \in Request : Begin(t, r)
    \/ LockInviter(t)
    \/ CountInvites(t)
    \/ ReadZone(t)
    \/ \E c \in Costs : Plan(t, c)
    \/ Append(t)
    \/ Apply(t)
    \/ Commit(t)
    \/ Rollback(t)

Next ==
    \/ \E t \in Tx : Step(t)
    \/ \E u \in User, z \in Zones : ChangeZone(u, z)
    \/ Tick

Spec == Init /\ [][Next]_vars

-----------------------------------------------------------------------------
(* Properties *)

Of(u) == {e \in ledger : e.user = u}

\* A request is charged or credited once, however many connections serve it.
MovedOnce ==
    \A e, f \in ledger : e.req = f.req /\ e.user = f.user => e = f

\* All the SMALL a user ever drew fits in one grant per local day they acted
\* on: neither a plan raced across midnight nor a change of zone mints more.
SmallWithinGrants ==
    \A u \in User :
        SumFunction([e \in Of(u) |-> e.small]) <= Grant * Cardinality({e.window : e \in Of(u)})

\* The inviter's lifetime cap holds with several of their invites in flight.
InvitesCapped == \A u \in User : Cardinality(Rewarded(u)) <= InviteCap

\* Both legs of an invite are credited, or neither is.
InviteLegsTogether ==
    \A r \in Request : r.kind = "invite" =>
        (Keyed(ledger, r, r.user) <=> Keyed(ledger, r, r.inviter))
=============================================================================
