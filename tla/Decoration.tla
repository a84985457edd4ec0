----------------------------- MODULE Decoration -----------------------------
(***************************************************************************)
(* Decorating the universe: the panel of the web client previews one       *)
(* ornament per kind and saves the whole selection; the store service buys *)
(* what the selection needs and is not owned, and applies the selection.   *)
(*                                                                         *)
(* The service runs each save in one READ COMMITTED transaction without a  *)
(* lock on the account, so saves of two devices, or of a panel that was    *)
(* left and opened again, overlap statement by statement.  What a          *)
(* transaction writes is seen when it commits; until then the rows it      *)
(* inserted and the balance it moved keep other transactions waiting.  It  *)
(* takes those rows in the order of the kinds, then the balance row, then  *)
(* the selection rows, and keeps them all: taking the first two groups in  *)
(* one step, and the last with the commit, leads to the same outcomes.     *)
(*                                                                         *)
(* An effect of the panel runs before the user's next gesture: a phase the *)
(* machine enters only to leave it (committing, reverting) is passed in    *)
(* the step that enters it.                                                *)
(***************************************************************************)
EXTENDS Integers, FiniteSets

CONSTANTS
    Kind, Ornament,
    KindOf,          \* the kind of each ornament
    Purchasable,     \* ornaments for sale; the others are achievement rewards
    Default,         \* a kind's free ornament, which no row names
    Cost,            \* what a set of ornaments costs together
    Save, NoSave,    \* bound: the saves that are ever asked
    Unread, Idle, Asked,
    Grants           \* GENERAL balances an account starts with

Selections ==
    {s \in [Kind -> Ornament \cup {Default}] : \A k \in Kind : s[k] = Default \/ KindOf[s[k]] = k}

ASSUME CatalogAssumption ==
    /\ IsFiniteSet(Ornament)
    /\ KindOf \in [Ornament -> Kind]
    /\ Purchasable \subseteq Ornament
    /\ Default \notin Ornament
    /\ Cost \in [SUBSET Ornament -> Nat]
    /\ NoSave \notin Save
    /\ Grants \subseteq Nat
    /\ {Unread, Idle, Asked} \cap Selections = {}
    /\ Unread # Idle /\ Unread # Asked /\ Idle # Asked

VARIABLES
    owned,      \* ornament_ownerships: what the account has for ever
    stored,     \* ornament_selections: what its universe wears
    balance,    \* GENERAL balance
    debits,     \* the dedup keys of the purchases in the ledger
    reach,      \* high-water mark of the ornament_owned counter
    save,       \* each save, with what its transaction read and took
    panel,      \* the decoration panel; "gone" while its route is left
    awaited,    \* the save the mounted panel waits for
    previewActive, previewed, confirmed,   \* the ornament preview store
    data, wire  \* the selection query: what it holds, the read in flight

serverVars == <<owned, stored, balance, debits, reach>>
storeVars == <<previewActive, previewed, confirmed>>
clientVars == <<panel, awaited, storeVars, data, wire>>
decorVars == <<serverVars, save, clientVars>>

Steps == {"unused", "sent", "begun", "bought", "viewed", "saved", "refused"}

SaveRecord ==
    [by : {"panel", "other"}, wanted : Selections, step : Steps, heard : BOOLEAN,
     had : SUBSET Ornament, gained : SUBSET Ornament, seen : Selections \cup {Unread}]

Plain == [k \in Kind |-> Default]

Unused ==
    [by |-> "other", wanted |-> Plain, step |-> "unused", heard |-> FALSE,
     had |-> {}, gained |-> {}, seen |-> Unread]

DecorTypeOK ==
    /\ owned \subseteq Ornament
    /\ stored \in Selections
    /\ balance \in Int
    /\ debits \subseteq SUBSET Ornament
    /\ reach \in Nat
    /\ save \in [Save -> SaveRecord]
    /\ panel \in {"closed", "browsing", "saving", "gone"}
    /\ awaited \in Save \cup {NoSave}
    /\ previewActive \in BOOLEAN
    /\ previewed \in Selections
    /\ confirmed \in Selections
    /\ data \in Selections
    /\ wire \in {Idle, Asked} \cup Selections

DecorInit ==
    /\ owned = {}
    /\ stored = Plain
    /\ balance \in Grants
    /\ debits = {}
    /\ reach = 0
    /\ save = [r \in Save |-> Unused]
    /\ panel = "closed"
    /\ awaited = NoSave
    /\ previewActive = FALSE
    /\ previewed = Plain
    /\ confirmed = Plain
    /\ data = Plain
    /\ wire = Idle

-----------------------------------------------------------------------------
(* The store service *)

At(r, steps) == save[r].step \in steps

Send(r, by, s) ==
    /\ At(r, {"unused"})
    /\ save' = [save EXCEPT ![r] = [Unused EXCEPT !.by = by, !.wanted = s, !.step = "sent"]]

\* A save that ended keeps neither its reads nor its locks.
Ended(s, step) == [s EXCEPT !.step = step, !.had = {}, !.seen = Unread]

\* The ornaments a selection shows that are not free.
Shown(s) == {o \in Ornament : s[KindOf[o]] = o}

\* What the save has to acquire, by the ownership it read.
Needs(r) == Shown(save[r].wanted) \ save[r].had

\* Rows another transaction has inserted and not committed.
Taken(r) == UNION {save[q].gained : q \in {p \in Save \ {r} : At(p, {"bought", "viewed"})}}

\* The spend keeps the balance row until its transaction ends.
BalanceFree(r) == \A q \in Save \ {r} : At(q, {"bought", "viewed"}) => save[q].gained = {}

Begin(r) ==
    /\ At(r, {"sent"})
    /\ save' = [save EXCEPT ![r] = [@ EXCEPT !.step = "begun", !.had = owned]]
    /\ UNCHANGED <<serverVars, clientVars>>

\* Broken variant of Acquired: what the ownership list did not show, instead of
\* what the inserts reported.
AcquiredByRead(r) == Needs(r)

\* The inserts that took a row: another save's row does not count, however
\* early this one read the list.
Acquired(r) == Needs(r) \ owned

\* Buying succeeds when everything missing is for sale and the balance covers
\* what was acquired; a transaction that took a row first is waited for.
Buy(r) ==
    LET gained == Acquired(r) IN
    /\ At(r, {"begun"})
    /\ Needs(r) \subseteq Purchasable
    /\ Needs(r) \cap Taken(r) = {}
    /\ gained # {} => BalanceFree(r) /\ Cost[gained] <= balance
    /\ save' = [save EXCEPT ![r] = [@ EXCEPT !.step = "bought", !.gained = gained]]
    /\ UNCHANGED <<serverVars, clientVars>>

\* applySelection reads what is stored.
View(r) ==
    /\ At(r, {"bought"})
    /\ save' = [save EXCEPT ![r] = [@ EXCEPT !.step = "viewed", !.seen = stored]]
    /\ UNCHANGED <<serverVars, clientVars>>

Changed(r) == {k \in Kind : save[r].wanted[k] # save[r].seen[k]}

\* Broken variant of OwnedAfter: the list read again after the inserts, with
\* the acquired added to it once more.
OwnedAfterTwice(r) == Cardinality(owned \cup save[r].gained) + Cardinality(save[r].gained)

\* The ownership total a save reports: the list it read and what it acquired.
OwnedAfter(r) == Cardinality(save[r].had) + Cardinality(save[r].gained)

AtLeast(n) == reach' = IF n > reach THEN n ELSE reach

\* The save commits: the rows it took, its debit, the kinds that differ from
\* what it saw, and the counter.
Commit(r) ==
    LET key == save[r].gained
        pays == key # {} /\ key \notin debits
    IN
    /\ At(r, {"viewed"})
    /\ owned' = owned \cup key
    /\ balance' = IF pays THEN balance - Cost[key] ELSE balance
    /\ debits' = IF pays THEN debits \cup {key} ELSE debits
    /\ stored' = [k \in Kind |-> IF k \in Changed(r) THEN save[r].wanted[k] ELSE stored[k]]
    /\ IF Changed(r) = {} THEN UNCHANGED reach ELSE AtLeast(OwnedAfter(r))
    /\ save' = [save EXCEPT ![r] = Ended(@, "saved")]
    /\ UNCHANGED clientVars

\* An achievement reward is wanted unowned, the balance is short, a statement
\* fails or the service dies: nothing of the transaction stays.
Refuse(r) ==
    /\ At(r, {"sent", "begun", "bought", "viewed"})
    /\ save' = [save EXCEPT ![r] = [Ended(@, "refused") EXCEPT !.gained = {}]]
    /\ UNCHANGED <<serverVars, clientVars>>

\* An achievement claim grants its reward and reports the total for itself.
GrantOwnership(o) ==
    /\ o \notin Purchasable
    /\ owned' = owned \cup {o}
    /\ AtLeast(Cardinality(owned \cup {o}))
    /\ UNCHANGED <<stored, balance, debits, save, clientVars>>

\* Another device of the account saves.
OtherSave(r, s) == Send(r, "other", s) /\ UNCHANGED <<serverVars, clientVars>>

-----------------------------------------------------------------------------
(* The preview store *)

adopt(s) ==
    /\ confirmed' = s
    /\ previewed' = IF previewActive THEN previewed ELSE s
    /\ UNCHANGED previewActive

open == previewActive' = TRUE /\ previewed' = confirmed /\ UNCHANGED confirmed

revert == previewActive' = FALSE /\ previewed' = confirmed /\ UNCHANGED confirmed

commit(s) == previewActive' = FALSE /\ previewed' = s /\ confirmed' = s

-----------------------------------------------------------------------------
(* The panel *)

\* The affordance of the universe page is pressed; it stays on the page while
\* the panel is open.
RequestPanel ==
    /\ panel # "gone"
    /\ open
    /\ panel' = IF panel = "closed" THEN "browsing" ELSE panel
    /\ UNCHANGED <<serverVars, save, awaited, data, wire>>

Pick(k, o) ==
    /\ panel = "browsing"
    /\ previewActive
    /\ o = Default \/ (o \in Ornament /\ KindOf[o] = k)
    /\ previewed' = [previewed EXCEPT ![k] = o]
    /\ UNCHANGED <<serverVars, save, panel, awaited, previewActive, confirmed, data, wire>>

PressSave(r) ==
    /\ panel = "browsing"
    /\ Send(r, "panel", previewed)
    /\ panel' = "saving"
    /\ awaited' = r
    /\ UNCHANGED <<serverVars, storeVars, data, wire>>

ClosePanel ==
    /\ panel = "browsing"
    /\ revert
    /\ panel' = "closed"
    /\ UNCHANGED <<serverVars, save, awaited, data, wire>>

\* The route is left: the preview is put back and the machine is stopped, the
\* save it started is not.
LeaveRoute ==
    /\ panel # "gone"
    /\ revert
    /\ panel' = "gone"
    /\ awaited' = NoSave
    /\ UNCHANGED <<serverVars, save, data, wire>>

EnterRoute ==
    /\ panel = "gone"
    /\ panel' = "closed"
    /\ UNCHANGED <<serverVars, save, awaited, storeVars, data, wire>>

Unheard(r) == save[r].by = "panel" /\ ~At(r, {"unused"}) /\ ~save[r].heard

\* The answer of a save that succeeded is committed to the preview store, and
\* what it moved is read again; its panel waits for that read.
SaveAnswered(r) ==
    /\ Unheard(r) /\ At(r, {"saved"})
    /\ commit(save[r].wanted)
    /\ wire' = Asked
    /\ save' = [save EXCEPT ![r] = [@ EXCEPT !.heard = TRUE]]
    /\ UNCHANGED <<serverVars, panel, awaited, data>>

\* The save was refused, or its answer never came: nothing is read again.
SaveFailed(r) ==
    /\ Unheard(r)
    /\ save' = [save EXCEPT ![r] = [@ EXCEPT !.heard = TRUE]]
    /\ panel' = IF awaited = r THEN "browsing" ELSE panel
    /\ awaited' = IF awaited = r THEN NoSave ELSE awaited
    /\ UNCHANGED <<serverVars, storeVars, data, wire>>

\* The reads of an answered save have settled: SAVED, and the panel closes.
Saved ==
    /\ panel = "saving"
    /\ save[awaited].heard
    /\ wire = Idle
    /\ panel' = "closed"
    /\ awaited' = NoSave
    /\ UNCHANGED <<serverVars, save, storeVars, data, wire>>

-----------------------------------------------------------------------------
(* The selection read *)

Refocus ==
    /\ wire = Idle
    /\ wire' = Asked
    /\ UNCHANGED <<serverVars, save, panel, awaited, storeVars, data>>

\* The service answers the read.
ReadSelection ==
    /\ wire = Asked
    /\ wire' = stored
    /\ UNCHANGED <<serverVars, save, panel, awaited, storeVars, data>>

\* The answer arrives; only one that differs is adopted.
ReadArrives ==
    /\ wire \in Selections
    /\ data' = wire
    /\ wire' = Idle
    /\ IF wire # data THEN adopt(wire) ELSE UNCHANGED storeVars
    /\ UNCHANGED <<serverVars, save, panel, awaited>>

ReadFails ==
    /\ wire # Idle
    /\ wire' = Idle
    /\ UNCHANGED <<serverVars, save, panel, awaited, storeVars, data>>

-----------------------------------------------------------------------------

Service ==
    \/ \E r \in Save :
         \/ Begin(r)
         \/ Buy(r)
         \/ View(r)
         \/ Commit(r)
         \/ Refuse(r)
         \/ \E s \in Selections : OtherSave(r, s)
    \/ \E o \in Ornament : GrantOwnership(o)

Client ==
    \/ RequestPanel
    \/ \E k \in Kind, o \in Ornament \cup {Default} : Pick(k, o)
    \/ \E r \in Save : PressSave(r) \/ SaveAnswered(r) \/ SaveFailed(r)
    \/ ClosePanel
    \/ LeaveRoute
    \/ EnterRoute
    \/ Saved
    \/ Refocus
    \/ ReadSelection
    \/ ReadArrives
    \/ ReadFails

DecorNext == Service \/ Client

DecorSpec == DecorInit /\ [][DecorNext]_decorVars

-----------------------------------------------------------------------------
(* Properties *)

\* Whatever saves overlap, are lost or are sent again, every ornament bought
\* is paid for by exactly one debit, a save that was refused leaves none, and
\* the balance is never overdrawn: "the user is refused, never half-charged".
PaidForOnce ==
    /\ \A d, e \in debits : d # e => d \cap e = {}
    /\ UNION debits = owned \cap Purchasable
    /\ balance >= 0

\* The ornament_owned counter may lag behind the ownership rows but never
\* overstates them, although a save adds up a list it read before it waited.
NeverOverstated == reach <= Cardinality(owned)

\* The universe wears a selection somebody asked for in whole; a mixture of
\* two takes a save that paid nothing, which no lock orders after the others.
WholeSelection ==
    \/ stored = Plain
    \/ \E r \in Save : At(r, {"saved"}) /\ stored = save[r].wanted
    \/ \E r \in Save : At(r, {"saved"}) /\ save[r].gained = {}
=============================================================================
