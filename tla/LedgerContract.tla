--------------------------- MODULE LedgerContract ---------------------------
(***************************************************************************)
(* What the Twinkle ledger promises: an append-only log and one balance    *)
(* row per user, moved together by whole transactions.  Nothing of how the *)
(* transactions read, wait, race or fail is visible here.                  *)
(***************************************************************************)
EXTENDS Integers

CONSTANTS
    User,
    Request,    \* records [kind, user, inviter, amount, id]
    Grant       \* SMALL refilled per local day

VARIABLES
    log,        \* the committed ledger entries
    balance     \* the balance row of each user

vars == <<log, balance>>

Entry == [req : Request, user : User, credit : Nat, small : Nat, general : Nat, window : Nat]
Row == [general : Nat, spent : 0..Grant, window : Nat \cup {-1}]
NewUser == [general |-> 0, spent |-> 0, window |-> -1]

TypeOK ==
    /\ log \subseteq Entry
    /\ balance \in [User -> Row]

Init ==
    /\ log = {}
    /\ balance = [u \in User |-> NewUser]

\* A request moves a user's balance once, however often it is sent.
Fresh(E) == \A e \in E, f \in log \cup E :
                e.req = f.req /\ e.user = f.user => e = f

\* Both legs of an invite are credited, or neither is.
Whole(E) == \A e \in E : e.req.kind = "invite" =>
                \A u \in {e.req.user, e.req.inviter} :
                    \E f \in E : f.req = e.req /\ f.user = u

\* GENERAL moves by what the entry says; SMALL is drawn inside one grant per
\* window, and the window never moves back.
Moved(old, new, e) ==
    /\ new.general = old.general + e.credit - e.general
    /\ \/ new.window = old.window /\ new.spent = old.spent + e.small
       \/ new.window > old.window /\ new.window = e.window /\ new.spent = e.small

\* One request is posted, whole and once, to every balance it moves and no other.
Post(E) ==
    /\ E \subseteq Entry
    /\ Fresh(E)
    /\ Whole(E)
    /\ \A e, f \in E : e.req = f.req
    /\ \A u \in User :
         \/ \E e \in E : e.user = u /\ Moved(balance[u], balance'[u], e)
         \/ (\A e \in E : e.user # u) /\ balance'[u] = balance[u]

Next ==
    /\ log \subseteq log'
    /\ balance' \in [User -> Row]
    /\ Post(log' \ log)

Spec == Init /\ [][Next]_vars
=============================================================================
