------------------------------- MODULE Session -------------------------------
(***************************************************************************)
(* The session of one client: the session machine and the facade that calls *)
(* the authentication adapter and fences its answers with an operation      *)
(* epoch (packages/auth: session-machine.ts, facade.ts).                    *)
(*                                                                         *)
(* A call of the facade is two steps, its start and the continuation of the *)
(* adapter's answer; in between the adapter may report anything: the token  *)
(* it renewed, a sign-in or sign-out of another tab, the report of the very *)
(* call under way. Wording of errors, expiry instants and RESET, which no   *)
(* caller sends, are left out. ClientProofs extends this module beside that *)
(* of the universe's mirror, hence the prefix Auth.                         *)
(***************************************************************************)
EXTENDS Naturals, FiniteSets

CONSTANTS
    User,
    NoUser,
    MaxCalls,  \* bound on the calls in flight
    MaxTurn    \* bound on the operations and reports that start something

Status == {"bootstrapping", "signedOut", "signingIn", "authenticated", "refreshing",
           "expired", "failed"}

ASSUME SessionAssumption ==
    /\ NoUser \notin User
    /\ MaxCalls \in Nat /\ MaxTurn \in Nat

VARIABLES
    status, userId,      \* the snapshot, and the region `session`
    boot,                \* the region `boot`
    access,              \* the region `access`
    attempt,             \* the region `attempt`
    epoch,               \* the facade's operation epoch
    calls,               \* the operations in flight
    disposed,
    turn                 \* history: operations and fences so far

machine == <<status, userId, access, attempt>>
authVars == <<machine, boot, epoch, calls, disposed, turn>>

Access == {"open", "closed", "forced"}
Attempt == {"idle", "inCall", "external", "outsideApp"}
SignInOp == {"signIn", "signUp", "google", "complete"}
Op == SignInOp \cup {"bootstrap", "signOut", "refresh"}

\* restorePoint
Point == [status : Status, userId : User \cup {NoUser}, access : Access, attempt : Attempt]

\* An operation; `later` is history: the turns taken since it began.
Call == [op : Op, turn : Nat, epoch : Nat, back : Point, later : SUBSET Nat]

AuthTypeOK ==
    /\ status \in Status
    /\ userId \in User \cup {NoUser}
    /\ boot \in {"pending", "settled"}
    /\ access \in Access
    /\ attempt \in Attempt
    /\ epoch \in Nat
    /\ calls \subseteq Call
    /\ disposed \in BOOLEAN
    /\ turn \in Nat

Here == [status |-> status, userId |-> userId, access |-> access, attempt |-> attempt]
NoPoint == [status |-> "signedOut", userId |-> NoUser, access |-> "open", attempt |-> "idle"]

NewCall(op, t, e, back) ==
    [op |-> op, turn |-> t, epoch |-> e, back |-> back, later |-> {}]

AuthInit ==
    /\ status = "bootstrapping" /\ userId = NoUser
    /\ boot = "pending" /\ access = "open" /\ attempt = "idle"
    /\ epoch = 0 /\ turn = 0
    /\ calls = {NewCall("bootstrap", 0, 0, NoPoint)}
    /\ disposed = FALSE

----------------------------------------------------------------------------
(* Events of the machine: what each does to the regions. *)

Enter(s, u) == status' = s /\ userId' = u
Stay == UNCHANGED <<status, userId>>
Ignore == UNCHANGED machine

SIGN_IN_START(external) ==
    /\ IF status \in {"bootstrapping", "signedOut", "expired", "failed"}
       THEN Enter("signingIn", NoUser) ELSE Stay
    /\ attempt' = IF external THEN "external" ELSE "inCall"
    /\ UNCHANGED access

SIGN_IN_SUCCESS(u) ==
    /\ IF status \in {"bootstrapping", "signingIn"} THEN Enter("authenticated", u) ELSE Stay
    /\ access' = "open"
    /\ attempt' = "idle"

SIGN_IN_FAILURE ==
    /\ IF status \in {"bootstrapping", "signingIn"} THEN Enter("failed", NoUser) ELSE Stay
    /\ attempt' = "idle"
    /\ UNCHANGED access

SIGN_IN_LEFT_APP ==
    /\ attempt' = IF attempt = "external" THEN "outsideApp" ELSE attempt
    /\ UNCHANGED <<status, userId, access>>

AUTHENTICATED(u) ==
    /\ Enter("authenticated", u)
    /\ access' = IF access = "closed" THEN "open" ELSE access
    /\ attempt' = "idle"

SIGN_OUT(forced) ==
    /\ Enter("signedOut", NoUser)
    /\ access' = IF forced \/ access = "forced" THEN "forced" ELSE "closed"
    /\ attempt' = "idle"

EXPIRED ==
    /\ IF status \in {"authenticated", "refreshing"} THEN Enter("expired", NoUser) ELSE Stay
    /\ UNCHANGED <<access, attempt>>

REFRESH_START ==
    /\ IF status \in {"bootstrapping", "authenticated", "expired"}
       THEN Enter("refreshing", userId) ELSE Stay
    /\ attempt' = IF attempt \in {"inCall", "external"} THEN "idle" ELSE attempt
    /\ UNCHANGED access

REFRESH_SUCCESS(u) ==
    /\ IF status \in {"bootstrapping", "refreshing"} THEN Enter("authenticated", u) ELSE Stay
    /\ access' = IF access = "closed" THEN "open" ELSE access
    /\ UNCHANGED attempt

REFRESH_FAILURE ==
    /\ CASE status = "refreshing" /\ userId # NoUser -> Enter("authenticated", userId)
         [] status \in {"bootstrapping", "refreshing"} /\ userId = NoUser -> Enter("failed", NoUser)
         [] OTHER -> Stay
    /\ UNCHANGED <<access, attempt>>

BOOTSTRAP_DONE(u) ==
    /\ IF status = "bootstrapping"
       THEN Enter(IF u = NoUser THEN "signedOut" ELSE "authenticated", u) ELSE Stay
    /\ UNCHANGED <<access, attempt>>

BOOTSTRAP_FAILURE ==
    /\ IF status = "bootstrapping" THEN Enter("failed", NoUser) ELSE Stay
    /\ UNCHANGED <<access, attempt>>

RESTORE(p) ==
    /\ Enter(p.status, p.userId)
    /\ access' = p.access
    /\ attempt' = p.attempt

----------------------------------------------------------------------------
(* Turns: an operation or a fence supersedes the calls in flight. *)

Superseded == {[c EXCEPT !.later = @ \cup {turn + 1}] : c \in calls}

\* The action `fence` and every `epoch += 1`.
Fence ==
    /\ epoch' = epoch + 1
    /\ turn' = turn + 1
    /\ calls' = Superseded

Start(op, back) ==
    /\ epoch' = epoch + 1
    /\ turn' = turn + 1
    /\ calls' = Superseded \cup {NewCall(op, turn + 1, epoch + 1, back)}

----------------------------------------------------------------------------
(* Reports of the adapter, which the machine may ignore *)

AwaitingSignInCall == attempt \in {"inCall", "external"}
SuppressingRefresh == access # "open" \/ attempt # "idle"

MayAuthenticate(refreshed) ==
    /\ boot = "settled"
    /\ access # "forced"
    /\ ~(refreshed /\ SuppressingRefresh)

AdapterAuthenticated(u, refreshed) ==
    /\ ~disposed
    /\ MayAuthenticate(refreshed)
    /\ AUTHENTICATED(u)
    /\ UNCHANGED <<boot, epoch, calls, disposed, turn>>

\* Fences what is in flight, and ends the session.
Ends ==
    /\ ~disposed
    /\ Fence
    /\ SIGN_OUT(FALSE)
    /\ UNCHANGED <<boot, disposed>>

AdapterSignedOut ==
    /\ ~AwaitingSignInCall /\ status # "failed"
    /\ turn < MaxTurn
    /\ Ends

\* Broken variant of AdapterExpired: it only expires what it fences.
AdapterExpiredOnly ==
    /\ turn < MaxTurn /\ ~disposed
    /\ IF boot = "pending" THEN Fence ELSE UNCHANGED <<epoch, turn, calls>>
    /\ EXPIRED
    /\ UNCHANGED <<boot, disposed>>

\* Before the bootstrap settles, an expired session is no session.
AdapterExpired ==
    /\ turn < MaxTurn
    /\ IF boot = "pending" THEN Ends
       ELSE ~disposed /\ EXPIRED /\ UNCHANGED <<boot, epoch, calls, disposed, turn>>

----------------------------------------------------------------------------
(* Operations of the facade *)

MayStart == ~disposed /\ Cardinality(calls) < MaxCalls /\ turn < MaxTurn

\* gateDecision
Gate == CASE status = "authenticated" -> "universe"
          [] status \in {"bootstrapping", "refreshing"} -> "hold"
          [] OTHER -> "login"

\* The forms are on the login page; a callback link comes from outside.
SignIn(op) ==
    /\ MayStart
    /\ op # "complete" => Gate = "login"
    /\ Start(op, NoPoint)
    /\ SIGN_IN_START(op = "google")
    /\ UNCHANGED <<boot, disposed>>

SignOut ==
    /\ MayStart
    /\ Start("signOut", Here)
    /\ SIGN_OUT(FALSE)
    /\ UNCHANGED <<boot, disposed>>

\* Broken variant of ForceLocalSignOut: the epoch stays.
ForceUnfenced ==
    /\ ~disposed /\ turn < MaxTurn
    /\ turn' = turn + 1
    /\ calls' = Superseded
    /\ SIGN_OUT(TRUE)
    /\ UNCHANGED <<epoch, boot, disposed>>

ForceLocalSignOut ==
    /\ ~disposed /\ turn < MaxTurn
    /\ Fence
    /\ SIGN_OUT(TRUE)
    /\ UNCHANGED <<boot, disposed>>

RefreshAllowed == access # "forced"

Refresh ==
    /\ MayStart
    /\ RefreshAllowed
    /\ Start("refresh", NoPoint)
    /\ REFRESH_START
    /\ UNCHANGED <<boot, disposed>>

\* Broken variant of GoogleFlowOpen: a flow that left the app is no longer open.
GoogleCallOpen == status = "signingIn" /\ attempt = "external"

GoogleFlowOpen == status = "signingIn" /\ attempt \in {"external", "outsideApp"}

\* CANCEL_SIGN_IN
CancelSignIn == GoogleFlowOpen /\ Ends

Dispose ==
    /\ ~disposed /\ turn < MaxTurn
    /\ disposed' = TRUE
    /\ Fence
    /\ UNCHANGED <<machine, boot>>

----------------------------------------------------------------------------
(* The continuation of a call: the adapter resolved or rejected *)

\* Broken variant of Current: a settlement is never too late.
CurrentAlways(c) == TRUE
Current(c) == c.epoch = epoch

Finish(c) == calls' = calls \ {c} /\ UNCHANGED <<epoch, turn>>

\* Without a session now, a sign-up awaits its confirmation and a Google flow goes on
\* outside the app.
SignInOutcome(op) ==
    \/ SIGN_IN_FAILURE
    \/ \E u \in User : SIGN_IN_SUCCESS(u)
    \/ op = "signUp" /\ SIGN_OUT(FALSE)
    \/ op = "google" /\ SIGN_IN_LEFT_APP

SettleSignIn(c) ==
    /\ c.op \in SignInOp
    /\ IF Current(c) /\ ~disposed THEN SignInOutcome(c.op) ELSE Ignore
    /\ Finish(c)
    /\ UNCHANGED <<boot, disposed>>

\* A settled bootstrap lets the adapter's reports in, whether or not it applied.
SettleBootstrap(c) ==
    /\ c.op = "bootstrap"
    /\ IF Current(c) /\ ~disposed
       THEN BOOTSTRAP_FAILURE \/ \E u \in User \cup {NoUser} : BOOTSTRAP_DONE(u)
       ELSE Ignore
    /\ boot' = IF disposed THEN boot ELSE "settled"
    /\ Finish(c)
    /\ UNCHANGED disposed

SettleRefresh(c) ==
    /\ c.op = "refresh"
    /\ IF Current(c) /\ ~disposed
       THEN REFRESH_FAILURE \/ \E u \in User : REFRESH_SUCCESS(u)
       ELSE Ignore
    /\ Finish(c)
    /\ UNCHANGED <<boot, disposed>>

SignOutDone(c) ==
    /\ c.op = "signOut"
    /\ Finish(c)
    /\ UNCHANGED <<machine, boot, disposed>>

\* A sign-out that failed with nothing after it gives its turn back, and puts back
\* what it closed.
SignOutFailed(c) ==
    /\ c.op = "signOut"
    /\ IF Current(c)
       THEN /\ epoch' = c.epoch - 1
            /\ calls' = {[d EXCEPT !.later = @ \ {c.turn}] : d \in calls \ {c}}
            /\ IF disposed THEN Ignore ELSE RESTORE(c.back)
            /\ UNCHANGED turn
       ELSE Finish(c) /\ Ignore
    /\ UNCHANGED <<boot, disposed>>

Settle(c) ==
    SettleSignIn(c) \/ SettleBootstrap(c) \/ SettleRefresh(c) \/ SignOutDone(c) \/ SignOutFailed(c)

----------------------------------------------------------------------------

AuthNext ==
    \/ \E op \in SignInOp : SignIn(op)
    \/ SignOut
    \/ ForceLocalSignOut
    \/ Refresh
    \/ CancelSignIn
    \/ Dispose
    \/ \E c \in calls : Settle(c)
    \/ \E u \in User, refreshed \in BOOLEAN : AdapterAuthenticated(u, refreshed)
    \/ AdapterSignedOut
    \/ AdapterExpired

\* Every call of the adapter settles, and the host cancels a flow that left the app
\* when its page or app is shown again.
Fairness ==
    /\ WF_authVars(\E c \in calls : Settle(c))
    /\ WF_authVars(CancelSignIn)

AuthSpec == AuthInit /\ [][AuthNext]_authVars
FairSpec == AuthSpec /\ Fairness

----------------------------------------------------------------------------
(* Properties *)

Settles(c) == c \in calls /\ \A d \in calls' : d.turn # c.turn

\* A result that settles after a newer operation, a fence, or a sign-out that still
\* stands never drives the machine, although a failed sign-out rolls the epoch back.
LateResultInert ==
    [][\A c \in calls : Settles(c) /\ c.later # {} => UNCHANGED machine]_authVars

\* Only the success of a sign-in begun after it ends a forced sign-out: no report, no
\* refresh and no failed sign-out reopens the session.
ForcedHolds ==
    [][access = "forced" /\ access' # "forced" =>
          /\ status' \in {status, "authenticated"}
          /\ \E c \in calls : Settles(c) /\ c.op \in SignInOp /\ c.later = {}]_authVars

\* A session that a sign-out closed holds no identity, whatever is reported or settles.
ClosedHasNoUser ==
    access # "open" => userId = NoUser /\ status \notin {"authenticated", "refreshing"}

\* The operations a status waits for.
WaitsFor ==
    CASE status = "bootstrapping" -> {"bootstrap"}
      [] status = "refreshing" -> {"refresh"}
      [] status = "signingIn" /\ attempt # "outsideApp" -> SignInOp
      [] OTHER -> {}

Stranded == WaitsFor # {} /\ ~disposed /\ \A c \in calls : c.op \in WaitsFor => ~Current(c)

\* A status never awaits an operation whose result will not count, with two exceptions:
\* a failed sign-out restores what waited for a result that came in the meantime, and a
\* refresh or a callback link takes the turn of the operation awaited.
StrandedOnlyBy ==
    [][~Stranded /\ Stranded' =>
          \/ \E c \in calls : Settles(c) /\ c.op = "signOut"
          \/ \E c \in calls' : c.turn = turn' /\ c.op \in {"refresh", "complete"}]_authVars

\* A sign-in under way ends, unless it is stranded as above.
SignInEnds == status = "signingIn" ~> status # "signingIn" \/ Stranded \/ disposed

=============================================================================
