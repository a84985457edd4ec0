----------------------------- MODULE PaidAction -----------------------------
(***************************************************************************)
(* The recall dialog and the gist view of one client, and the service that  *)
(* recalls, restores and reads for them (packages/universe:                 *)
(* paid-action-session.ts, recall-flow.machine.ts, react/use-recall-flow.ts, *)
(* gist-view.machine.ts, react/use-gist-view.ts; apps/api memory: recall.go,  *)
(* restore_memory_text.go, view_semantic.go, paid_actions.go).               *)
(*                                                                         *)
(* A request may fail for the client and go on at the service, where it     *)
(* meets its own retry. The service runs each transaction under the user's  *)
(* graph lock, so one is one step; a recall takes two around the provider.  *)
(* The reinforcement itself, the counters and the answer's other fields are *)
(* left out, and a gist that has not risen answers like a memory that is gone. *)
(***************************************************************************)
EXTENDS Naturals, FiniteSets

CONSTANTS
    Memory,
    Text,
    Launched,  \* the text the memories were launched with
    None,
    Price, Grant,
    MaxIds,    \* bound on the operation ids minted by opening
    MaxSends,  \* bound on the requests
    MaxDay,    \* bound on the days
    MaxOther   \* bound on the changes another device makes

Key == [kind : {"recall", "restore", "gist"}, memory : Memory]
RecallKey == {k \in Key : k.kind # "gist"}
Attempt == [id : Nat, key : Key]
Answer == {"ok", "conflict", "consent", "gone", "insufficient", "changed",
           "unauthenticated", "error"}

ASSUME PaidActionAssumption ==
    /\ None \notin Nat /\ None \notin Text \cup Answer \cup Attempt /\ Launched \in Text
    /\ Price \in Nat /\ Grant \in Nat
    /\ MaxIds \in Nat /\ MaxSends \in Nat /\ MaxDay \in Nat /\ MaxOther \in Nat

VARIABLES
    dialog,    \* recallFlowMachine, with the result the draft store shows
    target,    \* recall-target-store: the intent asked for
    draft,     \* recall-draft-store: the rewrite
    view,      \* gistViewMachine, and the attempt its effect began
    active,    \* of the paid session of each
    inFlight,
    ids,       \* the operation ids minted so far
    wire,      \* the requests
    sends,
    receipt,   \* memory_paid_action_receipts
    debits,    \* the spends of the ledger for this client's operations
    balance,
    clock,     \* the universe clock
    today,     \* the user's day
    live,      \* the memories not released
    text, rev, \* current_text and representation_revision of each
    others,    \* the changes another device made
    accepted   \* history: the ids whose quote the user accepted

session == <<active, inFlight, ids>>
recallSide == <<dialog, target, draft>>
client == <<recallSide, view, session, accepted>>
ledger == <<receipt, debits, balance>>
server == <<ledger, clock, today, live, text, rev, others>>
vars == <<client, wire, sends, server>>

Phase == {"idle", "confirmingSync", "quoting", "rewriting", "reconsolidating", "result"}

Request ==
    [n : Nat, id : Nat, key : Key, text : Text \cup {None}, consent : BOOLEAN,
     at : {"sent", "prepared"},
     day : Nat \cup {None}, read : Nat \cup {None}, differs : BOOLEAN,
     answer : Answer \cup {None},
     awaited : BOOLEAN]  \* the client still waits

TypeOK ==
    /\ dialog \in [phase : Phase, attempt : Attempt \cup {None}, consented : BOOLEAN,
                   submitted : BOOLEAN, shown : Nat \cup {None}]
    /\ target \in RecallKey \cup {None}
    /\ draft \in Text \cup {None}
    /\ view \in [phase : {"closed", "quoting", "viewing", "revealed", "failed"},
                 attempt : Attempt \cup {None}, failure : {None, "ambiguous", "known-refusal"},
                 began : Nat \cup {None}, shown : Nat \cup {None}]
    /\ active \in [{"recall", "gist"} -> Nat \cup {None}]
    /\ inFlight \in [{"recall", "gist"} -> Nat \cup {None}]
    /\ ids \in Nat /\ sends \in Nat
    /\ wire \subseteq Request
    /\ receipt \subseteq [id : Nat, key : Key, text : Text \cup {None}, rewrote : BOOLEAN]
    /\ debits \subseteq [n : Nat, id : Nat]
    /\ balance \in Nat /\ clock \in Nat /\ today \in Nat
    /\ live \subseteq Memory
    /\ text \in [Memory -> Text] /\ rev \in [Memory -> Nat]
    /\ others \in Nat /\ accepted \subseteq Nat

Closed == [phase |-> "idle", attempt |-> None, consented |-> FALSE, submitted |-> FALSE,
           shown |-> None]
NoView == [phase |-> "closed", attempt |-> None, failure |-> None, began |-> None, shown |-> None]

Init ==
    /\ dialog = Closed /\ target = None /\ draft = None
    /\ view = NoView
    /\ active = [f \in {"recall", "gist"} |-> None]
    /\ inFlight = [f \in {"recall", "gist"} |-> None]
    /\ ids = 0 /\ wire = {} /\ sends = 0 /\ accepted = {}
    /\ receipt = {} /\ debits = {} /\ balance = Grant
    /\ clock = 0 /\ today = 0 /\ live = Memory
    /\ text = [m \in Memory |-> Launched] /\ rev = [m \in Memory |-> 0]
    /\ others = 0

----------------------------------------------------------------------------
(* createPaidActionSession, one of each flow *)

New(key) == [id |-> ids + 1, key |-> key]

begin(f) ==
    /\ ids' = ids + 1
    /\ active' = [active EXCEPT ![f] = ids + 1]
    /\ inFlight' = [inFlight EXCEPT ![f] = None]

MayStart(f, attempt) == active[f] = attempt.id /\ inFlight[f] = None

start(f, attempt) ==
    /\ inFlight' = [inFlight EXCEPT ![f] = attempt.id]
    /\ UNCHANGED <<active, ids>>

\* Broken variant of isActive: a late completion counts.
isActiveAlways(f, id) == TRUE
isActive(f, id) == active[f] = id

finish(f, id) ==
    /\ inFlight' = [inFlight EXCEPT ![f] = IF active[f] = id /\ @ = id THEN None ELSE @]
    /\ UNCHANGED <<active, ids>>

invalidate(f, id) ==
    /\ active' = [active EXCEPT ![f] = IF @ = id THEN None ELSE @]
    /\ inFlight' = [inFlight EXCEPT ![f] = IF active[f] = id THEN None ELSE @]
    /\ UNCHANGED ids

----------------------------------------------------------------------------
(* The service *)

\* What the service knew of a request goes with its answer.
WithAnswer(q, a) ==
    [q EXCEPT !.answer = a, !.at = "sent", !.day = None, !.read = None, !.differs = FALSE]

Reply(q, a) == wire' = (wire \ {q}) \cup {r \in {WithAnswer(q, a)} : q.awaited}

\* Broken variant of Fresh: no receipt is looked up.
FreshAlways(q) == TRUE
Fresh(q) == \A r \in receipt : r.id # q.id

\* replayReceipt
Replays(q) == \A r \in receipt : r.id = q.id => r.key = q.key /\ r.text = q.text

\* Broken variant of Refusal: a recall commits on a text that moved since it was read.
RefusalStale(q, day) ==
    IF ~Fresh(q) THEN IF Replays(q) THEN "ok" ELSE "conflict"
    ELSE IF q.key.kind # "gist" /\ ~q.consent /\ day > clock THEN "consent"
    ELSE IF q.key.memory \notin live THEN "gone"
    ELSE IF q.key.kind # "recall" /\ balance < Price THEN "insufficient"
    ELSE None

\* replayIfReceipted, then the checks of a transaction that looks the target up.
Refusal(q, day) ==
    IF ~Fresh(q) THEN IF Replays(q) THEN "ok" ELSE "conflict"
    ELSE IF q.key.kind # "gist" /\ ~q.consent /\ day > clock THEN "consent"
    ELSE IF q.key.memory \notin live THEN "gone"
    ELSE IF q.key.kind # "recall" /\ balance < Price THEN "insufficient"
    ELSE IF q.at = "prepared" /\ q.read # rev[q.key.memory] THEN "changed"
    ELSE None

Receipt(q, rewrote) ==
    receipt' = receipt \cup {[id |-> q.id, key |-> q.key, text |-> q.text, rewrote |-> rewrote]}

\* AdvanceClock
Sync(day) == clock' = IF day > clock THEN day ELSE clock

Waiting(q) == q.answer = None

\* The gate in front of the service looks at the session, and at no receipt.
Unauthenticated(q) ==
    /\ Waiting(q) /\ q.at = "sent"
    /\ Reply(q, "unauthenticated")
    /\ UNCHANGED <<client, server, sends>>

\* The transport, the provider or a transaction fails; nothing is committed.
Fail(q) ==
    /\ Waiting(q)
    /\ Reply(q, "error")
    /\ UNCHANGED <<client, server, sends>>

Refuse(q) ==
    /\ Waiting(q)
    /\ LET day == IF q.at = "prepared" THEN q.day ELSE today
       IN Refusal(q, day) # None /\ Reply(q, Refusal(q, day))
    /\ UNCHANGED <<client, server, sends>>

\* RestoreMemoryText and ViewSemantic: the debit, the effects and the receipt at once.
Charge(q) ==
    /\ Waiting(q) /\ q.key.kind # "recall"
    /\ Refusal(q, today) = None
    /\ debits' = debits \cup {[n |-> q.n, id |-> q.id]}
    /\ balance' = balance - Price
    /\ Receipt(q, FALSE)
    /\ IF q.key.kind = "gist" THEN UNCHANGED clock ELSE Sync(today)
    /\ Reply(q, "ok")
    /\ UNCHANGED <<client, sends, today, live, text, rev, others>>

\* prepareRecall, and the verdict of the provider on the text it read.
Prepare(q) ==
    /\ Waiting(q) /\ q.key.kind = "recall" /\ q.at = "sent"
    /\ Refusal(q, today) = None
    /\ wire' = (wire \ {q}) \cup
          {[q EXCEPT !.at = "prepared", !.day = today, !.read = rev[q.key.memory],
                     !.differs = text[q.key.memory] # q.text]}
    /\ UNCHANGED <<client, server, sends>>

\* commitRecall
Commit(q) ==
    /\ Waiting(q) /\ q.at = "prepared"
    /\ Refusal(q, q.day) = None
    /\ Receipt(q, q.differs)
    /\ Sync(q.day)
    /\ IF q.differs
       THEN /\ text' = [text EXCEPT ![q.key.memory] = q.text]
            /\ rev' = [rev EXCEPT ![q.key.memory] = @ + 1]
       ELSE UNCHANGED <<text, rev>>
    /\ Reply(q, "ok")
    /\ UNCHANGED <<client, sends, debits, balance, today, live, others>>

\* Another device of the user: a recall there, a release and its restore, a spend.
OtherDevice ==
    /\ others < MaxOther
    /\ others' = others + 1
    /\ UNCHANGED <<client, wire, sends, clock, today>>

OtherRewrite(m, t) ==
    /\ OtherDevice
    /\ text[m] # t
    /\ text' = [text EXCEPT ![m] = t]
    /\ rev' = [rev EXCEPT ![m] = @ + 1]
    /\ UNCHANGED <<ledger, live>>

OtherRelease(m) ==
    /\ OtherDevice
    /\ live' = IF m \in live THEN live \ {m} ELSE live \cup {m}
    /\ UNCHANGED <<ledger, text, rev>>

OtherSpend ==
    /\ OtherDevice
    /\ balance >= Price
    /\ balance' = balance - Price
    /\ UNCHANGED <<receipt, debits, live, text, rev>>

NewDay ==
    /\ today < MaxDay
    /\ today' = today + 1
    /\ UNCHANGED <<client, wire, sends, ledger, clock, live, text, rev, others>>

----------------------------------------------------------------------------
(* The recall dialog *)

Send(attempt, t, consent) ==
    /\ sends < MaxSends
    /\ sends' = sends + 1
    /\ wire' = wire \cup
          {[n |-> sends + 1, id |-> attempt.id, key |-> attempt.key, text |-> t,
            consent |-> consent, at |-> "sent", day |-> None, read |-> None,
            differs |-> FALSE, answer |-> None, awaited |-> TRUE]}

\* A panel asks for a recall or a restoration, or a sign-out clears the target; the effect of
\* the last move ran before.
Retarget(key) ==
    /\ key # target
    /\ dialog.attempt # None => dialog.attempt.key = target
    /\ target' = key
    /\ UNCHANGED <<dialog, draft, view, session, accepted, wire, sends, server>>

\* Broken variant of Invalidated: a busy dialog is left as it is.
InvalidatedUnlessBusy ==
    /\ dialog.attempt # None /\ dialog.attempt.key # target
    /\ invalidate("recall", dialog.attempt.id)
    /\ dialog' = IF dialog.phase = "reconsolidating" THEN dialog ELSE Closed
    /\ draft' = None
    /\ UNCHANGED <<target, view, accepted, wire, sends, server>>

\* The first effect, once the target moved: the intent on show is over.
Invalidated ==
    /\ dialog.attempt # None /\ dialog.attempt.key # target
    /\ invalidate("recall", dialog.attempt.id)
    /\ dialog' = Closed /\ draft' = None
    /\ UNCHANGED <<target, view, accepted, wire, sends, server>>

\* The phase a restoration and a reconstruction begin with.
FirstPhase(key) == IF key.kind = "restore" THEN "quoting" ELSE "rewriting"

\* OPEN. The status the dialog read may be stale.
Open(needsSync) ==
    /\ dialog.phase = "idle" /\ target # None /\ ids < MaxIds
    /\ begin("recall")
    /\ dialog' = [Closed EXCEPT !.attempt = New(target),
                      !.phase = IF needsSync THEN "confirmingSync" ELSE FirstPhase(target)]
    /\ draft' = None
    /\ UNCHANGED <<target, view, accepted, wire, sends, server>>

\* close. A tap that comes before RECALL is rendered goes through: the machine drops CLOSE.
Close ==
    /\ dialog.phase # "idle"
    /\ dialog.phase = "reconsolidating" =>
          \E q \in wire : q.id = dialog.attempt.id /\ q.at = "sent" /\ Waiting(q)
    /\ invalidate("recall", dialog.attempt.id)
    /\ dialog' = IF dialog.phase = "reconsolidating" THEN dialog ELSE Closed
    /\ target' = None /\ draft' = None
    /\ UNCHANGED <<view, accepted, wire, sends, server>>

\* reject. The same of a tap that comes before ACCEPT is rendered.
Reject ==
    /\ \/ dialog.phase = "confirmingSync"
       \/ dialog.phase \in {"quoting", "rewriting"} /\ dialog.consented
    /\ invalidate("recall", dialog.attempt.id)
    /\ dialog' = IF dialog.phase = "confirmingSync" THEN Closed ELSE dialog
    /\ target' = None /\ draft' = None
    /\ UNCHANGED <<view, accepted, wire, sends, server>>

\* ACCEPT
AcceptSync ==
    /\ dialog.phase = "confirmingSync"
    /\ dialog' = [dialog EXCEPT !.phase = FirstPhase(dialog.attempt.key), !.consented = TRUE]
    /\ UNCHANGED <<target, draft, view, session, accepted, wire, sends, server>>

\* PROCEED
AcceptQuote ==
    /\ dialog.phase = "quoting"
    /\ dialog' = [dialog EXCEPT !.phase = "rewriting"]
    /\ accepted' = accepted \cup {dialog.attempt.id}
    /\ UNCHANGED <<target, draft, view, session, wire, sends, server>>

\* Broken variant of SetAnswer: the draft of a submitted operation is edited.
SetAnswerAnytime(t) ==
    /\ dialog.phase = "rewriting"
    /\ dialog.attempt.key.kind = "recall"
    /\ draft' = t
    /\ UNCHANGED <<dialog, target, view, session, accepted, wire, sends, server>>

SetAnswer(t) ==
    /\ dialog.phase = "rewriting" /\ ~dialog.submitted
    /\ dialog.attempt.key.kind = "recall"
    /\ draft' = t
    /\ UNCHANGED <<dialog, target, view, session, accepted, wire, sends, server>>

ConfirmRecall ==
    /\ dialog.phase = "rewriting"
    /\ target # None /\ dialog.attempt.key = target
    /\ target.kind = "recall" => draft # None
    /\ MayStart("recall", dialog.attempt)
    /\ start("recall", dialog.attempt)
    /\ dialog' = [dialog EXCEPT !.phase = "reconsolidating", !.submitted = TRUE]
    /\ Send(dialog.attempt, IF target.kind = "recall" THEN draft ELSE None, dialog.consented)
    /\ UNCHANGED <<target, draft, view, accepted, server>>

\* What the client makes of an answer; a lost one is "error" too (classifyPaidActionError).
KnownRefusal == Answer \ {"ok", "error"}

\* DONE, ERROR, CONSENT_REQUIRED or REQUOTE, and the finally.
Settle(q, answer) ==
    \/ /\ answer = "ok"
       /\ dialog' = [dialog EXCEPT !.phase = "result", !.shown = q.id]
       /\ finish("recall", q.id)
    \/ /\ answer = "error"
       /\ dialog' = [dialog EXCEPT !.phase = "rewriting"]
       /\ finish("recall", q.id)
    \/ /\ answer \in KnownRefusal
       /\ begin("recall")
       /\ dialog' = [dialog EXCEPT !.attempt = New(q.key), !.submitted = FALSE,
             !.phase = IF answer = "consent" /\ ~q.consent THEN "confirmingSync"
                       ELSE FirstPhase(q.key)]

Outcome(q) == IF Waiting(q) THEN "error" ELSE q.answer

\* The continuation of the request, with its answer or without one. A request given up on
\* may still be at the service.
Complete(q) ==
    /\ q.awaited /\ q.key.kind # "gist"
    /\ wire' = (wire \ {q}) \cup {r \in {[q EXCEPT !.awaited = FALSE]} : Waiting(q)}
    /\ IF isActive("recall", q.id) THEN Settle(q, Outcome(q))
       ELSE finish("recall", q.id) /\ UNCHANGED dialog
    /\ UNCHANGED <<target, draft, view, accepted, sends, server>>

----------------------------------------------------------------------------
(* The gist view *)

\* The effect of a mount, or of another memory: START.
Show(key) ==
    /\ ids < MaxIds
    /\ view.phase # "closed" => view.attempt.key # key
    /\ begin("gist")
    /\ view' = [NoView EXCEPT !.phase = "quoting", !.attempt = New(key), !.began = ids + 1]
    /\ UNCHANGED <<recallSide, accepted, wire, sends, server>>

\* The cleanup invalidates the attempt the effect began, which a refusal may have replaced.
Unmount ==
    /\ view.phase # "closed"
    /\ invalidate("gist", view.began)
    /\ view' = NoView
    /\ UNCHANGED <<recallSide, accepted, wire, sends, server>>

CloseView ==
    /\ view.phase \in {"quoting", "revealed", "failed"}
    /\ invalidate("gist", view.attempt.id)
    /\ view' = NoView
    /\ UNCHANGED <<recallSide, accepted, wire, sends, server>>

Read ==
    /\ MayStart("gist", view.attempt)
    /\ start("gist", view.attempt)
    /\ view' = [view EXCEPT !.phase = "viewing", !.failure = None]
    /\ Send(view.attempt, None, FALSE)
    /\ UNCHANGED <<recallSide, server>>

\* The cost gate's proceed.
Proceed ==
    /\ view.phase = "quoting"
    /\ accepted' = accepted \cup {view.attempt.id}
    /\ Read

\* retry: the same operation after an ambiguous failure, the gate after a refusal.
Retry ==
    /\ view.phase = "failed"
    /\ UNCHANGED accepted
    /\ IF view.failure = "ambiguous" THEN Read
       ELSE /\ view' = [view EXCEPT !.phase = "quoting", !.failure = None]
            /\ UNCHANGED <<recallSide, session, wire, sends, server>>

\* A view that is gone takes no event.
Showing(v) == IF view.phase = "viewing" THEN v ELSE view

SettleView(q, answer) ==
    \/ /\ answer = "ok"
       /\ view' = Showing([view EXCEPT !.phase = "revealed", !.shown = q.id])
       /\ finish("gist", q.id)
    \/ /\ answer = "error"
       /\ view' = Showing([view EXCEPT !.phase = "failed", !.failure = "ambiguous"])
       /\ finish("gist", q.id)
    \/ /\ answer \in KnownRefusal
       /\ begin("gist")
       /\ view' = Showing([view EXCEPT !.phase = "failed", !.failure = "known-refusal",
                                       !.attempt = New(q.key)])

CompleteView(q) ==
    /\ q.awaited /\ q.key.kind = "gist"
    /\ wire' = (wire \ {q}) \cup {r \in {[q EXCEPT !.awaited = FALSE]} : Waiting(q)}
    /\ IF isActive("gist", q.id) THEN SettleView(q, Outcome(q))
       ELSE finish("gist", q.id) /\ UNCHANGED view
    /\ UNCHANGED <<recallSide, accepted, sends, server>>

----------------------------------------------------------------------------

Serve(q) ==
    \/ Unauthenticated(q) \/ Fail(q) \/ Refuse(q)
    \/ Charge(q) \/ Prepare(q) \/ Commit(q)

Completes(q) == Complete(q) \/ CompleteView(q)

Next ==
    \/ \E q \in wire : Serve(q) \/ Completes(q)
    \/ \E m \in Memory, t \in Text : OtherRewrite(m, t)
    \/ \E m \in Memory : OtherRelease(m)
    \/ OtherSpend \/ NewDay
    \/ \E key \in RecallKey \cup {None} : Retarget(key)
    \/ Invalidated
    \/ \E needsSync \in BOOLEAN : Open(needsSync)
    \/ Close \/ Reject
    \/ AcceptSync \/ AcceptQuote \/ ConfirmRecall
    \/ \E t \in Text : SetAnswer(t)
    \/ \E key \in Key \ RecallKey : Show(key)
    \/ Unmount \/ CloseView \/ Proceed \/ Retry

\* Every request ends for the client, with an answer or without, and effects run.
Fairness ==
    /\ \A n \in 1..MaxSends : WF_vars(\E q \in wire : q.n = n /\ Completes(q))
    /\ WF_vars(Invalidated)

Spec == Init /\ [][Next]_vars
FairSpec == Spec /\ Fairness

----------------------------------------------------------------------------
(* Properties *)

\* However often an operation is sent, lost, repeated and met by its own retry at the
\* service, it is charged once, and what it paid for is kept under its receipt.
ChargedOnce ==
    \A d \in debits :
        /\ \A e \in debits : e.id = d.id => e = d
        /\ \E r \in receipt : r.id = d.id

\* Nothing is charged that the user did not accept a quote for: one quote, one charge.
PaidAsQuoted == \A d \in debits : d.id \in accepted

\* What is shown answers the intent on show, and was committed for it.
ShownIsAnswered ==
    /\ dialog.phase = "result" =>
          /\ dialog.shown = dialog.attempt.id
          /\ \E r \in receipt : r.id = dialog.shown /\ r.key = dialog.attempt.key
    /\ view.phase = "revealed" =>
          /\ view.shown = view.attempt.id
          /\ \E r \in receipt : r.id = view.shown /\ r.key = view.attempt.key

\* A client never meets its own receipt with another input: what was submitted stays as it
\* is until the operation is answered or given up.
NoConflict == \A q \in wire : q.answer # "conflict"

\* A recall rewrites the memory exactly when its text differs from the one it replaces,
\* although the provider compared them between two transactions.
BranchFitsText ==
    [][\A r \in receipt' \ receipt :
          r.key.kind = "recall" => (r.rewrote <=> text[r.key.memory] # r.text)]_vars

\* A dialog that cannot be dismissed does not stay.
BusyEnds ==
    /\ []<>(dialog.phase # "reconsolidating")
    /\ []<>(view.phase # "viewing")

=============================================================================
