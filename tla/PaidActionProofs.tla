-------------------------- MODULE PaidActionProofs --------------------------
(***************************************************************************)
(* Paid actions for any memories, texts, prices and bounds: what is charged *)
(* was accepted and is charged once, and what is shown answers it.          *)
(***************************************************************************)
EXTENDS PaidAction, TLAPS

\* A recall carries a text, and what it was prepared with.
Typed(q) ==
    /\ q.key.kind = "recall" => q.text \in Text
    /\ q.at = "prepared" => q.key.kind = "recall" /\ q.day \in Nat /\ q.read \in Nat

WireTyped == \A q \in wire : Typed(q)

\* What was ever sent or kept under an operation id.
Record == wire \cup receipt

\* An id stands for one input.
Agree(x, y) == x.id = y.id => x.key = y.key /\ x.text = y.text

OneInput ==
    \A x \in Record :
        /\ x.id <= ids
        /\ x.key.kind # "recall" => x.text = None
        /\ \A y \in Record : Agree(x, y)

\* The intent on show and what was sent for it.
Names(attempt) ==
    attempt # None =>
        /\ attempt.id <= ids
        /\ \A x \in Record : x.id = attempt.id => x.key = attempt.key

DialogInv ==
    /\ Names(dialog.attempt)
    /\ dialog.phase = "idle" <=> dialog.attempt = None
    /\ dialog.attempt # None => dialog.attempt.key.kind # "gist"
    /\ active["recall"] # None =>
          dialog.attempt # None /\ dialog.attempt.id = active["recall"]

ViewInv ==
    /\ Names(view.attempt)
    /\ view.phase # "closed" => view.attempt # None /\ view.attempt.key.kind = "gist"
    /\ active["gist"] # None => active["gist"] <= ids
    /\ view.phase = "viewing" => active["gist"] = view.attempt.id

TwoFlows ==
    /\ dialog.attempt # None /\ view.attempt # None => dialog.attempt.id # view.attempt.id
    /\ active["gist"] # None => \A x \in Record : x.id = active["gist"] => x.key.kind = "gist"
    /\ active["gist"] # None /\ dialog.attempt # None => dialog.attempt.id # active["gist"]

\* What was submitted is still in the draft.
SubmitInv ==
    active["recall"] # None =>
        \A x \in Record : x.id = active["recall"] =>
            dialog.submitted /\ (x.key.kind = "recall" => x.text = draft)

\* A quote was accepted before anything is sent under it.
QuoteInv ==
    /\ dialog.phase = "rewriting" /\ dialog.attempt.key.kind = "restore" =>
          dialog.attempt.id \in accepted
    /\ view.phase = "viewing" \/ (view.phase = "failed" /\ view.failure = "ambiguous") =>
          view.attempt.id \in accepted
    /\ \A x \in Record : x.key.kind # "recall" => x.id \in accepted

\* What a request knows.
Prepared(q) ==
    q.at = "prepared" =>
        /\ q.read <= rev[q.key.memory]
        /\ q.read = rev[q.key.memory] => (q.differs <=> text[q.key.memory] # q.text)

Answered(q) ==
    /\ q.answer # "conflict"
    /\ q.answer = "ok" => \E r \in receipt : r.id = q.id /\ r.key = q.key

WireInv == \A q \in wire : Prepared(q) /\ Answered(q)

IInv ==
    /\ TypeOK /\ WireTyped /\ OneInput /\ DialogInv /\ ViewInv /\ TwoFlows
    /\ SubmitInv /\ QuoteInv /\ WireInv
    /\ ChargedOnce /\ PaidAsQuoted /\ ShownIsAnswered

----------------------------------------------------------------------------
(* What the service answers *)

LEMMA RefusalCases ==
    ASSUME NEW q, NEW day
    PROVE  /\ Refusal(q, day) \in Answer \cup {None}
           /\ Refusal(q, day) = None =>
                 /\ Fresh(q)
                 /\ q.key.kind # "recall" => ~(balance < Price)
                 /\ q.at = "prepared" => q.read = rev[q.key.memory]
           /\ Refusal(q, day) = "ok" =>
                 \E r \in receipt : r.id = q.id /\ r.key = q.key
           /\ Refusal(q, day) = "conflict" =>
                 \E r \in receipt : r.id = q.id /\ (r.key # q.key \/ r.text # q.text)
<1>1. /\ Refusal(q, day) = None => Fresh(q)
      /\ Refusal(q, day) = "ok" => ~Fresh(q) /\ Replays(q)
      /\ Refusal(q, day) = "conflict" => ~Replays(q)
      /\ Refusal(q, day) \in Answer \cup {None}
      /\ Refusal(q, day) = None => ~(q.key.kind # "recall" /\ balance < Price)
      /\ Refusal(q, day) = None => ~(q.at = "prepared" /\ q.read # rev[q.key.memory])
  BY PaidActionAssumption DEF Refusal, Answer
<1> QED
  BY <1>1 DEF Replays, Fresh

\* An answer leaves the request's name and input as they are.
LEMMA Replies ==
    ASSUME TypeOK, NEW q \in wire, NEW a \in Answer, Reply(q, a)
    PROVE  /\ wire' \subseteq Request
           /\ \A x \in wire' : x \in wire \/ x = WithAnswer(q, a)
<1> DEFINE r == WithAnswer(q, a)
<1>1. q \in Request /\ wire \subseteq Request
  BY DEF TypeOK
<1>2. r \in Request
  <2> DEFINE p == [q EXCEPT !.answer = a]
  <2>1. p \in Request
    BY <1>1 DEF Request
  <2>2. [p EXCEPT !.at = "sent"] \in Request
    BY <2>1 DEF Request
  <2>3. [p EXCEPT !.at = "sent", !.day = None, !.read = None] \in Request
    BY <2>2 DEF Request
  <2> QED
    BY <2>3 DEF Request, WithAnswer
<1>3. wire' \subseteq wire \cup {r}
  BY DEF Reply
<1> QED
  BY <1>1, <1>2, <1>3

\* Neither does the client's giving up.
LEMMA GivesUp ==
    ASSUME TypeOK, NEW q \in wire,
           wire' = (wire \ {q}) \cup {r \in {[q EXCEPT !.awaited = FALSE]} : Waiting(q)}
    PROVE  /\ wire' \subseteq Request
           /\ \A x \in wire' : x \in wire \/ x = [q EXCEPT !.awaited = FALSE]
<1> DEFINE r == [q EXCEPT !.awaited = FALSE]
<1>1. q \in Request /\ wire \subseteq Request
  BY DEF TypeOK
<1>2. r \in Request
  BY <1>1 DEF Request
<1>3. wire' \subseteq wire \cup {r}
  OBVIOUS
<1> QED
  BY <1>1, <1>2, <1>3

----------------------------------------------------------------------------
(* Types *)

SessionOK ==
    /\ active \in [{"recall", "gist"} -> Nat \cup {None}]
    /\ inFlight \in [{"recall", "gist"} -> Nat \cup {None}]
    /\ ids \in Nat

LEMMA SessionTypes ==
    ASSUME SessionOK, NEW f \in {"recall", "gist"}
    PROVE  /\ begin(f) => SessionOK'
           /\ \A attempt \in Attempt : start(f, attempt) => SessionOK'
           /\ \A n \in Nat \cup {None} : finish(f, n) => SessionOK'
           /\ \A n \in Nat \cup {None} : invalidate(f, n) => SessionOK'
BY DEF SessionOK, begin, start, finish, invalidate, Attempt

ClientOK ==
    /\ dialog \in [phase : Phase, attempt : Attempt \cup {None}, consented : BOOLEAN,
                   submitted : BOOLEAN, shown : Nat \cup {None}]
    /\ target \in RecallKey \cup {None}
    /\ draft \in Text \cup {None}
    /\ view \in [phase : {"closed", "quoting", "viewing", "revealed", "failed"},
                 attempt : Attempt \cup {None}, failure : {None, "ambiguous", "known-refusal"},
                 began : Nat \cup {None}, shown : Nat \cup {None}]
    /\ accepted \subseteq Nat

ServerOK ==
    /\ receipt \subseteq [id : Nat, key : Key, text : Text \cup {None}, rewrote : BOOLEAN]
    /\ debits \subseteq [n : Nat, id : Nat]
    /\ balance \in Nat /\ clock \in Nat /\ today \in Nat
    /\ live \subseteq Memory
    /\ text \in [Memory -> Text] /\ rev \in [Memory -> Nat]
    /\ others \in Nat

LEMMA Parts ==
    /\ TypeOK <=> ClientOK /\ SessionOK /\ ServerOK /\ sends \in Nat /\ wire \subseteq Request
    /\ TypeOK' <=> ClientOK' /\ SessionOK' /\ ServerOK' /\ sends' \in Nat /\ wire' \subseteq Request
BY DEF TypeOK, ClientOK, SessionOK, ServerOK

LEMMA ClientStays == ASSUME UNCHANGED client PROVE ClientOK /\ SessionOK => ClientOK' /\ SessionOK'
BY DEF client, session, recallSide, ClientOK, SessionOK

LEMMA ServerStays == ASSUME UNCHANGED server PROVE ServerOK => ServerOK'
BY DEF server, ledger, ServerOK

LEMMA ServerTypes ==
    ASSUME TypeOK, WireTyped, NEW q \in wire, Serve(q)
    PROVE  TypeOK'
<1>0. q \in Request /\ Typed(q)
  BY DEF TypeOK, WireTyped
<1>1. CASE Unauthenticated(q)
  <2>1. "unauthenticated" \in Answer
    BY DEF Answer
  <2>2. wire' \subseteq Request
    BY <1>1, <2>1, Replies DEF Unauthenticated
  <2> QED
    BY <1>1, <2>2, Parts, ClientStays, ServerStays DEF Unauthenticated
<1>2. CASE Fail(q)
  <2>1. "error" \in Answer
    BY DEF Answer
  <2>2. wire' \subseteq Request
    BY <1>2, <2>1, Replies DEF Fail
  <2> QED
    BY <1>2, <2>2, Parts, ClientStays, ServerStays DEF Fail
<1>3. CASE Refuse(q)
  <2>1. PICK d : Refusal(q, d) # None /\ Reply(q, Refusal(q, d))
    BY <1>3 DEF Refuse
  <2>2. wire' \subseteq Request
    BY <2>1, RefusalCases, Replies
  <2> QED
    BY <1>3, <2>2, Parts, ClientStays, ServerStays DEF Refuse
<1>4. CASE Charge(q)
  <2>1. "ok" \in Answer
    BY DEF Answer
  <2>2. wire' \subseteq Request
    BY <1>4, <2>1, Replies DEF Charge
  <2>3. balance - Price \in Nat
    BY <1>4, RefusalCases, PaidActionAssumption DEF Charge, TypeOK
  <2>4. clock' \in Nat
    BY <1>4 DEF Charge, Sync, TypeOK
  <2>5. receipt' \subseteq [id : Nat, key : Key, text : Text \cup {None}, rewrote : BOOLEAN]
    <3>1. [id |-> q.id, key |-> q.key, text |-> q.text, rewrote |-> FALSE]
             \in [id : Nat, key : Key, text : Text \cup {None}, rewrote : BOOLEAN]
      BY <1>0 DEF Request
    <3> QED
      BY <1>4, <3>1 DEF Charge, Receipt, TypeOK
  <2>6. debits' \subseteq [n : Nat, id : Nat]
    BY <1>0, <1>4 DEF Charge, TypeOK, Request
  <2> QED
    BY <1>4, <2>2, <2>3, <2>4, <2>5, <2>6, Parts, ClientStays DEF Charge, ServerOK
<1>5. CASE Prepare(q)
  <2>1. wire' \subseteq Request
    <3>1. rev[q.key.memory] \in Nat /\ (text[q.key.memory] # q.text) \in BOOLEAN /\ today \in Nat
      BY <1>0 DEF TypeOK, Request, Key
    <3>2. [q EXCEPT !.at = "prepared", !.day = today, !.read = rev[q.key.memory],
                    !.differs = text[q.key.memory] # q.text] \in Request
      BY <1>0, <3>1 DEF Request
    <3> QED
      BY <1>5, <3>2 DEF Prepare, TypeOK
  <2> QED
    BY <1>5, <2>1, Parts, ClientStays, ServerStays DEF Prepare
<1>6. CASE Commit(q)
  <2>1. "ok" \in Answer
    BY DEF Answer
  <2>2. wire' \subseteq Request
    BY <1>6, <2>1, Replies DEF Commit
  <2>3. clock' \in Nat
    BY <1>0, <1>6 DEF Commit, Sync, TypeOK, Request, Typed
  <2>4. receipt' \subseteq [id : Nat, key : Key, text : Text \cup {None}, rewrote : BOOLEAN]
    BY <1>0, <1>6 DEF Commit, Receipt, TypeOK, Request
  <2>5. text' \in [Memory -> Text] /\ rev' \in [Memory -> Nat]
    <3>1. q.text \in Text
      BY <1>0, <1>6 DEF Typed, Commit
    <3> QED
      BY <1>0, <1>6, <3>1 DEF Commit, TypeOK, Request, Key
  <2> QED
    BY <1>6, <2>2, <2>3, <2>4, <2>5, Parts, ClientStays DEF Commit, ServerOK
<1> QED
  BY <1>1, <1>2, <1>3, <1>4, <1>5, <1>6 DEF Serve

\* A client's own record of a request.
LEMMA SendTypes ==
    ASSUME TypeOK, WireTyped, NEW attempt \in Attempt, NEW t \in Text \cup {None},
           NEW c \in BOOLEAN, Send(attempt, t, c),
           attempt.key.kind = "recall" => t \in Text
    PROVE  sends' \in Nat /\ wire' \subseteq Request /\ WireTyped'
<1> DEFINE q == [n |-> sends + 1, id |-> attempt.id, key |-> attempt.key, text |-> t,
                 consent |-> c, at |-> "sent", day |-> None, read |-> None,
                 differs |-> FALSE, answer |-> None, awaited |-> TRUE]
<1>1. q \in Request /\ Typed(q)
  BY DEF Attempt, Request, Typed, TypeOK
<1>2. wire' = wire \cup {q} /\ sends' = sends + 1
  BY DEF Send
<1> HIDE DEF q
<1> QED
  BY <1>1, <1>2 DEF TypeOK, WireTyped

LEMMA DialogTypes ==
    ASSUME TypeOK, DialogInv, WireTyped,
           \/ \E key \in RecallKey \cup {None} : Retarget(key)
           \/ Invalidated
           \/ \E needsSync \in BOOLEAN : Open(needsSync)
           \/ Close \/ Reject
           \/ AcceptSync \/ AcceptQuote
           \/ \E t \in Text : SetAnswer(t)
    PROVE  TypeOK'
<1> USE DEF ClientOK, Closed, Phase
<1>1. ClientOK /\ SessionOK /\ ServerOK /\ sends \in Nat /\ wire \subseteq Request
  BY Parts
<1>2. SUFFICES ClientOK' /\ SessionOK'
  <2>1. UNCHANGED server => ServerOK'
    BY <1>1, ServerStays
  <2>2. UNCHANGED <<wire, sends, server>>
    BY DEF Retarget, Invalidated, Open, Close, Reject, AcceptSync, AcceptQuote, SetAnswer
  <2> QED
    BY <1>1, <2>1, <2>2, Parts
<1>3. dialog.attempt # None => dialog.attempt \in Attempt /\ dialog.attempt.id \in Nat
  BY <1>1 DEF Attempt
<1>4. ASSUME NEW key \in RecallKey \cup {None}, Retarget(key) PROVE ClientOK' /\ SessionOK'
  BY <1>1, <1>4 DEF Retarget, session, SessionOK
<1>5. CASE Invalidated
  BY <1>1, <1>3, <1>5, SessionTypes DEF Invalidated
<1>6. ASSUME NEW needsSync \in BOOLEAN, Open(needsSync) PROVE ClientOK' /\ SessionOK'
  <2>1. target \in Key
    BY <1>1, <1>6 DEF Open, RecallKey
  <2>2. New(target) \in Attempt
    BY <1>1, <2>1 DEF New, Attempt, SessionOK
  <2>3. PICK p \in Phase :
           p = IF needsSync THEN "confirmingSync" ELSE FirstPhase(target)
    BY DEF FirstPhase
  <2>4. dialog' = [Closed EXCEPT !.attempt = New(target), !.phase = p]
    BY <1>6, <2>3 DEF Open
  <2>5. ClientOK'
    <3> HIDE DEF Phase
    <3>1. UNCHANGED <<target, view, accepted>> /\ draft' = None
      BY <1>6 DEF Open
    <3>2. dialog' \in [phase : Phase, attempt : Attempt \cup {None}, consented : BOOLEAN,
                       submitted : BOOLEAN, shown : Nat \cup {None}]
      BY <2>2, <2>4
    <3> QED
      BY <1>1, <3>1, <3>2
  <2>6. SessionOK'
    BY <1>1, <1>6, SessionTypes DEF Open
  <2> QED
    BY <2>5, <2>6
<1>7. CASE Close
  BY <1>1, <1>3, <1>7, SessionTypes DEF Close, DialogInv
<1>8. CASE Reject
  BY <1>1, <1>3, <1>8, SessionTypes DEF Reject, DialogInv
<1>9. CASE AcceptSync
  <2>1. PICK p \in Phase : p = FirstPhase(dialog.attempt.key)
    BY DEF FirstPhase
  <2>2. dialog' = [dialog EXCEPT !.phase = p, !.consented = TRUE]
    BY <1>9, <2>1 DEF AcceptSync
  <2>3. UNCHANGED <<target, draft, view, session, accepted>>
    BY <1>9 DEF AcceptSync
  <2>4. dialog' \in [phase : Phase, attempt : Attempt \cup {None}, consented : BOOLEAN,
                     submitted : BOOLEAN, shown : Nat \cup {None}]
    <3> HIDE DEF Phase
    <3> QED
      BY <1>1, <2>2
  <2>5. ClientOK'
    <3> HIDE DEF Phase
    <3> QED
      BY <1>1, <2>3, <2>4
  <2>6. SessionOK'
    BY <1>1, <2>3 DEF session, SessionOK
  <2> QED
    BY <2>5, <2>6
<1>10. CASE AcceptQuote
  BY <1>1, <1>3, <1>10 DEF AcceptQuote, session, SessionOK, DialogInv
<1>11. ASSUME NEW t \in Text, SetAnswer(t) PROVE ClientOK' /\ SessionOK'
  BY <1>1, <1>11 DEF SetAnswer, session, SessionOK
<1> QED
  BY <1>4, <1>5, <1>6, <1>7, <1>8, <1>9, <1>10, <1>11

LEMMA ConfirmTypes ==
    ASSUME TypeOK, DialogInv, WireTyped, ConfirmRecall
    PROVE  TypeOK' /\ WireTyped'
<1>1. ClientOK /\ SessionOK /\ ServerOK /\ sends \in Nat /\ wire \subseteq Request
  BY Parts
<1>2. dialog.attempt \in Attempt /\ dialog.consented \in BOOLEAN
  BY <1>1 DEF ClientOK, ConfirmRecall, DialogInv
<1> DEFINE t == IF target.kind = "recall" THEN draft ELSE None
<1>3. t \in Text \cup {None} /\ (dialog.attempt.key.kind = "recall" => t \in Text)
  BY <1>1 DEF ConfirmRecall, ClientOK
<1>4. Send(dialog.attempt, t, dialog.consented)
  BY DEF ConfirmRecall
<1> HIDE DEF t
<1>5. sends' \in Nat /\ wire' \subseteq Request /\ WireTyped'
  BY <1>2, <1>3, <1>4, SendTypes
<1>6. SessionOK'
  BY <1>1, <1>2, SessionTypes DEF ConfirmRecall
<1>7. ClientOK'
  BY <1>1 DEF ConfirmRecall, ClientOK, Phase
<1>8. ServerOK'
  BY <1>1, ServerStays DEF ConfirmRecall
<1> QED
  BY <1>5, <1>6, <1>7, <1>8, Parts

\* What an answered or abandoned request leaves: the client decides by what it was.
LEMMA SettleTypes ==
    ASSUME TypeOK, NEW q \in Request, NEW answer, Settle(q, answer), UNCHANGED <<target, draft, view, accepted>>
    PROVE  ClientOK' /\ SessionOK'
<1> USE DEF ClientOK, Phase
<1>1. ClientOK /\ SessionOK /\ q.id \in Nat /\ q.key \in Key
  BY Parts DEF Request
<1>2. CASE finish("recall", q.id) /\ dialog' = [dialog EXCEPT !.phase = "result", !.shown = q.id]
  BY <1>1, <1>2, SessionTypes
<1>3. CASE finish("recall", q.id) /\ dialog' = [dialog EXCEPT !.phase = "rewriting"]
  BY <1>1, <1>3, SessionTypes
<1>4. ASSUME begin("recall"), NEW p \in Phase,
             dialog' = [dialog EXCEPT !.attempt = New(q.key), !.submitted = FALSE, !.phase = p]
      PROVE  ClientOK' /\ SessionOK'
  <2>1. New(q.key) \in Attempt
    BY <1>1 DEF New, Attempt, SessionOK
  <2> QED
    BY <1>1, <1>4, <2>1, SessionTypes
<1>5. (IF answer = "consent" /\ ~q.consent THEN "confirmingSync" ELSE FirstPhase(q.key)) \in Phase
  BY DEF FirstPhase
<1> QED
  BY <1>2, <1>3, <1>4, <1>5 DEF Settle

LEMMA SettleViewTypes ==
    ASSUME TypeOK, NEW q \in Request, NEW answer, SettleView(q, answer),
           UNCHANGED <<recallSide, accepted>>
    PROVE  ClientOK' /\ SessionOK'
<1> USE DEF ClientOK, recallSide, Showing
<1>1. ClientOK /\ SessionOK /\ q.id \in Nat /\ q.key \in Key
  BY Parts DEF Request
<1>2. CASE /\ finish("gist", q.id)
           /\ view' = Showing([view EXCEPT !.phase = "revealed", !.shown = q.id])
  BY <1>1, <1>2, SessionTypes
<1>3. CASE /\ finish("gist", q.id)
           /\ view' = Showing([view EXCEPT !.phase = "failed", !.failure = "ambiguous"])
  BY <1>1, <1>3, SessionTypes
<1>4. CASE /\ begin("gist")
           /\ view' = Showing([view EXCEPT !.phase = "failed", !.failure = "known-refusal",
                                           !.attempt = New(q.key)])
  <2>1. New(q.key) \in Attempt
    BY <1>1 DEF New, Attempt, SessionOK
  <2> QED
    BY <1>1, <1>4, <2>1, SessionTypes
<1> QED
  BY <1>2, <1>3, <1>4 DEF SettleView

\* A request given up on stays the request it was.
LEMMA CompleteTypes ==
    ASSUME TypeOK, WireTyped, NEW q \in wire, Completes(q)
    PROVE  TypeOK'
<1>1. ClientOK /\ SessionOK /\ ServerOK /\ sends \in Nat /\ q \in Request /\ q.id \in Nat
  BY Parts DEF Request
<1>2. wire' = (wire \ {q}) \cup {r \in {[q EXCEPT !.awaited = FALSE]} : Waiting(q)}
  BY DEF Completes, Complete, CompleteView
<1>3. wire' \subseteq Request /\ UNCHANGED <<sends, server>>
  BY <1>2, GivesUp DEF Completes, Complete, CompleteView
<1>4. CASE Complete(q)
  <2>1. ASSUME Settle(q, Outcome(q)) PROVE ClientOK' /\ SessionOK'
    BY <1>1, <1>4, <2>1, SettleTypes DEF Complete
  <2>2. ASSUME finish("recall", q.id), UNCHANGED dialog PROVE ClientOK' /\ SessionOK'
    BY <1>1, <1>4, <2>2, SessionTypes DEF Complete, ClientOK
  <2>3. ClientOK' /\ SessionOK'
    BY <1>4, <2>1, <2>2 DEF Complete
  <2> QED
    BY <1>1, <1>3, <2>3, ServerStays, Parts
<1>5. CASE CompleteView(q)
  <2>1. ASSUME SettleView(q, Outcome(q)) PROVE ClientOK' /\ SessionOK'
    BY <1>1, <1>5, <2>1, SettleViewTypes DEF CompleteView
  <2>2. ASSUME finish("gist", q.id), UNCHANGED view PROVE ClientOK' /\ SessionOK'
    BY <1>1, <1>5, <2>2, SessionTypes DEF CompleteView, ClientOK, recallSide
  <2>3. ClientOK' /\ SessionOK'
    BY <1>5, <2>1, <2>2 DEF CompleteView
  <2> QED
    BY <1>1, <1>3, <2>3, ServerStays, Parts
<1> QED
  BY <1>4, <1>5 DEF Completes

LEMMA ViewTypes ==
    ASSUME TypeOK, ViewInv, WireTyped,
           \/ \E key \in Key \ RecallKey : Show(key)
           \/ Unmount \/ CloseView \/ Proceed \/ Retry
    PROVE  TypeOK' /\ WireTyped'
<1> USE DEF ClientOK, NoView, recallSide
<1>1. ClientOK /\ SessionOK /\ ServerOK /\ sends \in Nat /\ wire \subseteq Request
  BY Parts
<1>2. view.attempt # None => view.attempt \in Attempt /\ view.attempt.id \in Nat
  BY <1>1 DEF Attempt
<1>3. ASSUME ClientOK' /\ SessionOK', UNCHANGED <<wire, sends, server>>
      PROVE  TypeOK' /\ WireTyped'
  BY <1>1, <1>3, ServerStays, Parts DEF WireTyped
<1>4. ASSUME NEW key \in Key \ RecallKey, Show(key) PROVE TypeOK' /\ WireTyped'
  <2>1. New(key) \in Attempt /\ ids + 1 \in Nat
    BY <1>1 DEF New, Attempt, SessionOK
  <2> QED
    BY <1>1, <1>3, <1>4, <2>1, SessionTypes DEF Show
<1>5. CASE Unmount
  BY <1>1, <1>3, <1>5, SessionTypes DEF Unmount
<1>6. CASE CloseView
  BY <1>1, <1>2, <1>3, <1>6, SessionTypes DEF CloseView, ViewInv
<1>7. ASSUME Read, accepted' \subseteq Nat, view.phase # "closed" PROVE TypeOK' /\ WireTyped'
  <2>1. view.attempt \in Attempt /\ view.attempt.key.kind = "gist"
    BY <1>1, <1>7 DEF ViewInv
  <2>2. sends' \in Nat /\ wire' \subseteq Request /\ WireTyped'
    <3>1. Send(view.attempt, None, FALSE)
      BY <1>7 DEF Read
    <3> QED
      BY <2>1, <3>1, SendTypes
  <2>3. SessionOK'
    BY <1>1, <1>7, <2>1, SessionTypes DEF Read
  <2>4. ClientOK' /\ UNCHANGED server
    <3>1. UNCHANGED server
      BY <1>7 DEF Read
    <3>2. UNCHANGED <<dialog, target, draft>>
      BY <1>7 DEF Read
    <3>3. view' = [view EXCEPT !.phase = "viewing", !.failure = None]
      BY <1>7 DEF Read
    <3> QED
      BY <1>1, <1>7, <3>1, <3>2, <3>3
  <2> QED
    BY <1>1, <2>2, <2>3, <2>4, ServerStays, Parts
<1>8. CASE Proceed
  <2>1. accepted' \subseteq Nat /\ view.phase # "closed" /\ Read
    BY <1>1, <1>2, <1>8 DEF Proceed, ViewInv
  <2> QED
    BY <1>7, <2>1
<1>9. CASE Retry
  <2>1. CASE view.failure = "ambiguous"
    <3>1. Read /\ accepted' = accepted /\ view.phase # "closed"
      BY <1>9, <2>1 DEF Retry
    <3> QED
      BY <1>1, <1>7, <3>1
  <2>2. CASE view.failure # "ambiguous"
    <3>1. /\ view' = [view EXCEPT !.phase = "quoting", !.failure = None]
          /\ UNCHANGED <<recallSide, session, accepted>> /\ UNCHANGED <<wire, sends, server>>
      BY <1>9, <2>2 DEF Retry
    <3>2. ClientOK'
      BY <1>1, <3>1
    <3>3. SessionOK'
      BY <1>1, <3>1 DEF session, SessionOK
    <3> QED
      BY <1>3, <3>1, <3>2, <3>3
  <2> QED
    BY <2>1, <2>2
<1> QED
  BY <1>4, <1>5, <1>6, <1>8, <1>9

----------------------------------------------------------------------------
(* Steps of the service *)

\* No operation appears: what is recorded was recorded.
Covered ==
    \A x \in Record' : \E y \in Record : y.id = x.id /\ y.key = x.key /\ y.text = x.text

LEMMA RecordFrame ==
    ASSUME OneInput, Covered, ids \in Nat, ids' \in Nat, ids <= ids',
           \A x \in Record : x.id \in Nat
    PROVE  OneInput'
<1>1. ASSUME NEW x \in Record' PROVE x.id <= ids' /\ (x.key.kind # "recall" => x.text = None)
  <2>1. PICK y \in Record : y.id = x.id /\ y.key = x.key /\ y.text = x.text
    BY DEF Covered
  <2> QED
    BY <2>1 DEF OneInput
<1>2. ASSUME NEW x \in Record', NEW z \in Record' PROVE Agree(x, z)
  <2>1. PICK y \in Record : y.id = x.id /\ y.key = x.key /\ y.text = x.text
    BY DEF Covered
  <2>2. PICK v \in Record : v.id = z.id /\ v.key = z.key /\ v.text = z.text
    BY DEF Covered
  <2> QED
    BY <2>1, <2>2 DEF OneInput, Agree
<1> QED
  BY <1>1, <1>2 DEF OneInput

LEMMA RecordIds ==
    ASSUME TypeOK PROVE \A x \in Record : x.id \in Nat
BY DEF TypeOK, Record, Request

\* What the client knows of its operations stays true while it stands still.
LEMMA ClientFrame ==
    ASSUME DialogInv, ViewInv, TwoFlows, SubmitInv, QuoteInv, Covered,
           UNCHANGED <<recallSide, view, active, ids, accepted>>
    PROVE  DialogInv' /\ ViewInv' /\ TwoFlows' /\ SubmitInv' /\ QuoteInv'
<1> USE DEF recallSide
<1>1. DialogInv'
  BY DEF DialogInv, Names, Covered
<1>2. ViewInv'
  BY DEF ViewInv, Names, Covered
<1>3. TwoFlows'
  BY DEF TwoFlows, Covered
<1>4. SubmitInv'
  BY DEF SubmitInv, Covered
<1>5. QuoteInv'
  BY DEF QuoteInv, Covered
<1> QED
  BY <1>1, <1>2, <1>3, <1>4, <1>5

LEMMA ShownFrame ==
    ASSUME ShownIsAnswered, UNCHANGED <<dialog, view>>, receipt \subseteq receipt'
    PROVE  ShownIsAnswered'
BY DEF ShownIsAnswered

\* An answer is one the receipts bear out.
LEMMA ReplyKeeps ==
    ASSUME TypeOK, WireTyped, WireInv, NEW q \in wire, NEW a \in Answer, Reply(q, a),
           receipt \subseteq receipt', a # "conflict",
           a = "ok" => \E r \in receipt' : r.id = q.id /\ r.key = q.key
    PROVE  /\ WireTyped'
           /\ \A x \in wire' : Answered(x)'
           /\ \A x \in wire' : \E y \in wire :
                 /\ y.id = x.id /\ y.key = x.key /\ y.text = x.text
                 /\ x.at = "prepared" =>
                       /\ y.at = x.at /\ y.read = x.read /\ y.differs = x.differs
<1>1. \A x \in wire' : x \in wire \/ x = WithAnswer(q, a)
  BY Replies
<1>2. q \in Request
  BY DEF TypeOK
<1>3. /\ WithAnswer(q, a).id = q.id /\ WithAnswer(q, a).key = q.key
      /\ WithAnswer(q, a).text = q.text /\ WithAnswer(q, a).at = "sent"
      /\ WithAnswer(q, a).answer = a
  BY <1>2 DEF Request, WithAnswer
<1>4. ASSUME NEW x \in wire' PROVE Typed(x) /\ Answered(x)'
  <2>1. CASE x \in wire
    BY <2>1 DEF WireTyped, WireInv, Answered
  <2>2. CASE x = WithAnswer(q, a)
    BY <1>3, <2>2 DEF WireTyped, WireInv, Typed, Answered
  <2> QED
    BY <1>1, <2>1, <2>2
<1> QED
  BY <1>1, <1>3, <1>4 DEF WireTyped

\* The invariant but for what the service keeps.
Known == OneInput /\ DialogInv /\ ViewInv /\ TwoFlows /\ SubmitInv /\ QuoteInv

LEMMA KnownFrame ==
    ASSUME TypeOK, Known, Covered, UNCHANGED client
    PROVE  Known'
<1>1. OneInput'
  <2>1. ids \in Nat /\ ids' = ids
    BY DEF TypeOK, client, session
  <2> QED
    BY <2>1, RecordFrame, RecordIds DEF Known
<1> QED
  BY <1>1, ClientFrame DEF Known, client, session

\* Answers that change nothing else.
LEMMA AnswersKeep ==
    ASSUME IInv, NEW q \in wire, NEW a \in Answer, Reply(q, a), UNCHANGED <<client, server>>,
           a # "conflict", a = "ok" => \E r \in receipt : r.id = q.id /\ r.key = q.key
    PROVE  Known' /\ WireTyped' /\ WireInv' /\ ChargedOnce' /\ PaidAsQuoted' /\ ShownIsAnswered'
<1> USE DEF IInv
<1>1. UNCHANGED <<receipt, debits, accepted, dialog, view, text, rev>>
  BY DEF client, server, ledger, recallSide
<1>2. /\ WireTyped'
      /\ \A x \in wire' : Answered(x)'
      /\ \A x \in wire' : \E y \in wire :
            /\ y.id = x.id /\ y.key = x.key /\ y.text = x.text
            /\ x.at = "prepared" =>
                  /\ y.at = x.at /\ y.read = x.read /\ y.differs = x.differs
  BY <1>1, ReplyKeeps
<1>3. Covered
  BY <1>1, <1>2 DEF Covered, Record
<1>4. Known'
  BY <1>3, KnownFrame DEF Known
<1>5. \A x \in wire' : Prepared(x)'
  BY <1>1, <1>2 DEF WireInv, Prepared
<1>6. ChargedOnce' /\ PaidAsQuoted' /\ ShownIsAnswered'
  BY <1>1 DEF ChargedOnce, PaidAsQuoted, ShownIsAnswered
<1> QED
  BY <1>2, <1>4, <1>5, <1>6 DEF WireInv

LEMMA ChargeKeeps ==
    ASSUME IInv, NEW q \in wire, Charge(q)
    PROVE  Known' /\ WireTyped' /\ WireInv' /\ ChargedOnce' /\ PaidAsQuoted' /\ ShownIsAnswered'
<1> USE DEF IInv
<1> DEFINE r == [id |-> q.id, key |-> q.key, text |-> q.text, rewrote |-> FALSE]
           d == [n |-> q.n, id |-> q.id]
<1>1. /\ receipt' = receipt \cup {r} /\ debits' = debits \cup {d}
      /\ UNCHANGED <<client, text, rev>> /\ Reply(q, "ok") /\ "ok" \in Answer
  BY DEF Charge, Receipt, Answer
<1>2. r.id = q.id /\ r.key = q.key /\ r.text = q.text /\ d.id = q.id
  OBVIOUS
<1>3. Fresh(q) /\ q.key.kind # "recall"
  BY RefusalCases DEF Charge
<1> HIDE DEF r, d
<1>4. /\ WireTyped'
      /\ \A x \in wire' : Answered(x)'
      /\ \A x \in wire' : \E y \in wire :
            /\ y.id = x.id /\ y.key = x.key /\ y.text = x.text
            /\ x.at = "prepared" =>
                  /\ y.at = x.at /\ y.read = x.read /\ y.differs = x.differs
  BY <1>1, <1>2, ReplyKeeps
<1>5. Covered
  BY <1>1, <1>2, <1>4 DEF Covered, Record
<1>6. Known'
  BY <1>1, <1>5, KnownFrame DEF Known
<1>7. WireInv'
  BY <1>1, <1>4 DEF WireInv, Prepared
<1>8. ChargedOnce'
  <2>1. \A e \in debits : e.id # q.id
    BY <1>3 DEF ChargedOnce, Fresh
  <2> QED
    BY <1>1, <1>2, <2>1 DEF ChargedOnce
<1>9. PaidAsQuoted'
  <2>1. q.id \in accepted /\ accepted' = accepted
    BY <1>1, <1>3 DEF QuoteInv, Record, client
  <2> QED
    BY <1>1, <1>2, <2>1 DEF PaidAsQuoted
<1>10. ShownIsAnswered'
  BY <1>1, ShownFrame DEF client, recallSide
<1> QED
  BY <1>4, <1>6, <1>7, <1>8, <1>9, <1>10

LEMMA CommitKeeps ==
    ASSUME IInv, NEW q \in wire, Commit(q)
    PROVE  Known' /\ WireTyped' /\ WireInv' /\ ChargedOnce' /\ PaidAsQuoted' /\ ShownIsAnswered'
<1> USE DEF IInv
<1> DEFINE r == [id |-> q.id, key |-> q.key, text |-> q.text, rewrote |-> q.differs]
<1>1. /\ receipt' = receipt \cup {r} /\ debits' = debits
      /\ UNCHANGED client /\ Reply(q, "ok") /\ "ok" \in Answer
  BY DEF Commit, Receipt, Answer
<1>2. r.id = q.id /\ r.key = q.key /\ r.text = q.text
  OBVIOUS
<1> HIDE DEF r
<1>3. /\ WireTyped'
      /\ \A x \in wire' : Answered(x)'
      /\ \A x \in wire' : \E y \in wire :
            /\ y.id = x.id /\ y.key = x.key /\ y.text = x.text
            /\ x.at = "prepared" =>
                  /\ y.at = x.at /\ y.read = x.read /\ y.differs = x.differs
  BY <1>1, <1>2, ReplyKeeps
<1>4. Covered
  BY <1>1, <1>2, <1>3 DEF Covered, Record
<1>5. Known'
  BY <1>1, <1>4, KnownFrame DEF Known
<1>6. \A x \in wire' : Prepared(x)'
  <2>1. ASSUME NEW y \in wire, Prepared(y)
        PROVE  y.at = "prepared" =>
                  /\ y.read <= rev'[y.key.memory]
                  /\ y.read = rev'[y.key.memory] =>
                        (y.differs <=> text'[y.key.memory] # y.text)
    <3>1. /\ y.key.memory \in Memory /\ y \in Request /\ Typed(y)
          /\ text \in [Memory -> Text] /\ rev \in [Memory -> Nat]
      BY DEF TypeOK, Request, Key, WireTyped
    <3>2. CASE UNCHANGED <<text, rev>>
      BY <2>1, <3>2 DEF Prepared
    <3>3. CASE /\ text' = [text EXCEPT ![q.key.memory] = q.text]
               /\ rev' = [rev EXCEPT ![q.key.memory] = @ + 1]
      <4>1. CASE y.key.memory = q.key.memory
        BY <2>1, <3>1, <3>3, <4>1 DEF Prepared, Typed
      <4>2. CASE y.key.memory # q.key.memory
        BY <2>1, <3>1, <3>3, <4>2 DEF Prepared
      <4> QED
        BY <4>1, <4>2
    <3> QED
      BY <3>2, <3>3 DEF Commit
  <2>2. ASSUME NEW x \in wire' PROVE Prepared(x)'
    <3>1. PICK y \in wire : /\ y.id = x.id /\ y.key = x.key /\ y.text = x.text
                            /\ x.at = "prepared" =>
                                  /\ y.at = x.at /\ y.read = x.read /\ y.differs = x.differs
      BY <1>3
    <3> QED
      BY <2>1, <3>1 DEF WireInv, Prepared
  <2> QED
    BY <2>2
<1>7. ChargedOnce' /\ PaidAsQuoted' /\ ShownIsAnswered'
  <2>1. accepted' = accepted /\ UNCHANGED <<dialog, view>>
    BY <1>1 DEF client, recallSide
  <2> QED
    BY <1>1, <2>1, ShownFrame DEF ChargedOnce, PaidAsQuoted
<1> QED
  BY <1>3, <1>5, <1>6, <1>7 DEF WireInv

LEMMA PrepareKeeps ==
    ASSUME IInv, NEW q \in wire, Prepare(q)
    PROVE  Known' /\ WireTyped' /\ WireInv' /\ ChargedOnce' /\ PaidAsQuoted' /\ ShownIsAnswered'
<1> USE DEF IInv
<1>0. /\ q \in Request /\ Typed(q) /\ Answered(q) /\ q.key.kind = "recall"
      /\ today \in Nat /\ rev[q.key.memory] \in Nat
  BY DEF Prepare, TypeOK, Request, Key, WireTyped, WireInv
<1>1. PICK p :
         /\ p = [q EXCEPT !.at = "prepared", !.day = today, !.read = rev[q.key.memory],
                          !.differs = text[q.key.memory] # q.text]
         /\ wire' = (wire \ {q}) \cup {p}
         /\ UNCHANGED <<client, server>>
  BY DEF Prepare
<1>2. /\ p.id = q.id /\ p.key = q.key /\ p.text = q.text /\ p.answer = q.answer
      /\ p.day = today /\ p.read = rev[q.key.memory]
      /\ p.differs <=> text[q.key.memory] # q.text
  BY <1>0, <1>1 DEF Request
<1>3. UNCHANGED <<receipt, debits, accepted, dialog, view, text, rev>>
  BY <1>1 DEF client, server, ledger, recallSide
<1>4. Covered
  <2>1. ASSUME NEW x \in Record'
        PROVE  \E y \in Record : y.id = x.id /\ y.key = x.key /\ y.text = x.text
    <3>1. x \in Record \/ x = p
      BY <1>1, <1>3 DEF Record
    <3>2. q \in Record
      BY DEF Record
    <3> QED
      BY <1>2, <3>1, <3>2
  <2> QED
    BY <2>1 DEF Covered
<1>5. Known'
  BY <1>1, <1>4, KnownFrame DEF Known
<1>6. WireTyped'
  <2>1. p.at = "prepared" /\ p.consent = q.consent /\ p.awaited = q.awaited
    BY <1>0, <1>1 DEF Request
  <2>2. Typed(p)
    BY <1>0, <1>2, <2>1 DEF Typed
  <2>3. \A x \in wire' : x \in wire \/ x = p
    BY <1>1
  <2> QED
    BY <2>2, <2>3 DEF WireTyped, Typed
<1>7. WireInv'
  <2>1. Prepared(p)' /\ Answered(p)'
    BY <1>0, <1>2, <1>3 DEF Prepared, Answered
  <2>2. \A x \in wire : Prepared(x)' /\ Answered(x)'
    BY <1>3 DEF WireInv, Prepared, Answered
  <2> QED
    BY <1>1, <2>1, <2>2 DEF WireInv
<1>8. ChargedOnce' /\ PaidAsQuoted' /\ ShownIsAnswered'
  BY <1>3 DEF ChargedOnce, PaidAsQuoted, ShownIsAnswered
<1> QED
  BY <1>5, <1>6, <1>7, <1>8

LEMMA ServerStep ==
    ASSUME IInv, NEW q \in wire, Serve(q)
    PROVE  IInv'
<1>1. TypeOK'
  BY ServerTypes DEF IInv
<1>2. Known' /\ WireTyped' /\ WireInv' /\ ChargedOnce' /\ PaidAsQuoted' /\ ShownIsAnswered'
  <2>1. CASE Unauthenticated(q)
    <3>1. "unauthenticated" \in Answer
      BY DEF Answer
    <3> QED
      BY <2>1, <3>1, AnswersKeep DEF Unauthenticated
  <2>2. CASE Fail(q)
    <3>1. "error" \in Answer
      BY DEF Answer
    <3> QED
      BY <2>2, <3>1, AnswersKeep DEF Fail
  <2>3. CASE Refuse(q)
    <3>1. PICK day : Refusal(q, day) # None /\ Reply(q, Refusal(q, day))
      BY <2>3 DEF Refuse
    <3>2. Refusal(q, day) # "conflict"
      <4>1. \A r \in receipt : r.id = q.id => r.key = q.key /\ r.text = q.text
        BY DEF IInv, OneInput, Agree, Record
      <4> QED
        BY <4>1, RefusalCases
    <3>3. /\ Refusal(q, day) \in Answer
          /\ Refusal(q, day) = "ok" => \E r \in receipt : r.id = q.id /\ r.key = q.key
      BY <3>1, RefusalCases
    <3> QED
      BY <2>3, <3>1, <3>2, <3>3, AnswersKeep DEF Refuse
  <2>4. CASE Charge(q)
    BY <2>4, ChargeKeeps
  <2>5. CASE Prepare(q)
    BY <2>5, PrepareKeeps
  <2>6. CASE Commit(q)
    BY <2>6, CommitKeeps
  <2> QED
    BY <2>1, <2>2, <2>3, <2>4, <2>5, <2>6 DEF Serve
<1> QED
  BY <1>1, <1>2 DEF IInv, Known

----------------------------------------------------------------------------
(* Steps of the client that send nothing *)

Flows == DialogInv /\ ViewInv /\ TwoFlows /\ SubmitInv /\ QuoteInv /\ ShownIsAnswered

\* The rest of the invariant does not depend on what the client shows.
LEMMA ServerKeeps ==
    ASSUME IInv, UNCHANGED <<wire, server>>, accepted \subseteq accepted',
           ids' \in Nat, ids <= ids'
    PROVE  /\ OneInput' /\ WireTyped' /\ WireInv' /\ ChargedOnce' /\ PaidAsQuoted'
           /\ UNCHANGED <<Record, receipt>>
<1> USE DEF IInv
<1>1. UNCHANGED <<wire, receipt, debits, text, rev>>
  BY DEF server, ledger
<1>2. Covered /\ Record' = Record
  BY <1>1 DEF Covered, Record
<1>3. OneInput'
  <2>1. ids \in Nat
    BY DEF TypeOK
  <2> QED
    BY <1>2, <2>1, RecordFrame, RecordIds
<1> QED
  BY <1>1, <1>2, <1>3 DEF WireTyped, WireInv, Prepared, Answered, ChargedOnce, PaidAsQuoted

\* An operation just minted: nothing was sent for it yet.
LEMMA NewIsNew ==
    ASSUME TypeOK, OneInput, NEW key \in Key
    PROVE  /\ New(key).id = ids + 1 /\ New(key).key = key /\ New(key) # None
           /\ ids + 1 \in Nat /\ ids + 1 # ids /\ ids <= ids + 1
           /\ \A x \in Record : x.id # ids + 1
<1>1. ids \in Nat /\ \A x \in Record : x.id \in Nat /\ x.id <= ids
  BY RecordIds DEF TypeOK, OneInput
<1>2. New(key) \in Attempt
  BY <1>1 DEF New, Attempt
<1> QED
  BY <1>1, <1>2, PaidActionAssumption DEF New

LEMMA DialogStep ==
    ASSUME IInv,
           \/ \E key \in RecallKey \cup {None} : Retarget(key)
           \/ Invalidated
           \/ \E needsSync \in BOOLEAN : Open(needsSync)
           \/ Close \/ Reject
           \/ AcceptSync \/ AcceptQuote
           \/ \E t \in Text : SetAnswer(t)
    PROVE  IInv'
<1> USE DEF IInv
<1>1. TypeOK'
  BY DialogTypes
<1>2. /\ UNCHANGED <<wire, server, view>> /\ accepted \subseteq accepted'
      /\ ids' \in Nat /\ ids <= ids' /\ active'["gist"] = active["gist"]
  <2>1. UNCHANGED <<wire, server, view>>
    BY DEF Retarget, Invalidated, Open, Close, Reject, AcceptSync, AcceptQuote, SetAnswer
  <2>2. accepted \subseteq accepted'
    BY DEF Retarget, Invalidated, Open, Close, Reject, AcceptSync, AcceptQuote, SetAnswer
  <2>3. \/ \E n : invalidate("recall", n)
        \/ begin("recall")
        \/ UNCHANGED session
    BY DEF Retarget, Invalidated, Open, Close, Reject, AcceptSync, AcceptQuote, SetAnswer
  <2>4. /\ ids \in Nat /\ active \in [{"recall", "gist"} -> Nat \cup {None}]
        /\ ids' \in Nat
    BY <1>1 DEF TypeOK
  <2>5. ids <= ids' /\ active'["gist"] = active["gist"]
    BY <2>3, <2>4 DEF begin, invalidate, session
  <2> QED
    BY <2>1, <2>2, <2>4, <2>5
<1>3. /\ OneInput' /\ WireTyped' /\ WireInv' /\ ChargedOnce' /\ PaidAsQuoted'
      /\ UNCHANGED <<Record, receipt>>
  BY <1>2, ServerKeeps
<1>4. active \in [{"recall", "gist"} -> Nat \cup {None}] /\ ids \in Nat /\ None \notin Nat
  BY PaidActionAssumption DEF TypeOK
<1>5. ViewInv'
  BY <1>2, <1>3, <1>4 DEF ViewInv, Names, TypeOK, Attempt
<1>6. ASSUME NEW key, Retarget(key) PROVE Flows'
  BY <1>3, <1>5, <1>6 DEF Retarget, session, Flows, DialogInv, Names, TwoFlows, SubmitInv,
                          QuoteInv, ShownIsAnswered
\* The dialog lets go of its operation.
<1>7. ASSUME dialog.attempt # None, invalidate("recall", dialog.attempt.id),
             UNCHANGED accepted, dialog' \in {dialog, Closed}
      PROVE  Flows'
  <2>1. active'["recall"] = None /\ ids' = ids
    BY <1>4, <1>7 DEF invalidate, DialogInv
  <2>2. DialogInv'
    BY <1>3, <1>7, <2>1 DEF DialogInv, Names, Closed
  <2>3. TwoFlows' /\ SubmitInv' /\ QuoteInv' /\ ShownIsAnswered'
    BY <1>2, <1>3, <1>7, <2>1 DEF TwoFlows, SubmitInv, QuoteInv, ShownIsAnswered, Closed
  <2> QED
    BY <1>5, <2>2, <2>3 DEF Flows
<1>8. ASSUME Invalidated PROVE Flows'
  BY <1>7, <1>8 DEF Invalidated, Flows
<1>9. ASSUME Close PROVE Flows'
  <2>1. dialog.attempt # None
    BY <1>9 DEF Close, DialogInv
  <2> QED
    BY <1>7, <1>9, <2>1 DEF Close
<1>10. ASSUME Reject PROVE Flows'
  <2>1. dialog.attempt # None
    BY <1>10 DEF Reject, DialogInv
  <2> QED
    BY <1>7, <1>10, <2>1 DEF Reject
<1>11. ASSUME NEW needsSync \in BOOLEAN, Open(needsSync) PROVE Flows'
  <2> DEFINE a == New(target)
  <2>1. /\ a.id = ids + 1 /\ a.key = target /\ a # None
        /\ \A x \in Record : x.id # ids + 1
        /\ ids <= ids + 1 /\ ids + 1 # ids
    <3>1. target \in Key
      BY <1>11 DEF Open, TypeOK, RecallKey
    <3> QED
      BY <3>1, NewIsNew
  <2>2. target.kind # "gist"
    BY <1>11 DEF Open, TypeOK, RecallKey
  <2>3. /\ dialog'.attempt = a /\ active'["recall"] = ids + 1 /\ ids' = ids + 1
        /\ UNCHANGED accepted
        /\ dialog'.phase \in {"confirmingSync", "quoting", "rewriting"}
        /\ dialog'.phase = "rewriting" => target.kind # "restore"
    BY <1>4, <1>11 DEF Open, begin, Closed, FirstPhase
  <2> HIDE DEF a
  <2>4. DialogInv'
    BY <1>3, <2>1, <2>2, <2>3 DEF DialogInv, Names
  <2>5. TwoFlows'
    <3>1. /\ view.attempt # None => view.attempt.id <= ids /\ view.attempt.id \in Nat
          /\ active["gist"] # None => active["gist"] <= ids /\ active["gist"] \in Nat
      BY <1>4 DEF ViewInv, Names, TypeOK, Attempt
    <3> QED
      BY <1>2, <1>3, <1>4, <2>1, <2>3, <3>1 DEF TwoFlows
  <2>6. SubmitInv' /\ QuoteInv' /\ ShownIsAnswered'
    BY <1>2, <1>3, <2>1, <2>3 DEF SubmitInv, QuoteInv, ShownIsAnswered
  <2> QED
    BY <1>5, <2>4, <2>5, <2>6 DEF Flows
<1>12. ASSUME AcceptSync PROVE Flows'
  <2>1. /\ dialog'.attempt = dialog.attempt /\ dialog'.submitted = dialog.submitted
        /\ dialog'.phase \in {"quoting", "rewriting"} /\ dialog.phase = "confirmingSync"
        /\ dialog'.phase = "rewriting" => dialog.attempt.key.kind # "restore"
    BY <1>12 DEF AcceptSync, FirstPhase, TypeOK
  <2>2. UNCHANGED <<draft, session, accepted>>
    BY <1>12 DEF AcceptSync
  <2> QED
    BY <1>2, <1>3, <1>5, <2>1, <2>2 DEF session, Flows, DialogInv, Names, TwoFlows, SubmitInv,
                                        QuoteInv, ShownIsAnswered
<1>13. ASSUME AcceptQuote PROVE Flows'
  <2>1. /\ dialog'.attempt = dialog.attempt /\ dialog'.submitted = dialog.submitted
        /\ dialog'.phase = "rewriting" /\ dialog.phase = "quoting"
        /\ dialog.attempt.id \in accepted'
    BY <1>13 DEF AcceptQuote, TypeOK
  <2>2. UNCHANGED <<draft, session>>
    BY <1>13 DEF AcceptQuote
  <2> QED
    BY <1>2, <1>3, <1>5, <2>1, <2>2 DEF session, Flows, DialogInv, Names, TwoFlows, SubmitInv,
                                        QuoteInv, ShownIsAnswered
<1>14. ASSUME NEW t, SetAnswer(t) PROVE Flows'
  <2>1. UNCHANGED <<dialog, session, accepted>> /\ ~dialog.submitted
    BY <1>14 DEF SetAnswer
  <2> QED
    BY <1>2, <1>3, <1>5, <2>1 DEF session, Flows, DialogInv, Names, TwoFlows, SubmitInv,
                                  QuoteInv, ShownIsAnswered
<1>15. Flows'
  BY <1>6, <1>8, <1>9, <1>10, <1>11, <1>12, <1>13, <1>14
<1> QED
  BY <1>1, <1>3, <1>15 DEF Flows

----------------------------------------------------------------------------
(* Steps of the client that send *)

LEMMA SendKeeps ==
    ASSUME IInv, NEW attempt \in Attempt, NEW t, NEW c, Send(attempt, t, c), UNCHANGED server,
           accepted \subseteq accepted', ids' = ids,
           attempt.id <= ids,
           attempt.key.kind # "recall" => t = None /\ attempt.id \in accepted',
           \A x \in Record : x.id = attempt.id => x.key = attempt.key /\ x.text = t
    PROVE  /\ OneInput' /\ WireInv' /\ ChargedOnce' /\ PaidAsQuoted' /\ UNCHANGED receipt
           /\ \E q : /\ Record' = Record \cup {q}
                     /\ q.id = attempt.id /\ q.key = attempt.key /\ q.text = t
           /\ \A x \in Record' : x.key.kind # "recall" => x.id \in accepted'
<1> USE DEF IInv
<1>1. UNCHANGED <<receipt, debits, text, rev>>
  BY DEF server, ledger
<1> DEFINE s == [n |-> sends + 1, id |-> attempt.id, key |-> attempt.key, text |-> t,
                 consent |-> c, at |-> "sent", day |-> None, read |-> None,
                 differs |-> FALSE, answer |-> None, awaited |-> TRUE]
<1>2. PICK q :
         /\ wire' = wire \cup {q}
         /\ q.id = attempt.id /\ q.key = attempt.key /\ q.text = t
         /\ q.at = "sent" /\ q.answer = None
  <2>1. wire' = wire \cup {s}
    BY DEF Send
  <2>2. /\ s.id = attempt.id /\ s.key = attempt.key /\ s.text = t
        /\ s.at = "sent" /\ s.answer = None
    OBVIOUS
  <2> HIDE DEF s
  <2> QED
    BY <2>1, <2>2
<1>3. Record' = Record \cup {q}
  BY <1>1, <1>2 DEF Record
<1>4. OneInput'
  BY <1>2, <1>3 DEF OneInput, Agree
<1>5. WireInv'
  <2>1. \A x \in wire : Prepared(x)' /\ Answered(x)'
    BY <1>1 DEF WireInv, Prepared, Answered
  <2>2. None \notin Answer
    BY PaidActionAssumption
  <2>3. q.answer \notin {"ok", "conflict"}
    BY <1>2, <2>2 DEF Answer
  <2>4. Prepared(q)' /\ Answered(q)'
    BY <1>2, <2>3 DEF Prepared, Answered
  <2> QED
    BY <1>2, <2>1, <2>4 DEF WireInv
<1>6. ChargedOnce' /\ PaidAsQuoted'
  BY <1>1 DEF ChargedOnce, PaidAsQuoted
<1>7. \A x \in Record' : x.key.kind # "recall" => x.id \in accepted'
  BY <1>2, <1>3 DEF QuoteInv
<1> QED
  BY <1>1, <1>2, <1>3, <1>4, <1>5, <1>6, <1>7

LEMMA ConfirmStep ==
    ASSUME IInv, ConfirmRecall
    PROVE  IInv'
<1> USE DEF IInv
<1>1. TypeOK' /\ WireTyped'
  BY ConfirmTypes
<1> DEFINE a == dialog.attempt
           t == IF target.kind = "recall" THEN draft ELSE None
<1>2. /\ a \in Attempt /\ a # None /\ active["recall"] = a.id /\ a.id <= ids /\ a.key = target
      /\ dialog.phase = "rewriting" /\ a.key.kind # "gist"
  BY DEF ConfirmRecall, MayStart, TypeOK, DialogInv, Names
<1>3. \A x \in Record : x.id = a.id => x.key = a.key /\ x.text = t
  <2>1. ASSUME NEW x \in Record, x.id = a.id PROVE x.key = a.key /\ x.text = t
    <3>1. x.key = a.key
      BY <1>2, <2>1 DEF DialogInv, Names
    <3>2. x.key.kind = "recall" => x.text = draft
      BY <1>2, <2>1, PaidActionAssumption DEF SubmitInv, TypeOK, Attempt
    <3>3. x.key.kind # "recall" => x.text = None
      BY <2>1 DEF OneInput
    <3> QED
      BY <1>2, <3>1, <3>2, <3>3
  <2> QED
    BY <2>1
<1>4. /\ Send(a, t, dialog.consented) /\ UNCHANGED <<server, accepted, target, draft, view>>
      /\ ids' = ids /\ active' = active
      /\ dialog' = [dialog EXCEPT !.phase = "reconsolidating", !.submitted = TRUE]
  BY DEF ConfirmRecall, start
<1>5. a.key.kind # "recall" => t = None /\ a.id \in accepted
  <2>1. a.key.kind \in {"recall", "restore", "gist"}
    BY <1>2 DEF Attempt, Key
  <2> QED
    BY <1>2, <2>1 DEF QuoteInv
<1>6. /\ dialog'.attempt = a /\ dialog'.phase = "reconsolidating" /\ dialog'.submitted = TRUE
  BY <1>4 DEF TypeOK
<1>7. a.key.kind = "recall" => t = draft
  BY <1>2
<1> HIDE DEF t
<1>8. /\ OneInput' /\ WireInv' /\ ChargedOnce' /\ PaidAsQuoted' /\ UNCHANGED receipt
      /\ \E q : Record' = Record \cup {q} /\ q.id = a.id /\ q.key = a.key /\ q.text = t
      /\ \A x \in Record' : x.key.kind # "recall" => x.id \in accepted'
  BY <1>2, <1>3, <1>4, <1>5, SendKeeps
<1>9. PICK q : Record' = Record \cup {q} /\ q.id = a.id /\ q.key = a.key /\ q.text = t
  BY <1>8
<1>10. DialogInv'
  BY <1>2, <1>4, <1>6, <1>9 DEF DialogInv, Names
<1>11. ViewInv' /\ TwoFlows'
  BY <1>2, <1>4, <1>6, <1>9 DEF ViewInv, TwoFlows, Names
<1>12. SubmitInv'
  BY <1>2, <1>3, <1>4, <1>6, <1>7, <1>9 DEF SubmitInv
<1>13. QuoteInv' /\ ShownIsAnswered'
  BY <1>4, <1>6, <1>8 DEF QuoteInv, ShownIsAnswered
<1> QED
  BY <1>1, <1>8, <1>10, <1>11, <1>12, <1>13

\* The gist view reads: what was sent for its operation had no text.
LEMMA ReadStep ==
    ASSUME IInv, Read, TypeOK', WireTyped', accepted \subseteq accepted',
           view.phase # "closed", view.attempt.id \in accepted'
    PROVE  IInv'
<1> USE DEF IInv
<1> DEFINE a == view.attempt
<1>1. /\ a \in Attempt /\ a # None /\ active["gist"] = a.id /\ a.id <= ids
      /\ a.key.kind = "gist"
  BY DEF Read, MayStart, TypeOK, ViewInv, Names
<1>2. \A x \in Record : x.id = a.id => x.key = a.key /\ x.text = None
  BY <1>1 DEF ViewInv, Names, OneInput
<1>3. /\ UNCHANGED <<server, dialog, target, draft>>
      /\ ids' = ids /\ active' = active
      /\ view' = [view EXCEPT !.phase = "viewing", !.failure = None]
  BY DEF Read, start, recallSide
<1>4. view'.attempt = a /\ view'.phase = "viewing"
  BY <1>3 DEF TypeOK
<1>5. /\ OneInput' /\ WireInv' /\ ChargedOnce' /\ PaidAsQuoted' /\ UNCHANGED receipt
      /\ \E q : Record' = Record \cup {q} /\ q.id = a.id /\ q.key = a.key /\ q.text = None
      /\ \A x \in Record' : x.key.kind # "recall" => x.id \in accepted'
  <2>1. a.id \in accepted'
    OBVIOUS
  <2>2. PICK c : Send(a, None, c)
    BY Zenon DEF Read
  <2> QED
    BY <1>1, <1>2, <1>3, <2>1, <2>2, SendKeeps
<1>6. PICK q : Record' = Record \cup {q} /\ q.id = a.id /\ q.key = a.key /\ q.text = None
  BY <1>5
<1>7. dialog.attempt # None => dialog.attempt.id # a.id
  BY <1>1 DEF TwoFlows
<1>8. DialogInv' /\ ViewInv' /\ TwoFlows'
  BY <1>1, <1>3, <1>4, <1>6, <1>7 DEF DialogInv, ViewInv, TwoFlows, Names
<1>9. SubmitInv'
  BY <1>1, <1>3, <1>6, <1>7 DEF SubmitInv, DialogInv
<1>10. QuoteInv' /\ ShownIsAnswered'
  BY <1>3, <1>4, <1>5 DEF QuoteInv, ShownIsAnswered
<1> QED
  BY <1>5, <1>8, <1>9, <1>10

LEMMA ViewStep ==
    ASSUME IInv,
           \/ \E key \in Key \ RecallKey : Show(key)
           \/ Unmount \/ CloseView \/ Proceed \/ Retry
    PROVE  IInv'
<1> USE DEF IInv
<1>1. TypeOK' /\ WireTyped'
  BY ViewTypes
<1>2. active \in [{"recall", "gist"} -> Nat \cup {None}] /\ ids \in Nat /\ None \notin Nat
  BY PaidActionAssumption DEF TypeOK
<1>3. ASSUME UNCHANGED <<wire, server, recallSide, accepted>>, ids' \in Nat, ids <= ids',
             active'["recall"] = active["recall"],
             ViewInv', TwoFlows',
             view'.phase \in {"closed", "quoting"}
      PROVE  IInv'
  <2>1. /\ OneInput' /\ WireTyped' /\ WireInv' /\ ChargedOnce' /\ PaidAsQuoted'
        /\ UNCHANGED <<Record, receipt>>
    BY <1>3, ServerKeeps
  <2>2. ids \in Nat /\ (dialog.attempt # None => dialog.attempt.id \in Nat)
    BY DEF TypeOK, Attempt
  <2>3. DialogInv'
    BY <1>3, <2>1, <2>2 DEF DialogInv, Names, recallSide
  <2>4. SubmitInv' /\ QuoteInv' /\ ShownIsAnswered'
    BY <1>3, <2>1 DEF SubmitInv, QuoteInv, ShownIsAnswered, recallSide
  <2> QED
    BY <1>1, <1>3, <2>1, <2>3, <2>4
<1>4. ASSUME NEW key \in Key \ RecallKey, Show(key) PROVE IInv'
  <2> DEFINE a == New(key)
  <2>1. /\ a.id = ids + 1 /\ a.key = key /\ a # None /\ key.kind = "gist"
        /\ \A x \in Record : x.id # ids + 1
        /\ ids + 1 \in Nat /\ ids <= ids + 1 /\ ids + 1 # ids
    BY NewIsNew DEF RecallKey
  <2>2. /\ view'.attempt = a /\ view'.phase = "quoting" /\ active'["gist"] = ids + 1
        /\ active'["recall"] = active["recall"] /\ ids' = ids + 1
        /\ UNCHANGED <<wire, server, recallSide, accepted>>
    BY <1>2, <1>4 DEF Show, begin, NoView
  <2> HIDE DEF a
  <2>3. Record' = Record
    BY <2>2 DEF Record, server, ledger
  <2>4. ViewInv'
    BY <2>1, <2>2, <2>3 DEF ViewInv, Names
  <2>5. TwoFlows'
    <3>1. dialog.attempt # None => dialog.attempt.id <= ids /\ dialog.attempt.id \in Nat
      BY DEF DialogInv, Names, TypeOK, Attempt
    <3> QED
      BY <1>2, <2>1, <2>2, <2>3, <3>1 DEF TwoFlows, recallSide
  <2> QED
    BY <1>3, <2>1, <2>2, <2>4, <2>5
<1>5. ASSUME NEW n, invalidate("gist", n), view' = NoView,
             UNCHANGED <<wire, server, recallSide, accepted>>
      PROVE  IInv'
  <2>1. /\ active'["recall"] = active["recall"] /\ ids' = ids
        /\ active'["gist"] \in {active["gist"], None}
    BY <1>2, <1>5 DEF invalidate
  <2>2. Record' = Record
    BY <1>5 DEF Record, server, ledger
  <2>3. ViewInv' /\ TwoFlows'
    BY <1>5, <2>1, <2>2 DEF ViewInv, TwoFlows, Names, NoView, recallSide
  <2> QED
    BY <1>2, <1>3, <1>5, <2>1, <2>3 DEF NoView
<1>6. ASSUME Unmount PROVE IInv'
  BY <1>5, <1>6 DEF Unmount
<1>7. ASSUME CloseView PROVE IInv'
  BY <1>5, <1>7 DEF CloseView
<1>8. ASSUME Proceed PROVE IInv'
  BY <1>1, <1>8, ReadStep DEF Proceed
<1>9. ASSUME Retry PROVE IInv'
  <2>1. ASSUME view.failure = "ambiguous" PROVE IInv'
    BY <1>1, <1>9, <2>1, ReadStep DEF Retry, QuoteInv
  <2>2. ASSUME view.failure # "ambiguous" PROVE IInv'
    <3>1. /\ UNCHANGED <<wire, server, recallSide, accepted, session>>
          /\ view'.attempt = view.attempt /\ view'.phase = "quoting" /\ view.phase = "failed"
      BY <1>9, <2>2 DEF Retry, TypeOK
    <3>2. Record' = Record
      BY <3>1 DEF Record, server, ledger
    <3>3. ViewInv' /\ TwoFlows'
      BY <3>1, <3>2 DEF ViewInv, TwoFlows, Names, recallSide, session
    <3> QED
      BY <1>2, <1>3, <3>1, <3>3 DEF session
  <2> QED
    BY <2>1, <2>2
<1> QED
  BY <1>4, <1>6, <1>7, <1>8, <1>9

----------------------------------------------------------------------------
(* Steps that end a request for the client *)

LEMMA GiveUpKeeps ==
    ASSUME IInv, NEW q \in wire, UNCHANGED <<server, accepted>>, ids' \in Nat, ids <= ids',
           wire' = (wire \ {q}) \cup {r \in {[q EXCEPT !.awaited = FALSE]} : Waiting(q)}
    PROVE  /\ Covered /\ UNCHANGED receipt
           /\ OneInput' /\ WireTyped' /\ WireInv' /\ ChargedOnce' /\ PaidAsQuoted'
           /\ \A x \in Record' : x.key.kind # "recall" => x.id \in accepted'
<1> USE DEF IInv
<1>1. UNCHANGED <<receipt, debits, text, rev>>
  BY DEF server, ledger
<1>2. PICK p :
         /\ p = [q EXCEPT !.awaited = FALSE]
         /\ \A x \in wire' : x \in wire \/ x = p
  BY GivesUp
<1>3. /\ p.id = q.id /\ p.key = q.key /\ p.text = q.text /\ p.at = q.at
      /\ p.read = q.read /\ p.day = q.day /\ p.differs = q.differs /\ p.answer = q.answer
  BY <1>2 DEF TypeOK, Request
<1>4. Covered
  BY <1>1, <1>2, <1>3 DEF Covered, Record
<1>5. OneInput'
  <2>1. ids \in Nat
    BY DEF TypeOK
  <2> QED
    BY <1>4, <2>1, RecordFrame, RecordIds
<1>6. Typed(p) /\ Prepared(p)' /\ Answered(p)'
  BY <1>1, <1>3 DEF WireTyped, Typed, WireInv, Prepared, Answered
<1>7. \A x \in wire : Typed(x) /\ Prepared(x)' /\ Answered(x)'
  BY <1>1 DEF WireTyped, Typed, WireInv, Prepared, Answered
<1>8. WireTyped' /\ WireInv'
  BY <1>2, <1>6, <1>7 DEF WireTyped, WireInv
<1>9. ChargedOnce' /\ PaidAsQuoted'
  BY <1>1 DEF ChargedOnce, PaidAsQuoted
<1>10. \A x \in Record' : x.key.kind # "recall" => x.id \in accepted'
  BY <1>4 DEF Covered, QuoteInv
<1> QED
  BY <1>1, <1>4, <1>5, <1>8, <1>9, <1>10

LEMMA CompleteStep ==
    ASSUME IInv, NEW q \in wire, Complete(q)
    PROVE  IInv'
<1> USE DEF IInv
<1>1. TypeOK'
  BY CompleteTypes DEF Completes
<1>2. /\ q.id \in Nat /\ q.key \in Key /\ q.key.kind # "gist" /\ None \notin Nat
      /\ active \in [{"recall", "gist"} -> Nat \cup {None}] /\ ids \in Nat /\ q \in Record
  BY PaidActionAssumption DEF Complete, TypeOK, Request, Record
<1>3. UNCHANGED <<target, draft, view, accepted, sends, server>>
  BY DEF Complete
<1>4. ids' \in Nat /\ ids <= ids' /\ active'["gist"] = active["gist"]
  BY <1>1, <1>2 DEF Complete, Settle, finish, begin
<1>5. /\ Covered /\ UNCHANGED receipt
      /\ OneInput' /\ WireTyped' /\ WireInv' /\ ChargedOnce' /\ PaidAsQuoted'
      /\ \A x \in Record' : x.key.kind # "recall" => x.id \in accepted'
  BY <1>3, <1>4, GiveUpKeeps DEF Complete
<1>6. ViewInv'
  <2>1. view.attempt # None => view.attempt.id \in Nat
    BY DEF TypeOK, Attempt
  <2> QED
    BY <1>2, <1>3, <1>4, <1>5, <2>1 DEF ViewInv, Names, Covered
<1>7. ASSUME ~isActive("recall", q.id) PROVE Flows'
  <2>1. UNCHANGED <<dialog, active, ids>>
    BY <1>7 DEF Complete, finish
  <2> QED
    BY <1>3, <1>5, <2>1, ClientFrame, ShownFrame DEF Flows, recallSide
<1>8. ASSUME isActive("recall", q.id) PROVE Flows'
  <2>1. dialog.attempt # None /\ dialog.attempt.id = q.id /\ dialog.attempt.key = q.key
    BY <1>2, <1>8 DEF isActive, DialogInv, Names
  <2>2. ASSUME UNCHANGED <<active, ids>>, dialog'.attempt = dialog.attempt,
               dialog'.submitted = dialog.submitted,
               \/ dialog'.phase = "rewriting"
               \/ /\ dialog'.phase = "result" /\ dialog'.shown = q.id
                  /\ \E r \in receipt : r.id = q.id /\ r.key = q.key
        PROVE  Flows'
    <3>1. DialogInv'
      BY <1>5, <2>1, <2>2 DEF DialogInv, Names, Covered
    <3>2. TwoFlows' /\ SubmitInv'
      BY <1>3, <1>5, <2>2 DEF TwoFlows, SubmitInv, Covered
    <3>3. QuoteInv'
      BY <1>2, <1>3, <1>5, <2>1, <2>2 DEF QuoteInv
    <3>4. ShownIsAnswered'
      BY <1>3, <1>5, <2>1, <2>2 DEF ShownIsAnswered
    <3> QED
      BY <1>6, <3>1, <3>2, <3>3, <3>4 DEF Flows
  <2>3. ASSUME finish("recall", q.id), Outcome(q) = "ok",
               dialog' = [dialog EXCEPT !.phase = "result", !.shown = q.id]
        PROVE  Flows'
    <3>1. \E r \in receipt : r.id = q.id /\ r.key = q.key
      BY <2>3 DEF Outcome, WireInv, Answered
    <3> QED
      BY <2>2, <2>3, <3>1 DEF finish, TypeOK
  <2>4. ASSUME finish("recall", q.id), dialog' = [dialog EXCEPT !.phase = "rewriting"]
        PROVE  Flows'
    BY <2>2, <2>4 DEF finish, TypeOK
  <2>5. ASSUME begin("recall"), NEW p,
               p \in {"confirmingSync", FirstPhase(q.key)},
               dialog' = [dialog EXCEPT !.attempt = New(q.key), !.submitted = FALSE, !.phase = p]
        PROVE  Flows'
    <3> DEFINE a == New(q.key)
    <3>1. /\ a.id = ids + 1 /\ a.key = q.key /\ a # None
          /\ \A x \in Record : x.id # ids + 1
          /\ ids + 1 \in Nat /\ ids <= ids + 1 /\ ids + 1 # ids
      BY <1>2, NewIsNew
    <3>2. /\ dialog'.attempt = a /\ dialog'.phase = p
          /\ active'["recall"] = ids + 1 /\ ids' = ids + 1
          /\ p \in {"confirmingSync", "quoting", "rewriting"}
          /\ p = "rewriting" => q.key.kind # "restore"
      BY <1>2, <2>5 DEF begin, TypeOK, FirstPhase
    <3> HIDE DEF a
    <3>3. \A x \in Record' : x.id # ids + 1
      BY <1>5, <3>1 DEF Covered
    <3>4. DialogInv'
      BY <1>2, <3>1, <3>2, <3>3 DEF DialogInv, Names
    <3>5. TwoFlows'
      <4>1. /\ view.attempt # None => view.attempt.id <= ids /\ view.attempt.id \in Nat
            /\ active["gist"] # None => active["gist"] <= ids /\ active["gist"] \in Nat
        BY <1>2 DEF ViewInv, Names, TypeOK, Attempt
      <4> QED
        BY <1>2, <1>3, <1>4, <1>5, <3>1, <3>2, <4>1 DEF TwoFlows, Covered
    <3>6. SubmitInv' /\ QuoteInv' /\ ShownIsAnswered'
      BY <1>3, <1>5, <3>1, <3>2, <3>3 DEF SubmitInv, QuoteInv, ShownIsAnswered
    <3> QED
      BY <1>6, <3>4, <3>5, <3>6 DEF Flows
  <2>6. (IF Outcome(q) = "consent" /\ ~q.consent THEN "confirmingSync" ELSE FirstPhase(q.key))
           \in {"confirmingSync", FirstPhase(q.key)}
    OBVIOUS
  <2>7. Settle(q, Outcome(q))
    BY <1>8 DEF Complete
  <2> QED
    BY <2>3, <2>4, <2>5, <2>6, <2>7 DEF Settle
<1>9. Flows'
  BY <1>7, <1>8
<1> QED
  BY <1>1, <1>5, <1>9 DEF Flows

LEMMA CompleteViewStep ==
    ASSUME IInv, NEW q \in wire, CompleteView(q)
    PROVE  IInv'
<1> USE DEF IInv
<1>1. TypeOK'
  BY CompleteTypes DEF Completes
<1>2. /\ q.id \in Nat /\ q.key \in Key /\ q.key.kind = "gist" /\ None \notin Nat
      /\ active \in [{"recall", "gist"} -> Nat \cup {None}] /\ ids \in Nat /\ q \in Record
  BY PaidActionAssumption DEF CompleteView, TypeOK, Request, Record
<1>3. UNCHANGED <<dialog, target, draft, accepted, sends, server>>
  BY DEF CompleteView, recallSide
<1>4. ids' \in Nat /\ ids <= ids' /\ active'["recall"] = active["recall"]
  BY <1>1, <1>2 DEF CompleteView, SettleView, finish, begin
<1>5. /\ Covered /\ UNCHANGED receipt
      /\ OneInput' /\ WireTyped' /\ WireInv' /\ ChargedOnce' /\ PaidAsQuoted'
      /\ \A x \in Record' : x.key.kind # "recall" => x.id \in accepted'
  BY <1>3, <1>4, GiveUpKeeps DEF CompleteView
<1>6. DialogInv' /\ SubmitInv'
  <2>1. dialog.attempt # None => dialog.attempt.id \in Nat
    BY DEF TypeOK, Attempt
  <2> QED
    BY <1>2, <1>3, <1>4, <1>5, <2>1 DEF DialogInv, SubmitInv, Names, Covered
<1>7. ASSUME UNCHANGED <<view, active, ids>> PROVE Flows'
  BY <1>3, <1>5, <1>7, ClientFrame, ShownFrame DEF Flows, recallSide
<1>8. ASSUME isActive("gist", q.id) PROVE Flows'
  <2>1. view.phase = "viewing" =>
           view.attempt # None /\ view.attempt.id = q.id /\ view.attempt.key = q.key
    BY <1>2, <1>8 DEF isActive, ViewInv, Names
  <2>2. ASSUME UNCHANGED <<active, ids>>, view.phase = "viewing",
               view'.attempt = view.attempt,
               \/ view'.phase = "failed"
               \/ /\ view'.phase = "revealed" /\ view'.shown = q.id
                  /\ \E r \in receipt : r.id = q.id /\ r.key = q.key
        PROVE  Flows'
    <3>1. ViewInv' /\ TwoFlows'
      BY <1>3, <1>5, <2>2 DEF ViewInv, TwoFlows, Names, Covered
    <3>2. QuoteInv' /\ ShownIsAnswered'
      BY <1>3, <1>5, <2>1, <2>2 DEF QuoteInv, ShownIsAnswered
    <3> QED
      BY <1>6, <3>1, <3>2 DEF Flows
  <2>3. ASSUME finish("gist", q.id), Outcome(q) = "ok",
               view' = Showing([view EXCEPT !.phase = "revealed", !.shown = q.id])
        PROVE  Flows'
    <3>1. \E r \in receipt : r.id = q.id /\ r.key = q.key
      BY <2>3 DEF Outcome, WireInv, Answered
    <3> QED
      BY <1>7, <2>2, <2>3, <3>1 DEF finish, Showing, TypeOK
  <2>4. ASSUME finish("gist", q.id),
               view' = Showing([view EXCEPT !.phase = "failed", !.failure = "ambiguous"])
        PROVE  Flows'
    BY <1>7, <2>2, <2>4 DEF finish, Showing, TypeOK
  <2>5. ASSUME begin("gist"),
               view' = Showing([view EXCEPT !.phase = "failed", !.failure = "known-refusal",
                                            !.attempt = New(q.key)])
        PROVE  Flows'
    <3> DEFINE a == New(q.key)
    <3>1. /\ a.id = ids + 1 /\ a.key = q.key /\ a # None
          /\ \A x \in Record : x.id # ids + 1
          /\ ids + 1 \in Nat /\ ids <= ids + 1 /\ ids + 1 # ids
      BY <1>2, NewIsNew
    <3>2. /\ \/ view.phase = "viewing" /\ view'.attempt = a /\ view'.phase = "failed"
                /\ view'.failure = "known-refusal"
             \/ view.phase # "viewing" /\ view' = view
          /\ active'["gist"] = ids + 1 /\ ids' = ids + 1
      BY <1>2, <2>5 DEF begin, Showing, TypeOK
    <3> HIDE DEF a
    <3>3. \A x \in Record' : x.id # ids + 1
      BY <1>5, <3>1 DEF Covered
    <3>4. ViewInv'
      <4>1. view.attempt # None => view.attempt.id \in Nat
        BY DEF TypeOK, Attempt
      <4> QED
        BY <1>2, <1>5, <3>1, <3>2, <3>3, <4>1 DEF ViewInv, Names, Covered
    <3>5. TwoFlows'
      <4>1. dialog.attempt # None => dialog.attempt.id <= ids /\ dialog.attempt.id \in Nat
        BY DEF DialogInv, Names, TypeOK, Attempt
      <4> QED
        BY <1>2, <1>3, <1>5, <3>1, <3>2, <3>3, <4>1 DEF TwoFlows
    <3>6. QuoteInv' /\ ShownIsAnswered'
      BY <1>3, <1>5, <3>2 DEF QuoteInv, ShownIsAnswered
    <3> QED
      BY <1>6, <3>4, <3>5, <3>6 DEF Flows
  <2>6. SettleView(q, Outcome(q))
    BY <1>8 DEF CompleteView
  <2> QED
    BY <2>3, <2>4, <2>5, <2>6 DEF SettleView
<1>9. Flows'
  <2>1. ASSUME ~isActive("gist", q.id) PROVE Flows'
    BY <1>7, <2>1 DEF CompleteView, finish
  <2> QED
    BY <1>8, <2>1
<1> QED
  BY <1>1, <1>5, <1>9 DEF Flows

----------------------------------------------------------------------------
(* The rest of the world, and the invariant *)

LEMMA OtherStep ==
    ASSUME IInv, UNCHANGED <<client, wire, sends, clock, receipt, debits>>, TypeOK',
           \A q \in wire : Prepared(q) => Prepared(q)'
    PROVE  IInv'
<1> USE DEF IInv
<1>1. Covered
  BY DEF Covered, Record
<1>2. Known'
  BY <1>1, KnownFrame DEF Known
<1>3. WireTyped' /\ WireInv'
  BY DEF WireTyped, WireInv, Answered
<1>4. ChargedOnce' /\ PaidAsQuoted' /\ ShownIsAnswered'
  BY DEF client, recallSide, ChargedOnce, PaidAsQuoted, ShownIsAnswered
<1> QED
  BY <1>2, <1>3, <1>4 DEF Known

LEMMA OtherTypes ==
    ASSUME TypeOK,
           \/ \E m \in Memory, t \in Text : OtherRewrite(m, t)
           \/ \E m \in Memory : OtherRelease(m)
           \/ OtherSpend \/ NewDay
    PROVE  TypeOK' /\ UNCHANGED <<client, wire, sends, clock, receipt, debits>>
<1>1. /\ UNCHANGED <<client, wire, sends, clock, receipt, debits>>
      /\ others' \in Nat /\ balance' \in Nat /\ today' \in Nat /\ live' \subseteq Memory
      /\ text' \in [Memory -> Text] /\ rev' \in [Memory -> Nat]
  <2>1. \A m \in Memory, t \in Text : OtherRewrite(m, t) =>
           /\ UNCHANGED <<client, wire, sends, clock, ledger, today, live>> /\ others' = others + 1
           /\ text' \in [Memory -> Text] /\ rev' \in [Memory -> Nat]
    BY DEF OtherRewrite, OtherDevice, TypeOK
  <2>2. \A m \in Memory : OtherRelease(m) =>
           /\ UNCHANGED <<client, wire, sends, clock, ledger, today, text, rev>>
           /\ others' = others + 1 /\ live' \subseteq Memory
    BY DEF OtherRelease, OtherDevice, TypeOK
  <2>3. OtherSpend =>
           /\ UNCHANGED <<client, wire, sends, clock, receipt, debits, today, live, text, rev>>
           /\ others' = others + 1 /\ balance' \in Nat
    BY PaidActionAssumption DEF OtherSpend, OtherDevice, TypeOK
  <2>4. NewDay =>
           /\ UNCHANGED <<client, wire, sends, clock, ledger, live, text, rev, others>>
           /\ today' = today + 1
    BY DEF NewDay
  <2> QED
    BY <2>1, <2>2, <2>3, <2>4 DEF TypeOK, ledger
<1>2. ClientOK' /\ SessionOK'
  BY <1>1, Parts, ClientStays
<1>3. ServerOK'
  BY <1>1 DEF TypeOK, ServerOK
<1> QED
  BY <1>1, <1>2, <1>3, Parts

LEMMA RewriteKeepsPrepared ==
    ASSUME TypeOK, WireTyped, NEW m \in Memory, NEW t \in Text, OtherRewrite(m, t), NEW q \in wire,
           Prepared(q)
    PROVE  Prepared(q)'
<1>1. /\ q.key.memory \in Memory /\ Typed(q)
      /\ text \in [Memory -> Text] /\ rev \in [Memory -> Nat]
  BY DEF TypeOK, Request, Key, WireTyped
<1>2. text' = [text EXCEPT ![m] = t] /\ rev' = [rev EXCEPT ![m] = @ + 1]
  BY DEF OtherRewrite
<1> QED
  BY <1>1, <1>2 DEF Prepared, Typed

LEMMA Start == Init => IInv
<1> SUFFICES ASSUME Init PROVE IInv
  OBVIOUS
<1> USE DEF Init, Closed, NoView
<1>1. TypeOK
  BY PaidActionAssumption DEF TypeOK, Phase
<1>2. Record = {}
  BY DEF Record
<1>3. OneInput /\ DialogInv /\ ViewInv /\ TwoFlows /\ SubmitInv /\ QuoteInv
  BY <1>2 DEF OneInput, DialogInv, ViewInv, TwoFlows, SubmitInv, QuoteInv, Names
<1>4. WireTyped /\ WireInv /\ ChargedOnce /\ PaidAsQuoted /\ ShownIsAnswered
  BY DEF WireTyped, WireInv, ChargedOnce, PaidAsQuoted, ShownIsAnswered
<1> QED
  BY <1>1, <1>3, <1>4 DEF IInv

LEMMA Step == IInv /\ [Next]_vars => IInv'
<1> SUFFICES ASSUME IInv, [Next]_vars PROVE IInv'
  OBVIOUS
<1>1. ASSUME NEW q \in wire, Serve(q) PROVE IInv'
  BY <1>1, ServerStep
<1>2. ASSUME NEW q \in wire, Completes(q) PROVE IInv'
  BY <1>2, CompleteStep, CompleteViewStep DEF Completes
<1>3. ASSUME \/ \E m \in Memory, t \in Text : OtherRewrite(m, t)
             \/ \E m \in Memory : OtherRelease(m)
             \/ OtherSpend \/ NewDay
      PROVE  IInv'
  <2>1. TypeOK' /\ UNCHANGED <<client, wire, sends, clock, receipt, debits>>
    BY <1>3, OtherTypes DEF IInv
  <2>2. ASSUME UNCHANGED <<text, rev>> PROVE \A q \in wire : Prepared(q) => Prepared(q)'
    BY <2>2 DEF Prepared
  <2>3. \A q \in wire : Prepared(q) => Prepared(q)'
    BY <1>3, <2>2, RewriteKeepsPrepared DEF IInv, OtherRelease, OtherSpend, NewDay
  <2> QED
    BY <2>1, <2>3, OtherStep
<1>4. ASSUME \/ \E key \in RecallKey \cup {None} : Retarget(key)
             \/ Invalidated
             \/ \E needsSync \in BOOLEAN : Open(needsSync)
             \/ Close \/ Reject
             \/ AcceptSync \/ AcceptQuote
             \/ \E t \in Text : SetAnswer(t)
      PROVE  IInv'
  BY <1>4, DialogStep
<1>5. CASE ConfirmRecall
  BY <1>5, ConfirmStep
<1>6. ASSUME \/ \E key \in Key \ RecallKey : Show(key)
             \/ Unmount \/ CloseView \/ Proceed \/ Retry
      PROVE  IInv'
  BY <1>6, ViewStep
<1>7. CASE UNCHANGED vars
  <2>1. UNCHANGED <<client, wire, sends, server>>
    BY <1>7 DEF vars
  <2>2. UNCHANGED <<clock, receipt, debits, text, rev>>
    BY <2>1 DEF server, ledger
  <2>3. TypeOK'
    BY <2>1, Parts, ClientStays, ServerStays DEF IInv
  <2> QED
    BY <2>1, <2>2, <2>3, OtherStep DEF Prepared
<1> QED
  BY <1>1, <1>2, <1>3, <1>4, <1>5, <1>6, <1>7 DEF Next

LEMMA Inductive == Spec => []IInv
BY Start, Step, PTL DEF Spec

\* Dialog, view, requests, receipts and ledger keep their types.
THEOREM TypeCorrect == Spec => []TypeOK
BY Inductive, PTL DEF IInv

\* An operation is charged once, under a receipt, however often it is sent.
THEOREM Once == Spec => []ChargedOnce
BY Inductive, PTL DEF IInv

\* The spends of the ledger are of quotes the user accepted.
THEOREM Quoted == Spec => []PaidAsQuoted
BY Inductive, PTL DEF IInv

\* What the dialog and the view show was committed for the operation they show.
THEOREM Shown == Spec => []ShownIsAnswered
BY Inductive, PTL DEF IInv

\* A client never meets its own receipt with another input.
THEOREM Conflictless == Spec => []NoConflict
<1>1. IInv => NoConflict
  BY DEF IInv, WireInv, Answered, NoConflict
<1> QED
  BY <1>1, Inductive, PTL

\* A recall commits the branch its text called for.
THEOREM BranchFits == Spec => BranchFitsText
<1> DEFINE A == \A r \in receipt' \ receipt :
                   r.key.kind = "recall" => (r.rewrote <=> text[r.key.memory] # r.text)
<1>1. ASSUME IInv, Next PROVE A
  <2>1. ASSUME NEW q \in wire, Commit(q) PROVE A
    <3>1. q.at = "prepared" /\ q.read = rev[q.key.memory] /\ Prepared(q)
      <4>1. Refusal(q, q.day) = None /\ q.at = "prepared"
        BY <2>1 DEF Commit
      <4> QED
        BY <1>1, <4>1, RefusalCases DEF IInv, WireInv
    <3>2. q.differs <=> text[q.key.memory] # q.text
      BY <3>1 DEF Prepared
    <3> QED
      BY <2>1, <3>2 DEF Commit, Receipt
  <2>2. ASSUME NEW q \in wire, Charge(q) PROVE A
    BY <2>2 DEF Charge, Receipt
  <2>3. ASSUME UNCHANGED receipt PROVE A
    BY <2>3
  <2>4. ASSUME NEW q \in wire, Serve(q), ~Commit(q), ~Charge(q) PROVE UNCHANGED receipt
    BY <2>4 DEF Serve, Unauthenticated, Fail, Refuse, Prepare, server, ledger
  <2>5. ASSUME NEW q \in wire, Completes(q) PROVE UNCHANGED receipt
    BY <2>5 DEF Completes, Complete, CompleteView, server, ledger
  <2>6. ASSUME \/ \E m \in Memory, t \in Text : OtherRewrite(m, t)
               \/ \E m \in Memory : OtherRelease(m)
               \/ OtherSpend \/ NewDay
        PROVE  UNCHANGED receipt
    BY <1>1, <2>6, OtherTypes DEF IInv
  <2>7. ASSUME \/ \E key \in RecallKey \cup {None} : Retarget(key)
               \/ Invalidated
               \/ \E needsSync \in BOOLEAN : Open(needsSync)
               \/ Close \/ Reject
               \/ AcceptSync \/ AcceptQuote \/ ConfirmRecall
               \/ \E t \in Text : SetAnswer(t)
        PROVE  UNCHANGED receipt
    BY <2>7 DEF Retarget, Invalidated, Open, Close, Reject, AcceptSync, AcceptQuote,
                ConfirmRecall, SetAnswer, server, ledger
  <2>8. ASSUME \/ \E key \in Key \ RecallKey : Show(key)
               \/ Unmount \/ CloseView \/ Proceed \/ Retry
        PROVE  UNCHANGED receipt
    BY <2>8 DEF Show, Unmount, CloseView, Proceed, Retry, Read, server, ledger
  <2> QED
    BY <1>1, <2>1, <2>2, <2>3, <2>4, <2>5, <2>6, <2>7, <2>8 DEF Next
<1>2. IInv /\ [Next]_vars => [A]_vars
  BY <1>1
<1> QED
  BY <1>2, Inductive, PTL DEF Spec, BranchFitsText

=============================================================================
