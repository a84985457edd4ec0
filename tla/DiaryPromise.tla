---------------------------- MODULE DiaryPromise ----------------------------
(***************************************************************************)
(* What deleting a diary promises its writer (release.go, the comments on   *)
(* Release, Restore and Sweep): a written diary with everything born from   *)
(* it is deleted as a whole, can come back as a whole, and is lost, as a     *)
(* whole, only when the retention window is over.                           *)
(***************************************************************************)
EXTENDS Naturals

CONSTANTS Diary, Window, Never

VARIABLES
    now,
    fate,   \* what has become of a diary and all its memories
    since   \* when it was deleted

promise == <<now, fate, since>>

Init ==
    /\ now = 0
    /\ fate = [d \in Diary |-> "unwritten"]
    /\ since = [d \in Diary |-> Never]

Write(d) ==
    /\ fate[d] = "unwritten"
    /\ fate' = [fate EXCEPT ![d] = "kept"]
    /\ UNCHANGED <<now, since>>

Delete(d) ==
    /\ fate[d] = "kept"
    /\ fate' = [fate EXCEPT ![d] = "released"]
    /\ since' = [since EXCEPT ![d] = now]
    /\ UNCHANGED now

Undo(d) ==
    /\ fate[d] = "released"
    /\ fate' = [fate EXCEPT ![d] = "kept"]
    /\ since' = [since EXCEPT ![d] = Never]
    /\ UNCHANGED now

\* One sweep may lose several diaries, each past its window.
Lose(D) ==
    /\ \A d \in D : fate[d] = "released" /\ since[d] + Window <= now
    /\ fate' = [d \in Diary |-> IF d \in D THEN "lost" ELSE fate[d]]
    /\ since' = [d \in Diary |-> IF d \in D THEN Never ELSE since[d]]
    /\ UNCHANGED now

Pass ==
    /\ now' = now + 1
    /\ UNCHANGED <<fate, since>>

Next ==
    \/ \E d \in Diary : Write(d) \/ Delete(d) \/ Undo(d)
    \/ \E D \in SUBSET Diary : Lose(D)
    \/ Pass

Spec == Init /\ [][Next]_promise
=============================================================================
