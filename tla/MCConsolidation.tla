-------------------------- MODULE MCConsolidation --------------------------
(* An instance of Consolidation for TLC. *)
EXTENDS Consolidation

CONSTANTS m1, m2, w1

\* The two memories share two semantic neurons: a recall of one ages the other.
Linked == [p \in Memory \X Memory |-> IF p[1] = p[2] THEN 0 ELSE 2]

\* In quarters of a day. A first gist stage lasts a day, one after a recall ends
\* inside a day; a jump may cross two of them. A recall slows both timers.
Gistify == [n \in 0..MaxRecalls |-> IF n > 0 THEN 7 ELSE 4]
Fade == [n \in 0..MaxRecalls |-> IF n > 0 THEN 5 ELSE 4]
=============================================================================
