---------------------------- MODULE MCDecoration ----------------------------
(* Instances of Decoration for TLC. *)
EXTENDS Decoration, TLC

CONSTANTS sky, mote, plasma, spire, orb, s1, s2

\* Two kinds: the sky has one ornament for sale and one achievement reward.
Kinds == plasma :> sky @@ spire :> sky @@ orb :> mote

\* Every ornament for sale costs one.
Prices == [set \in SUBSET Ornament |-> Cardinality(set \cap Purchasable)]

Saves == Permutations({s1, s2})
=============================================================================
