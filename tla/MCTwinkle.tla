----------------------------- MODULE MCTwinkle -----------------------------
EXTENDS TwinkleRefinement, TLC

CONSTANTS ann, ben, dan

Ask(kind, user, inviter, amount, id) ==
    [kind |-> kind, user |-> user, inviter |-> inviter, amount |-> amount, id |-> id]

\* Two recalls and a purchase of ann race for one balance with the rewards for
\* two users she invited. These two are interchangeable, and so are connections.
Requested ==
    {Ask("recall", ann, ann, 1, 1), Ask("recall", ann, ann, 1, 2),
     Ask("purchase", ann, ann, 1, 4),
     Ask("invite", ben, ann, 2, 3), Ask("invite", dan, ann, 2, 3)}

Alike == Permutations(Tx) \cup Permutations({ben, dan})
=============================================================================
