--------------------------- MODULE MCProduceAssets ---------------------------
(* Instances of ProduceAssets for TLC: two runs and two keys, and how many   *)
(* motions the keys have between them.                                       *)
EXTENDS ProduceAssets, TLC

CONSTANTS k1, k2, r1, r2

OwnMotions == (k1 :> k1) @@ (k2 :> k2)

OneMotion == (k1 :> k1) @@ (k2 :> k1)

MCCost == (k1 :> 1) @@ (k2 :> 2)

Ask(specs, approved, threshold, budget, width) ==
    [specs |-> specs, approved |-> approved, threshold |-> threshold, budget |-> budget,
     width |-> width]

Pair(first, second) == (r1 :> first) @@ (r2 :> second)

\* Two workers over both keys, one of them asked for twice, beside a run that nobody
\* approved; two runs that want the same, one of them cheap enough to need no approval; one
\* with money for its second key only, beside one with money for either of two.
MCDemands ==
    {Pair(Ask(<<k1, k2, k1>>, TRUE, 0, 3, 2), Ask(<<k2>>, FALSE, 0, 3, 1)),
     Pair(Ask(<<k1, k2>>, TRUE, 0, 3, 1), Ask(<<k2>>, FALSE, 2, 3, 1)),
     Pair(Ask(<<k2, k1>>, TRUE, 0, 1, 1), Ask(<<k1, k2>>, TRUE, 0, 2, 1))}

=============================================================================
