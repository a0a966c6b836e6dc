----------------------------- MODULE MCModelCalls -----------------------------
(* An instance of ModelCalls for TLC: a local model that is free, two in the *)
(* cloud, one of them without a price.                                       *)
EXTENDS ModelCalls, TLC

CONSTANTS local, cloud, other

MCPrice == (local :> 0) @@ (cloud :> 2)

MCDialect == (local :> "ollama") @@ (cloud :> "gemini") @@ (other :> "openai-strict")

Plain ==
    [way |-> "stage", stage |-> NoModel, pinned |-> FALSE, task |-> NoModel, rule |-> <<>>,
     cap |-> NoModel, policy |-> "balanced", capable |-> {local, cloud},
     structured |-> {local, cloud}, signal |-> TRUE]

\* The catalogue, either way and dearest first; a pin, of a model that can and of one that
\* cannot; a stage, a task and a rule that name the same; a ceiling; a route of which only
\* some can return JSON.  The world stage and style derivation give no signal.
MCSettings ==
    {Plain, [Plain EXCEPT !.signal = FALSE],
     [Plain EXCEPT !.way = "routed", !.signal = FALSE], [Plain EXCEPT !.policy = "best"],
     [Plain EXCEPT !.stage = cloud, !.pinned = TRUE, !.rule = <<local>>],
     [Plain EXCEPT !.stage = other, !.pinned = TRUE, !.rule = <<local>>],
     [Plain EXCEPT !.way = "routed", !.stage = cloud, !.task = local,
                   !.rule = <<cloud, other, local>>],
     [Plain EXCEPT !.task = other, !.rule = <<cloud, local, other>>, !.cap = 1,
                   !.capable = Models],
     [Plain EXCEPT !.rule = <<other, local>>, !.capable = Models]}

=============================================================================
