---------------------------- MODULE ProduceAssets ----------------------------
(***************************************************************************)
(* The produce stage (asset-engine/src/produce, the registry and its       *)
(* tables): runs ask for assets by key; what the library has is reused,    *)
(* the rest is drawn, matted, split, rigged, clipped, baked and            *)
(* registered, by a pool of workers per run, with a checkpoint after every *)
(* step, so that a run that is begun again does not pay again.             *)
(*                                                                         *)
(* Every image that is drawn is a number of its own, and the output of a   *)
(* later step is the number of the image it comes from.  Clips come from   *)
(* the archetype and the style: Motion says which keys have the same.      *)
(* Blobs are addressed by content and nothing deletes them, so a blob that *)
(* was written is there.  The gate on quality has no model in the API and  *)
(* is left out; the guard and the ledger are in Metering.                  *)
(*                                                                         *)
(* Definitions named Broken... are not the code, see PipelineRunner.       *)
(***************************************************************************)
EXTENDS Naturals, Lists, FiniteSets, FiniteSetsExt

CONSTANTS
    Runs,
    Keys,        \* asset keys: what a spec, a style and a variant come to
    Motion,      \* the clips of each key
    Cost,        \* what each key is estimated to cost
    Demands,     \* what the runs may ask for: of each, [specs, approved, threshold, budget, width]
    MaxStarts,   \* bound: executions of the stage
    MaxCrashes,  \* bound: crashes
    MaxFaults    \* bound: operations that fail, and cancels

ASSUME MotionAssumption == DOMAIN Motion = Keys
ASSUME CostAssumption == Cost \in [Keys -> Nat]
ASSUME DemandsAssumption ==
    \A demand \in Demands : \A r \in Runs :
        /\ demand[r].specs \in Seq(Keys) /\ demand[r].specs # <<>>
        /\ demand[r].approved \in BOOLEAN
        /\ demand[r].threshold \in Nat /\ demand[r].budget \in Nat
        /\ demand[r].width \in Nat \ {0}

VARIABLES
    library,     \* the registered assets
    checkpoint,  \* of each run, key and step: the image its output comes from
    request,     \* what each run asks for
    stage,       \* the execution of each run's stage
    chain,       \* what each worker of each run is doing
    spent        \* how much of each bound has been used; images drawn

vars == <<library, checkpoint, request, stage, chain, spent>>

-----------------------------------------------------------------------------

\* PRODUCE_STEPS, but for the gate; register's checkpoint is never read, because what is
\* registered is not produced again.
Steps == {"generate", "matte", "split", "rig", "clips", "bake"}

\* The steps between generate and register, and the step whose output each starts from.
InputOf == [matte |-> "generate", split |-> "matte", rig |-> "split", clips |-> "none",
            bake |-> "split"]

After == [matte |-> "split", split |-> "rig", rig |-> "clips", clips |-> "bake",
          bake |-> "register"]

NoImages == [s \in Steps |-> 0]

\* An asset: its images, by the step that made them.
Asset == [key : Keys, made : [Steps -> Nat]]

Registered == {a.key : a \in library}

Workers == 1 .. Max({demand[r].width : demand \in Demands, r \in Runs})

Idle == [pc |-> "idle"]

\* A worker takes an item.  owned: the library had it by then; late: what it made after
\* the run was cancelled.
Chain(key) ==
    [pc |-> "reading", key |-> key, made |-> NoImages, owned |-> key \in Registered,
     late |-> 0]

NoStage == [pc |-> "idle", queue |-> <<>>, outcome |-> <<>>, aborted |-> FALSE]

Init ==
    /\ library = {}
    /\ checkpoint = [r \in Runs |-> [k \in Keys |-> NoImages]]
    /\ request \in Demands
    /\ stage = [r \in Runs |-> NoStage]
    /\ chain = [r \in Runs |-> [w \in Workers |-> Idle]]
    /\ spent = [starts |-> 0, crashes |-> 0, faults |-> 0, images |-> 0]

Fault == spent.faults < MaxFaults /\ spent' = [spent EXCEPT !.faults = @ + 1]

-----------------------------------------------------------------------------
\* The plan: one item a key, what is in the library, and what the budget allows.

Missing(r) == Filter(Dedupe(request[r].specs), Keys \ Registered)

\* What would take the plan past the budget is passed over, and what comes later and costs
\* less may still be in it.
Plan(r) ==
    FoldLeft(LAMBDA plan, k :
                IF plan.total + Cost[k] > request[r].budget THEN plan
                ELSE [keys |-> plan.keys \cup {k}, total |-> plan.total + Cost[k]],
             [keys |-> {}, total |-> 0], Missing(r))

Affordable(r) == Filter(Missing(r), Plan(r).keys)

Planned(r) ==
    [k \in ToSet(request[r].specs) \ ToSet(Affordable(r)) |->
        IF k \in Registered THEN "reused" ELSE "blocked"]

\* The runner calls execute while no other execution of the run's stage goes on.  That is
\* the runner's doing and not the stage's, and two resumes of one run that cross undo it:
\* see RunHasOneJob in PipelineRunner.
MayBegin(r) ==
    /\ stage[r].pc = "idle" /\ ~stage[r].aborted
    /\ spent.starts < MaxStarts

NeedsApproval(r) == Plan(r).total > request[r].threshold /\ ~request[r].approved

\* The estimate is refused, and the stage with it; the runner may resume.
IsRefused(r) ==
    /\ MayBegin(r)
    /\ spent' = [spent EXCEPT !.starts = @ + 1]
    /\ UNCHANGED <<library, checkpoint, request, stage, chain>>

AwaitsApproval(r) == NeedsApproval(r) /\ IsRefused(r)

\* The guard has less left than the plan comes to; what it has left is in Metering.
GuardRefuses(r) == ~NeedsApproval(r) /\ IsRefused(r)

\* mapWithConcurrency
Begin(r) ==
    /\ MayBegin(r) /\ ~NeedsApproval(r)
    /\ spent' = [spent EXCEPT !.starts = @ + 1]
    /\ stage' = [stage EXCEPT ![r] =
           [@ EXCEPT !.pc = "working", !.queue = Affordable(r), !.outcome = Planned(r)]]
    /\ UNCHANGED <<library, checkpoint, request, chain>>

-----------------------------------------------------------------------------
\* One asset.

Has(r, w, pc) == chain[r][w].pc = pc

\* Not the code: the signal is not looked at again.
BrokenIsCancelled(r, w) == stage[r].aborted /\ chain[r][w] = Idle

IsCancelled(r, w) == stage[r].aborted

\* The report, with what came of one key more.
Reported(report, key, outcome) ==
    [k \in DOMAIN report \cup {key} |-> IF k = key THEN outcome ELSE report[k]]

Ends(r, w, outcome) ==
    /\ chain' = [chain EXCEPT ![r][w] = Idle]
    /\ stage' = [stage EXCEPT ![r].outcome = Reported(@, chain[r][w].key, outcome)]

Skipped(r, w) ==
    /\ Ends(r, w, "skipped")
    /\ UNCHANGED <<library, checkpoint, request, spent>>

Fails(r, w) ==
    /\ chain[r][w].pc \in {"reading", "planning", "drawing", "register", "creating"}
                              \cup DOMAIN InputOf
    /\ Fault
    /\ Ends(r, w, "failed")
    /\ UNCHANGED <<library, checkpoint, request>>

Goes(r, w, pc) == chain' = [chain EXCEPT ![r][w].pc = pc]

\* The step's output, and on to the next.
Makes(r, w, step, image, next) ==
    LET c == chain[r][w]
    IN chain' = [chain EXCEPT ![r][w] =
           [c EXCEPT !.made[step] = image, !.pc = next,
                     !.late = IF stage[r].aborted THEN @ + 1 ELSE @]]

\* Not the code: the cursor is moved once too often, and after the item is produced.
BrokenRest(queue) == IF Len(queue) > 1 THEN Tail(Tail(queue)) ELSE <<>>

BrokenRestStays(queue) == queue

Rest(queue) == Tail(queue)

\* A worker takes the next item from the cursor, which nobody else is given.
TakeItem(r, w) ==
    LET key == Head(stage[r].queue)
    IN /\ stage[r].pc = "working" /\ stage[r].queue # <<>>
       /\ w <= request[r].width /\ chain[r][w] = Idle
       /\ \/ /\ ~IsCancelled(r, w)
             /\ chain' = [chain EXCEPT ![r][w] = Chain(key)]
             /\ stage' = [stage EXCEPT ![r].queue = Rest(@)]
          \/ /\ IsCancelled(r, w)
             /\ stage' = [stage EXCEPT ![r].queue = Rest(@),
                                       ![r].outcome = Reported(@, key, "skipped")]
             /\ UNCHANGED chain
       /\ UNCHANGED <<library, checkpoint, request, spent>>

\* Not the code: checkpoints go by their step alone, and by nothing.
BrokenMatches(r, w, step) == checkpoint[r][chain[r][w].key][step] # 0

BrokenNeverMatches(r, w, step) == FALSE

\* A checkpoint counts if it was made from what the step is about to start from.
Matches(r, w, step) ==
    LET c    == chain[r][w]
        held == checkpoint[r][c.key][step]
    IN held # 0 /\ (step \notin {"generate", "clips"} => held = c.made[InputOf[step]])

ReadGenerate(r, w) ==
    /\ Has(r, w, "reading")
    /\ \/ /\ Matches(r, w, "generate")
          /\ Makes(r, w, "generate", checkpoint[r][chain[r][w].key]["generate"], "matte")
       \/ ~Matches(r, w, "generate") /\ Goes(r, w, "planning")
    /\ UNCHANGED <<library, checkpoint, request, stage, spent>>

\* Not the code: the plan at the start is all.
BrokenIsOwned(key) == FALSE

IsOwned(key) == key \in Registered

\* GenerateAssetVersionUseCase plans its key again: another run may have registered it.
PlanAgain(r, w) ==
    /\ Has(r, w, "planning")
    /\ \/ /\ IsOwned(chain[r][w].key)
          /\ Ends(r, w, "reused")
       \/ ~IsOwned(chain[r][w].key) /\ Goes(r, w, "drawing") /\ UNCHANGED stage
    /\ UNCHANGED <<library, checkpoint, request, spent>>

\* The image answers and is stored, with a record of it.
Draw(r, w) ==
    /\ Has(r, w, "drawing")
    /\ spent' = [spent EXCEPT !.images = @ + 1]
    /\ Makes(r, w, "generate", spent'.images, "marking")
    /\ UNCHANGED <<library, checkpoint, request, stage>>

\* The image answers and cannot be stored: it is paid for and lost.
DrawIsLost(r, w) ==
    /\ Has(r, w, "drawing")
    /\ spent.faults < MaxFaults
    /\ spent' = [spent EXCEPT !.images = @ + 1, !.faults = @ + 1]
    /\ Ends(r, w, "failed")
    /\ UNCHANGED <<library, checkpoint, request>>

\* A checkpoint that cannot be written is logged, and the chain goes on.
Writes(r, key, step, image) ==
    \/ checkpoint' = [checkpoint EXCEPT ![r][key][step] = image] /\ UNCHANGED spent
    \/ Fault /\ UNCHANGED checkpoint

MarkGenerate(r, w) ==
    LET c == chain[r][w]
    IN /\ Has(r, w, "marking")
       /\ Writes(r, c.key, "generate", c.made["generate"])
       /\ Goes(r, w, "matte")
       /\ UNCHANGED <<library, request, stage>>

\* What the step makes from its input, or from nothing.
Output(c, step) == IF step = "clips" THEN 1 ELSE c.made[InputOf[step]]

\* matte, split, rig, clips, bake: of the run's own, so one step, unless it is cancelled.
Step(r, w) ==
    LET c    == chain[r][w]
        step == c.pc
    IN /\ step \in DOMAIN InputOf
       /\ \/ IsCancelled(r, w) /\ Skipped(r, w)
          \/ /\ ~IsCancelled(r, w) /\ Matches(r, w, step)
             /\ Makes(r, w, step, checkpoint[r][c.key][step], After[step])
             /\ UNCHANGED <<library, checkpoint, request, stage, spent>>
          \/ /\ ~IsCancelled(r, w) /\ ~Matches(r, w, step)
             /\ Makes(r, w, step, Output(c, step), After[step])
             /\ Writes(r, c.key, step, Output(c, step))
             /\ UNCHANGED <<library, request, stage>>

-----------------------------------------------------------------------------
\* RegisterAssetVersionUseCase looks for the key, and creates what it did not find.

FindKey(r, w) ==
    /\ Has(r, w, "register")
    /\ \/ IsCancelled(r, w) /\ Skipped(r, w)
       \/ /\ ~IsCancelled(r, w) /\ chain[r][w].key \in Registered
          /\ Ends(r, w, "taken")
          /\ UNCHANGED <<library, checkpoint, request, spent>>
       \/ /\ ~IsCancelled(r, w) /\ chain[r][w].key \notin Registered
          /\ Goes(r, w, "creating")
          /\ UNCHANGED <<library, checkpoint, request, stage, spent>>

\* Not the code: the key has no unique index.
BrokenIsTaken(key) == \E a \in library : a.key # key /\ Motion[a.key] = Motion[key]

\* A key is unique, and so is the id of a clip, which is a hash of its content.
IsTaken(key) == \E a \in library : a.key = key \/ Motion[a.key] = Motion[key]

\* create, in one transaction, and the record of it.
Create(r, w) ==
    LET c == chain[r][w]
    IN /\ Has(r, w, "creating")
       /\ \/ /\ IsTaken(c.key)
             /\ Ends(r, w, "taken")
             /\ UNCHANGED <<library, spent>>
          \/ /\ ~IsTaken(c.key)
             /\ library' = library \cup {[key |-> c.key, made |-> c.made]}
             /\ \/ Ends(r, w, "registered") /\ UNCHANGED spent
                \/ Fault /\ Ends(r, w, "failed")
       /\ UNCHANGED <<checkpoint, request>>

-----------------------------------------------------------------------------
\* The stage.

\* Every worker has come to the end of the queue.
End(r) ==
    /\ stage[r].pc = "working" /\ stage[r].queue = <<>>
    /\ \A w \in Workers : chain[r][w] = Idle
    /\ stage' = [stage EXCEPT ![r].pc = "done"]
    /\ UNCHANGED <<library, checkpoint, request, chain, spent>>

Cancel(r) ==
    /\ stage[r].pc = "working" /\ ~stage[r].aborted
    /\ Fault
    /\ stage' = [stage EXCEPT ![r].aborted = TRUE]
    /\ UNCHANGED <<library, checkpoint, request, chain>>

\* The process dies.  Its runs can be begun again, but for those that were cancelled.
Crash ==
    /\ spent.crashes < MaxCrashes
    /\ \E r \in Runs : stage[r].pc = "working"
    /\ spent' = [spent EXCEPT !.crashes = @ + 1]
    /\ stage' = [r \in Runs |->
           IF stage[r].pc = "working"
           THEN [NoStage EXCEPT !.aborted = stage[r].aborted] ELSE stage[r]]
    /\ chain' = [r \in Runs |-> [w \in Workers |-> Idle]]
    /\ UNCHANGED <<library, checkpoint, request>>

Works(r, w) ==
    \/ TakeItem(r, w)
    \/ Fails(r, w)
    \/ ReadGenerate(r, w) \/ PlanAgain(r, w) \/ Draw(r, w) \/ DrawIsLost(r, w)
    \/ MarkGenerate(r, w) \/ Step(r, w) \/ FindKey(r, w) \/ Create(r, w)

Next ==
    \/ \E r \in Runs, w \in Workers : Works(r, w)
    \/ \E r \in Runs :
          AwaitsApproval(r) \/ GuardRefuses(r) \/ Begin(r) \/ End(r) \/ Cancel(r)
    \/ Crash

Spec == Init /\ [][Next]_vars

-----------------------------------------------------------------------------
\* Properties.

\* The variables have their types; no two workers of a run have the same item, and none
\* has one that is queued or that is already answered for.
TypeOK ==
    /\ library \subseteq Asset
    /\ checkpoint \in [Runs -> [Keys -> [Steps -> Nat]]]
    /\ \A r \in Runs :
          /\ ToSet(stage[r].queue) \cap DOMAIN stage[r].outcome = {}
          /\ \A w \in Workers : chain[r][w] # Idle =>
                /\ chain[r][w].key \notin ToSet(stage[r].queue) \cup DOMAIN stage[r].outcome
                /\ \A v \in Workers \ {w} :
                      chain[r][v] # Idle => chain[r][v].key # chain[r][w].key

\* One asset per key, whichever runs make it at the same time and wherever they stop
\* (schema/assets.ts: "a duplicate insert fails at the database level even if a use-case
\* forgets to look first").
OneAssetPerKey == \A a, b \in library : a.key = b.key => a = b

\* What is registered is one take: its matte, parts, rig and sheets all come from the image
\* it names as its source, even if some of them were made before a crash and the image was
\* drawn again after it ("so 'already ran' never stands in for 'already ran on this'").
AssetIsOneTake ==
    \A a \in library : \A step \in Steps \ {"clips"} : a.made[step] = a.made["generate"]

\* A run pays for no image of which it has a checkpoint: neither a crash, a failed write of
\* a later step nor another run makes it draw again ("a checkpoint that could not be
\* written costs a re-run next time and nothing else").  It is so while the runner executes
\* the stage of a run once at a time, see MayBegin.
NothingIsPaidTwice ==
    [][\A r \in Runs, w \in Workers :
          Has(r, w, "drawing") /\ spent'.images > spent.images /\ ~Has(r, w, "drawing")'
              => checkpoint[r][chain[r][w].key]["generate"] = 0]_vars

\* An asset the library had when a worker came to it is not drawn, though it was missing
\* when the run was planned (generate-asset-version.ts: a cache hit spends nothing).
NothingOwnedIsDrawn ==
    \A r \in Runs, w \in Workers : Has(r, w, "drawing") => ~chain[r][w].owned

\* A cancelled chain ends with the step it is in: it makes at most one thing more.
CancelledChainsStop ==
    \A r \in Runs, w \in Workers : chain[r][w] # Idle => chain[r][w].late <= 1

\* A stage that is done accounts for every asset it was asked for: what it calls
\* registered or reused is in the library, and what is not there is named with a reason.
EveryAssetIsAccountedFor ==
    /\ TypeOK
    /\ \A r \in Runs : stage[r].pc = "done" =>
          \A k \in ToSet(request[r].specs) :
              /\ k \in DOMAIN stage[r].outcome
              /\ stage[r].outcome[k] \in {"registered", "reused"} => k \in Registered

\* What comments of the code say and the code does not do.

\* drizzle-asset-repository.ts, duplicateKey: "An asset is already registered under this
\* dedup key."  It is said of every broken constraint, and a clip of another key's asset
\* breaks one: "two assets of the same archetype under the same style share one `idle`"
\* (derive-clips.ts), and only the first of them can be registered.
TakenKeyIsRegistered ==
    \A r \in Runs : \A k \in DOMAIN stage[r].outcome :
        stage[r].outcome[k] = "taken" => k \in Registered

=============================================================================
