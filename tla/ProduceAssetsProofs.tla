------------------------ MODULE ProduceAssetsProofs ------------------------
(***************************************************************************)
(* Proofs about ProduceAssets, for any runs, keys, demands and bounds.     *)
(*                                                                         *)
(* Two invariants.  Inv is about the images: what a chain has made, and    *)
(* what the library holds; it depends on nothing that the plan puts into   *)
(* the queues.  Books is about the keys: where each of those a run asked   *)
(* for is, in the queue, with a worker, or in the report.                  *)
(***************************************************************************)
EXTENDS ProduceAssets, FoldLemmas

-----------------------------------------------------------------------------
\* The shape of the chains and of what they have made.

IsChain(c) ==
    /\ DOMAIN c = {"pc", "key", "made", "owned", "late"}
    /\ DOMAIN c.made = Steps
    /\ c.late \in Nat

Shape ==
    /\ DOMAIN chain = Runs /\ DOMAIN stage = Runs
    /\ \A r \in Runs :
          /\ DOMAIN stage[r] = {"pc", "queue", "outcome", "aborted"}
          /\ stage[r].aborted \in BOOLEAN
          /\ DOMAIN chain[r] = Workers
          /\ \A w \in Workers : chain[r][w] = Idle \/ IsChain(chain[r][w])

\* Where a chain is, and which of its outputs come from the image it has by then.
Later(pc) ==
    CASE pc = "split" -> {"matte"}
      [] pc = "rig" -> {"matte", "split"}
      [] pc \in {"clips", "bake"} -> {"matte", "split", "rig"}
      [] pc \in {"register", "creating"} -> {"matte", "split", "rig", "bake"}
      [] OTHER -> {}

OneTake(c) == \A s \in Later(c.pc) : c.made[s] = c.made["generate"]

\* What the library had when a chain began is still there, and is not being drawn.
OwnedIsKept(c) ==
    /\ c.owned => c.key \in Registered
    /\ c.pc = "drawing" => ~c.owned

\* Before its first output a chain has made nothing late, nor has one of a run that was not
\* cancelled; after it, every step looks at the signal.
StopsInTime(c, aborted) ==
    /\ c.late <= 1
    /\ c.pc \in {"reading", "planning", "drawing"} \/ ~aborted => c.late = 0

ChainInv(c, aborted) == OneTake(c) /\ OwnedIsKept(c) /\ StopsInTime(c, aborted)

Inv ==
    /\ Shape
    /\ OneAssetPerKey
    /\ AssetIsOneTake
    /\ \A r \in Runs, w \in Workers :
          chain[r][w] # Idle => ChainInv(chain[r][w], stage[r].aborted)

-----------------------------------------------------------------------------
\* Steps of one chain.

\* The chain goes on as c, or ends with it; no other chain of any run does anything.
Becomes(r, w, c) == chain' = [chain EXCEPT ![r][w] = c]

\* What most steps leave alone: the library only grows, and nobody is cancelled.
Undisturbed ==
    /\ library \subseteq library'
    /\ DOMAIN stage' = Runs
    /\ \A r \in Runs :
          /\ DOMAIN stage'[r] = {"pc", "queue", "outcome", "aborted"}
          /\ stage'[r].aborted = stage[r].aborted

\* What the library had is still there.
LEMMA OwnedStays ==
    ASSUME library \subseteq library'
    PROVE  Registered \subseteq Registered'
  BY DEF Registered

\* A step of one chain keeps the invariant of all of them if it keeps its own.
LEMMA OneChainMoves ==
    ASSUME Inv, Undisturbed, NEW r \in Runs, NEW w \in Workers, NEW c,
           Becomes(r, w, c),
           c = Idle \/ (/\ IsChain(c) /\ OneTake(c) /\ StopsInTime(c, stage[r].aborted)
                       /\ (c.owned => c.key \in Registered)
                       /\ (c.pc = "drawing" => ~c.owned)),
           (OneAssetPerKey /\ AssetIsOneTake)'
    PROVE  Inv'
PROOF
  <1>1. Registered \subseteq Registered'
    BY OwnedStays DEF Undisturbed
  <1>2. /\ DOMAIN chain' = Runs
        /\ \A q \in Runs : DOMAIN chain'[q] = Workers
        /\ \A q \in Runs, v \in Workers :
              chain'[q][v] = IF q = r /\ v = w THEN c ELSE chain[q][v]
    BY DEF Inv, Shape, Becomes
  <1>3. Shape'
    BY <1>2 DEF Inv, Shape, Undisturbed
  <1>4. ASSUME NEW q \in Runs, NEW v \in Workers, chain'[q][v] # Idle
        PROVE  ChainInv(chain[q][v], stage[q].aborted)'
    <2>1. stage'[q].aborted = stage[q].aborted
      BY DEF Undisturbed
    <2>2. CASE q = r /\ v = w
      BY <1>1, <1>2, <1>4, <2>1, <2>2 DEF ChainInv, OneTake, StopsInTime, OwnedIsKept
    <2>3. CASE ~(q = r /\ v = w)
      BY <1>1, <1>2, <1>4, <2>1, <2>3 DEF Inv, ChainInv, OneTake, StopsInTime, OwnedIsKept
    <2> QED
      BY <2>2, <2>3
  <1> QED
    BY <1>3, <1>4 DEF Inv

\* An image or an output is made, of which OneTake and StopsInTime still hold.
LEMMA MadeInv ==
    ASSUME Inv, NEW r \in Runs, NEW w \in Workers, NEW step \in Steps, NEW image, NEW next,
           Makes(r, w, step, image, next), UNCHANGED <<library, stage>>,
           chain[r][w] # Idle, next \notin {"reading", "planning", "drawing"},
           ~stage[r].aborted \/ chain[r][w].pc \in {"reading", "drawing"},
           \A s \in Later(next) :
              (IF s = step THEN image ELSE chain[r][w].made[s])
                 = (IF step = "generate" THEN image ELSE chain[r][w].made["generate"])
    PROVE  Inv'
PROOF
  <1> DEFINE old == chain[r][w]
             c == [old EXCEPT !.made[step] = image, !.pc = next,
                              !.late = IF stage[r].aborted THEN @ + 1 ELSE @]
  <1>1. /\ IsChain(old) /\ OneTake(old) /\ StopsInTime(old, stage[r].aborted)
        /\ OwnedIsKept(old)
    BY DEF Inv, Shape, ChainInv
  <1>2. IsChain(c) /\ c.pc = next /\ c.key = old.key /\ c.owned = old.owned
    BY <1>1 DEF IsChain
  <1>3. \A s \in Steps : c.made[s] = IF s = step THEN image ELSE old.made[s]
    BY <1>1 DEF IsChain
  <1>4. c.late = IF stage[r].aborted THEN old.late + 1 ELSE old.late
    BY <1>1 DEF IsChain
  <1>5. OneTake(c)
    <2>1. Later(next) \subseteq Steps /\ "generate" \in Steps
      BY DEF Later, Steps
    <2> QED
      BY <1>2, <1>3, <2>1 DEF OneTake
  <1>6. StopsInTime(c, stage[r].aborted)
    BY <1>1, <1>2, <1>4 DEF StopsInTime, IsChain, Inv, Shape
  <1>7. Becomes(r, w, c)
    BY DEF Makes, Becomes
  <1>8. Undisturbed /\ (OneAssetPerKey /\ AssetIsOneTake)'
    BY DEF Undisturbed, Inv, Shape, OneAssetPerKey, AssetIsOneTake
  <1> HIDE DEF c
  <1> QED
    BY <1>1, <1>2, <1>5, <1>6, <1>7, <1>8, OneChainMoves DEF OwnedIsKept

\* A chain goes to another place in its order and makes nothing.
LEMMA GoesInv ==
    ASSUME Inv, NEW r \in Runs, NEW w \in Workers, NEW pc,
           Goes(r, w, pc), UNCHANGED <<library, stage>>, chain[r][w] # Idle,
           Later(pc) \subseteq Later(chain[r][w].pc),
           pc \in {"reading", "planning", "drawing"}
              => chain[r][w].pc \in {"reading", "planning", "drawing"},
           pc = "drawing" => chain[r][w].key \notin Registered
    PROVE  Inv'
PROOF
  <1> DEFINE old == chain[r][w]
             c == [old EXCEPT !.pc = pc]
  <1>1. /\ IsChain(old) /\ OneTake(old) /\ StopsInTime(old, stage[r].aborted)
        /\ OwnedIsKept(old)
    BY DEF Inv, Shape, ChainInv
  <1>2. /\ IsChain(c) /\ c.pc = pc /\ c.key = old.key /\ c.owned = old.owned
        /\ c.made = old.made /\ c.late = old.late
    BY <1>1 DEF IsChain
  <1>3. OneTake(c) /\ StopsInTime(c, stage[r].aborted)
    BY <1>1, <1>2 DEF OneTake, StopsInTime
  <1>4. Becomes(r, w, c)
    BY DEF Goes, Becomes, Inv, Shape
  <1>5. Undisturbed /\ (OneAssetPerKey /\ AssetIsOneTake)'
    BY DEF Undisturbed, Inv, Shape, OneAssetPerKey, AssetIsOneTake
  <1> HIDE DEF c
  <1> QED
    BY <1>1, <1>2, <1>3, <1>4, <1>5, OneChainMoves DEF OwnedIsKept

\* A chain ends; what it may have registered is one take, under a key nobody had.
LEMMA EndsInv ==
    ASSUME Inv, NEW r \in Runs, NEW w \in Workers, NEW outcome,
           Ends(r, w, outcome), library \subseteq library',
           (OneAssetPerKey /\ AssetIsOneTake)'
    PROVE  Inv'
  <1>1. Undisturbed
    BY DEF Undisturbed, Ends, Inv, Shape
  <1>2. Becomes(r, w, Idle)
    BY DEF Ends, Becomes
  <1> QED
    BY <1>1, <1>2, OneChainMoves

-----------------------------------------------------------------------------
\* The actions.

LEMMA InitInv == Init => Inv
PROOF
  <1> SUFFICES ASSUME Init PROVE Inv
    OBVIOUS
  <1>1. \A r \in Runs, w \in Workers : chain[r][w] = Idle
    BY DEF Init
  <1>2. /\ DOMAIN chain = Runs /\ DOMAIN stage = Runs
        /\ \A r \in Runs : DOMAIN chain[r] = Workers /\ stage[r] = NoStage
    BY DEF Init
  <1>3. DOMAIN NoStage = {"pc", "queue", "outcome", "aborted"} /\ NoStage.aborted \in BOOLEAN
    BY DEF NoStage
  <1>4. Shape
    BY <1>1, <1>2, <1>3 DEF Shape
  <1>5. OneAssetPerKey /\ AssetIsOneTake
    BY DEF Init, OneAssetPerKey, AssetIsOneTake
  <1> QED
    BY <1>1, <1>4, <1>5 DEF Inv

\* A chain that begins has made nothing, and knows whether the library has its key.
LEMMA TakeItemInv ==
    ASSUME Inv, NEW r \in Runs, NEW w \in Workers, TakeItem(r, w)
    PROVE  Inv'
PROOF
  <1> DEFINE key == Head(stage[r].queue)
             c == Chain(key)
  <1>1. Undisturbed /\ (OneAssetPerKey /\ AssetIsOneTake)'
    BY DEF TakeItem, Undisturbed, Inv, Shape, OneAssetPerKey, AssetIsOneTake
  <1>2. CASE UNCHANGED chain
    <2>1. Shape'
      BY <1>1, <1>2 DEF Undisturbed, Inv, Shape
    <2>2. Registered' = Registered
      BY DEF TakeItem, Registered
    <2> QED
      BY <1>1, <1>2, <2>1, <2>2
      DEF Inv, Undisturbed, ChainInv, OneTake, OwnedIsKept, StopsInTime
  <1>3. CASE Becomes(r, w, c)
    <2>1. /\ IsChain(c) /\ OneTake(c) /\ StopsInTime(c, stage[r].aborted)
          /\ (c.owned => c.key \in Registered) /\ c.pc = "reading"
      <3>1. /\ c.pc = "reading" /\ c.late = 0 /\ c.made = NoImages /\ c.key = key
            /\ (c.owned => key \in Registered)
            /\ DOMAIN c = {"pc", "key", "made", "owned", "late"}
        BY DEF Chain
      <3>2. DOMAIN NoImages = Steps
        BY DEF NoImages
      <3>3. Later("reading") = {}
        BY DEF Later
      <3> HIDE DEF c
      <3>4. OneTake(c)
        BY <3>1, <3>3 DEF OneTake
      <3> QED
        BY <3>1, <3>2, <3>4 DEF IsChain, StopsInTime
    <2> HIDE DEF c
    <2> QED
      BY <1>1, <1>3, <2>1, OneChainMoves
  <1> QED
    BY <1>2, <1>3 DEF TakeItem, Becomes

LEMMA ReadGenerateInv ==
    ASSUME Inv, NEW r \in Runs, NEW w \in Workers, ReadGenerate(r, w)
    PROVE  Inv'
PROOF
  <1>1. chain[r][w].pc = "reading" /\ chain[r][w] # Idle
    BY DEF ReadGenerate, Has, Idle
  <1>2. CASE Makes(r, w, "generate", checkpoint[r][chain[r][w].key]["generate"], "matte")
    <2>1. "generate" \in Steps /\ Later("matte") = {} /\ Later("reading") = {}
      BY DEF Steps, Later
    <2>2. UNCHANGED <<library, stage, request>>
      BY DEF ReadGenerate
    <2> QED
      BY <1>1, <1>2, <2>1, <2>2, MadeInv
  <1>3. CASE Goes(r, w, "planning")
    BY <1>1, <1>3, GoesInv DEF ReadGenerate, Later
  <1> QED
    BY <1>2, <1>3 DEF ReadGenerate

LEMMA PlanAgainInv ==
    ASSUME Inv, NEW r \in Runs, NEW w \in Workers, PlanAgain(r, w)
    PROVE  Inv'
PROOF
  <1>1. chain[r][w].pc = "planning" /\ chain[r][w] # Idle
    BY DEF PlanAgain, Has, Idle
  <1>2. CASE Ends(r, w, "reused")
    BY <1>2, EndsInv DEF PlanAgain, Inv, OneAssetPerKey, AssetIsOneTake
  <1>3. CASE Goes(r, w, "drawing") /\ ~IsOwned(chain[r][w].key) /\ UNCHANGED stage
    BY <1>1, <1>3, GoesInv DEF PlanAgain, IsOwned, Later
  <1> QED
    BY <1>2, <1>3 DEF PlanAgain

LEMMA DrawInv ==
    ASSUME Inv, NEW r \in Runs, NEW w \in Workers, Draw(r, w)
    PROVE  Inv'
PROOF
  <1>1. chain[r][w].pc = "drawing" /\ chain[r][w] # Idle
    BY DEF Draw, Has, Idle
  <1>2. Makes(r, w, "generate", spent'.images, "marking")
    BY DEF Draw
  <1> QED
    BY <1>1, <1>2, MadeInv DEF Draw, Steps, Later

\* What a step makes is of the image that its input is of, whether it is read back or made.
LEMMA StepInv ==
    ASSUME Inv, NEW r \in Runs, NEW w \in Workers, Step(r, w)
    PROVE  Inv'
PROOF
  <1> DEFINE c == chain[r][w]
             step == c.pc
  <1>1. step \in {"matte", "split", "rig", "clips", "bake"} /\ c # Idle
    BY DEF Step, InputOf, Idle
  <1>2. OneTake(c)
    BY <1>1 DEF Inv, ChainInv
  <1>3. CASE Skipped(r, w)
    BY <1>3, EndsInv DEF Skipped, Inv, OneAssetPerKey, AssetIsOneTake
  <1>4. ASSUME NEW image, ~stage[r].aborted, UNCHANGED <<library, stage>>,
               Makes(r, w, step, image, After[step]),
               step # "clips" => image = c.made[InputOf[step]]
        PROVE  Inv'
    <2>1. After[step] \notin {"reading", "planning", "drawing"} /\ step \in Steps
      BY <1>1 DEF After, Steps
    <2>2. \A s \in Later(After[step]) :
             (IF s = step THEN image ELSE c.made[s])
                = (IF step = "generate" THEN image ELSE c.made["generate"])
      <3>1. CASE step = "matte"
        BY <1>2, <1>4, <3>1 DEF OneTake, Later, After, InputOf
      <3>2. CASE step = "split"
        BY <1>2, <1>4, <3>2 DEF OneTake, Later, After, InputOf
      <3>3. CASE step = "rig"
        BY <1>2, <1>4, <3>3 DEF OneTake, Later, After, InputOf
      <3>4. CASE step = "clips"
        BY <1>2, <1>4, <3>4 DEF OneTake, Later, After, InputOf
      <3>5. CASE step = "bake"
        BY <1>2, <1>4, <3>5 DEF OneTake, Later, After, InputOf
      <3> QED
        BY <1>1, <3>1, <3>2, <3>3, <3>4, <3>5
    <2> QED
      BY <1>1, <1>4, <2>1, <2>2, MadeInv
  <1>5. CASE ~IsCancelled(r, w) /\ Matches(r, w, step)
               /\ Makes(r, w, step, checkpoint[r][c.key][step], After[step])
               /\ UNCHANGED <<library, stage>>
    BY <1>1, <1>4, <1>5 DEF Matches, IsCancelled
  <1>6. CASE ~IsCancelled(r, w) /\ Makes(r, w, step, Output(c, step), After[step])
               /\ UNCHANGED <<library, stage>>
    BY <1>4, <1>6 DEF Output, IsCancelled
  <1> QED
    BY <1>3, <1>5, <1>6 DEF Step

LEMMA MarkGenerateInv ==
    ASSUME Inv, NEW r \in Runs, NEW w \in Workers, MarkGenerate(r, w)
    PROVE  Inv'
PROOF
  <1>1. chain[r][w] # Idle /\ Goes(r, w, "matte") /\ UNCHANGED <<library, stage>>
    BY DEF MarkGenerate, Has, Idle
  <1>2. Later("matte") = {}
    BY DEF Later
  <1> QED
    BY <1>1, <1>2, GoesInv

LEMMA FindKeyInv ==
    ASSUME Inv, NEW r \in Runs, NEW w \in Workers, FindKey(r, w)
    PROVE  Inv'
PROOF
  <1>1. chain[r][w].pc = "register" /\ chain[r][w] # Idle /\ UNCHANGED library
    BY DEF FindKey, Has, Idle, Skipped
  <1>2. CASE \E outcome : Ends(r, w, outcome)
    BY <1>1, <1>2, EndsInv DEF Inv, OneAssetPerKey, AssetIsOneTake
  <1>3. CASE Goes(r, w, "creating") /\ UNCHANGED stage
    <2>1. Later("creating") \subseteq Later("register")
      BY DEF Later
    <2> QED
      BY <1>1, <1>3, <2>1, GoesInv
  <1> QED
    BY <1>2, <1>3 DEF FindKey, Skipped

\* What is registered is what the chain has made, under a key that is not taken.
LEMMA CreateInv ==
    ASSUME Inv, NEW r \in Runs, NEW w \in Workers, Create(r, w)
    PROVE  Inv'
PROOF
  <1> DEFINE c == chain[r][w]
             asset == [key |-> c.key, made |-> c.made]
  <1>1. c.pc = "creating" /\ c # Idle
    BY DEF Create, Has, Idle
  <1>2. PICK outcome : Ends(r, w, outcome)
    BY DEF Create
  <1>3. CASE UNCHANGED library
    BY <1>2, <1>3, EndsInv DEF Inv, OneAssetPerKey, AssetIsOneTake
  <1>4. CASE ~IsTaken(c.key) /\ library' = library \cup {asset}
    <2>1. OneAssetPerKey'
      <3>1. \A a \in library : a.key # c.key
        BY <1>4 DEF IsTaken
      <3>2. asset.key = c.key
        OBVIOUS
      <3> HIDE DEF asset
      <3> QED
        BY <1>4, <3>1, <3>2 DEF Inv, OneAssetPerKey
    <2>2. AssetIsOneTake'
      <3>1. OneTake(c)
        BY <1>1 DEF Inv, ChainInv
      <3>2. Steps \ {"clips"} = Later("creating") \cup {"generate"}
        BY DEF Steps, Later
      <3>3. \A s \in Steps \ {"clips"} : asset.made[s] = asset.made["generate"]
        BY <1>1, <3>1, <3>2 DEF OneTake
      <3> HIDE DEF asset
      <3> QED
        BY <1>4, <3>3 DEF Inv, AssetIsOneTake
    <2> QED
      BY <1>2, <1>4, <2>1, <2>2, EndsInv
  <1> QED
    BY <1>3, <1>4 DEF Create

\* Everything that ends a chain and registers nothing.
LEMMA FailsInv ==
    ASSUME Inv, NEW r \in Runs, NEW w \in Workers, Fails(r, w) \/ DrawIsLost(r, w)
    PROVE  Inv'
  BY EndsInv DEF Fails, DrawIsLost, Inv, OneAssetPerKey, AssetIsOneTake

LEMMA WorksInv ==
    ASSUME Inv, NEW r \in Runs, NEW w \in Workers, Works(r, w)
    PROVE  Inv'
  BY TakeItemInv, FailsInv, ReadGenerateInv, PlanAgainInv, DrawInv, MarkGenerateInv, StepInv,
     FindKeyInv, CreateInv DEF Works

\* No chain moves: a cancel finds chains that have made nothing late.
LEMMA StageInv ==
    ASSUME Inv, UNCHANGED <<library, chain>>, DOMAIN stage' = Runs,
           \A r \in Runs :
              /\ DOMAIN stage'[r] = {"pc", "queue", "outcome", "aborted"}
              /\ stage'[r].aborted \in BOOLEAN
              /\ stage[r].aborted => stage'[r].aborted
    PROVE  Inv'
PROOF
  <1>1. Shape' /\ Registered' = Registered
    BY DEF Inv, Shape, Registered
  <1>2. (OneAssetPerKey /\ AssetIsOneTake)'
    BY DEF Inv, OneAssetPerKey, AssetIsOneTake
  <1>3. ASSUME NEW r \in Runs, NEW w \in Workers, chain'[r][w] # Idle
        PROVE  ChainInv(chain[r][w], stage[r].aborted)'
    BY <1>1, <1>3 DEF Inv, ChainInv, OneTake, OwnedIsKept, StopsInTime
  <1> QED
    BY <1>1, <1>2, <1>3 DEF Inv

LEMMA CrashInv ==
    ASSUME Inv, Crash
    PROVE  Inv'
PROOF
  <1>1. /\ DOMAIN stage' = Runs /\ DOMAIN chain' = Runs
        /\ \A r \in Runs : /\ DOMAIN chain'[r] = Workers
                           /\ \A w \in Workers : chain'[r][w] = Idle
    BY DEF Crash
  <1>2. \A r \in Runs : /\ DOMAIN stage'[r] = {"pc", "queue", "outcome", "aborted"}
                        /\ stage'[r].aborted \in BOOLEAN
    <2> TAKE r \in Runs
    <2>1. CASE stage'[r] = stage[r]
      BY <2>1 DEF Inv, Shape
    <2>2. CASE stage'[r] = [NoStage EXCEPT !.aborted = stage[r].aborted]
      BY <2>2 DEF Inv, Shape, NoStage
    <2> QED
      BY <2>1, <2>2 DEF Crash
  <1>3. Shape'
    BY <1>1, <1>2 DEF Shape
  <1>4. (OneAssetPerKey /\ AssetIsOneTake)'
    BY DEF Crash, Inv, OneAssetPerKey, AssetIsOneTake
  <1> QED
    BY <1>1, <1>3, <1>4 DEF Inv

LEMMA NextInv == Inv /\ [Next]_vars => Inv'
PROOF
  <1> SUFFICES ASSUME Inv, [Next]_vars PROVE Inv'
    OBVIOUS
  <1>1. CASE \E r \in Runs, w \in Workers : Works(r, w)
    BY <1>1, WorksInv
  <1>2. ASSUME NEW r \in Runs,
               AwaitsApproval(r) \/ GuardRefuses(r) \/ Begin(r) \/ End(r) \/ Cancel(r)
        PROVE  Inv'
    <2>1. /\ UNCHANGED <<library, chain>> /\ DOMAIN stage' = Runs
          /\ \A q \in Runs :
                /\ DOMAIN stage'[q] = {"pc", "queue", "outcome", "aborted"}
                /\ stage'[q].aborted \in BOOLEAN
                /\ stage[q].aborted => stage'[q].aborted
      <3>1. CASE AwaitsApproval(r) \/ GuardRefuses(r)
        BY <3>1 DEF AwaitsApproval, GuardRefuses, IsRefused, Inv, Shape
      <3>2. CASE Begin(r)
        BY <3>2 DEF Begin, Inv, Shape
      <3>3. CASE End(r)
        BY <3>3 DEF End, Inv, Shape
      <3>4. CASE Cancel(r)
        BY <3>4 DEF Cancel, Inv, Shape
      <3> QED
        BY <1>2, <3>1, <3>2, <3>3, <3>4
    <2> QED
      BY <2>1, StageInv
  <1>3. CASE Crash
    BY <1>3, CrashInv
  <1>4. CASE UNCHANGED vars
    BY <1>4, StageInv DEF vars, Inv, Shape
  <1> QED
    BY <1>1, <1>2, <1>3, <1>4 DEF Next

LEMMA InvHolds == Spec => []Inv
  BY InitInv, NextInv, PTL DEF Spec

-----------------------------------------------------------------------------
\* The queue and the report.  Every asset of a run that works is queued, in the hands of one
\* worker, or answered for, and it is one of these only.

InWork(chains) == {chains[w].key : w \in {v \in Workers : chains[v] # Idle}}

Accounted(s, chains, specs, owned) ==
    /\ s.pc \in {"idle", "working", "done"}
    /\ s.queue \in Seq(Keys) /\ Distinct(s.queue)
    /\ ToSet(s.queue) \cap DOMAIN s.outcome = {}
    /\ \A w \in Workers : chains[w] # Idle =>
          /\ chains[w].key \notin ToSet(s.queue) \cup DOMAIN s.outcome
          /\ \A v \in Workers \ {w} : chains[v] # Idle => chains[v].key # chains[w].key
    /\ s.pc # "working" => \A w \in Workers : chains[w] = Idle
    /\ s.pc = "working" =>
          specs \subseteq ToSet(s.queue) \cup InWork(chains) \cup DOMAIN s.outcome
    /\ s.pc = "done" => specs \subseteq DOMAIN s.outcome
    /\ \A k \in DOMAIN s.outcome : s.outcome[k] \in {"registered", "reused"} => k \in owned

\* A worker that is about to draw has no image to go back to.
Unpaid(c, saved) == c.pc \in {"planning", "drawing"} => saved[c.key]["generate"] = 0

Books ==
    /\ library \subseteq Asset
    /\ checkpoint \in [Runs -> [Keys -> [Steps -> Nat]]]
    /\ request \in Demands
    /\ spent \in [starts : Nat, crashes : Nat, faults : Nat, images : Nat]
    /\ \A r \in Runs :
          /\ Accounted(stage[r], chain[r], ToSet(request[r].specs), Registered)
          /\ \A w \in Workers : chain[r][w] # Idle =>
                /\ chain[r][w].key \in Keys /\ chain[r][w].made \in [Steps -> Nat]
                /\ Unpaid(chain[r][w], checkpoint[r])

\* The first of a list without repetitions, and the others.
LEMMA HeadAndTail ==
    ASSUME NEW q \in Seq(Keys), Distinct(q), q # <<>>
    PROVE  /\ Head(q) \in Keys /\ Tail(q) \in Seq(Keys) /\ Distinct(Tail(q))
           /\ ToSet(q) = ToSet(Tail(q)) \cup {Head(q)}
           /\ Head(q) \notin ToSet(Tail(q))
PROOF
  <1>1. /\ Len(q) \in Nat /\ Len(q) >= 1 /\ DOMAIN q = 1 .. Len(q)
        /\ Head(q) = q[1] /\ Tail(q) \in Seq(Keys) /\ Head(q) \in Keys
        /\ DOMAIN Tail(q) = 1 .. Len(q) - 1
        /\ \A i \in 1 .. Len(q) - 1 : Tail(q)[i] = q[i + 1]
    OBVIOUS
  <1> DEFINE rest == Tail(q)
             n == Len(q)
  <1>2. /\ n \in Nat /\ n >= 1 /\ DOMAIN q = 1 .. n /\ DOMAIN rest = 1 .. n - 1
        /\ \A i \in 1 .. n - 1 : rest[i] = q[i + 1] /\ i + 1 \in 1 .. n /\ i + 1 # 1
        /\ \A i \in 1 .. n : i = 1 \/ (i - 1 \in 1 .. n - 1 /\ rest[i - 1] = q[i])
    <2> HIDE DEF rest, n
    <2>1. /\ n \in Nat /\ n >= 1 /\ DOMAIN q = 1 .. n /\ DOMAIN rest = 1 .. n - 1
          /\ \A i \in 1 .. n - 1 : rest[i] = q[i + 1]
      BY <1>1 DEF rest, n
    <2>2. ASSUME NEW i \in 1 .. n, i # 1
          PROVE  i - 1 \in 1 .. n - 1 /\ (i - 1) + 1 = i
      BY <2>1, <2>2
    <2> QED
      BY <2>1, <2>2
  <1> HIDE DEF rest, n
  <1>3. Distinct(rest)
    <2> SUFFICES ASSUME NEW i \in 1 .. n - 1, NEW j \in 1 .. n - 1, rest[i] = rest[j]
                 PROVE  i = j
      BY <1>2 DEF Distinct
    <2>1. q[i + 1] = q[j + 1] /\ i + 1 \in 1 .. n /\ j + 1 \in 1 .. n
      BY <1>2
    <2>2. i + 1 = j + 1
      BY <1>2, <2>1 DEF Distinct
    <2> QED
      BY <1>2, <2>2
  <1>4. q[1] \notin ToSet(rest)
    <2> SUFFICES ASSUME NEW i \in 1 .. n - 1, rest[i] = q[1]
                 PROVE  FALSE
      BY <1>2 DEF ToSet
    <2>1. q[i + 1] = q[1] /\ i + 1 \in 1 .. n /\ 1 \in 1 .. n /\ i + 1 # 1
      BY <1>2
    <2> QED
      BY <1>2, <2>1 DEF Distinct
  <1>5. ToSet(q) = ToSet(rest) \cup {q[1]}
    <2>1. ASSUME NEW i \in 1 .. n PROVE q[i] \in ToSet(rest) \cup {q[1]}
      <3>1. CASE i = 1
        BY <3>1
      <3>2. CASE i - 1 \in 1 .. n - 1 /\ rest[i - 1] = q[i]
        BY <1>2, <3>2 DEF ToSet
      <3> QED
        BY <1>2, <3>1, <3>2
    <2>2. ASSUME NEW i \in 1 .. n - 1 PROVE rest[i] \in ToSet(q)
      BY <1>2 DEF ToSet
    <2>3. q[1] \in ToSet(q)
      BY <1>2 DEF ToSet
    <2> QED
      BY <1>2, <2>1, <2>2, <2>3 DEF ToSet
  <1> QED
    BY <1>1, <1>3, <1>4, <1>5 DEF rest

\* A worker ends its chain and answers for its key.
LEMMA EndAccounted ==
    ASSUME NEW s, NEW chains, NEW specs, NEW owned, Accounted(s, chains, specs, owned),
           NEW w \in Workers, chains[w] # Idle, NEW answer,
           NEW t, t.pc = s.pc, t.queue = s.queue,
           t.outcome = Reported(s.outcome, chains[w].key, answer),
           NEW next, \A v \in Workers : next[v] = IF v = w THEN Idle ELSE chains[v],
           NEW more, owned \subseteq more,
           answer \in {"registered", "reused"} => chains[w].key \in more
    PROVE  Accounted(t, next, specs, more)
PROOF
  <1> DEFINE key == chains[w].key
  <1>1. /\ DOMAIN t.outcome = DOMAIN s.outcome \cup {key}
        /\ \A k \in DOMAIN t.outcome : t.outcome[k] = IF k = key THEN answer ELSE s.outcome[k]
    BY DEF Reported
  <1>2. InWork(chains) \subseteq InWork(next) \cup {key}
    BY DEF InWork
  <1>3. key \notin ToSet(s.queue)
    BY DEF Accounted
  <1>4. s.pc = "working"
    BY DEF Accounted
  <1>5. \A v \in Workers : next[v] # Idle => v # w /\ next[v] = chains[v] /\ chains[v].key # key
    BY DEF Accounted
  <1>6. ASSUME NEW v \in Workers, next[v] # Idle
        PROVE  /\ next[v].key \notin ToSet(t.queue) \cup DOMAIN t.outcome
               /\ \A u \in Workers \ {v} : next[u] # Idle => next[u].key # next[v].key
    BY <1>1, <1>5, <1>6 DEF Accounted
  <1>7. \A k \in DOMAIN t.outcome : t.outcome[k] \in {"registered", "reused"} => k \in more
    BY <1>1 DEF Accounted
  <1>8. specs \subseteq ToSet(t.queue) \cup InWork(next) \cup DOMAIN t.outcome
    BY <1>1, <1>2, <1>4 DEF Accounted
  <1> HIDE DEF key
  <1> QED
    BY <1>1, <1>3, <1>4, <1>6, <1>7, <1>8 DEF Accounted

\* A worker goes on with its key.
LEMMA GoAccounted ==
    ASSUME NEW s, NEW chains, NEW specs, NEW owned, Accounted(s, chains, specs, owned),
           NEW next,
           \A v \in Workers : /\ next[v] # Idle <=> chains[v] # Idle
                              /\ chains[v] # Idle => next[v].key = chains[v].key
    PROVE  Accounted(s, next, specs, owned)
PROOF
  <1>1. InWork(chains) = InWork(next)
    BY DEF InWork
  <1> QED
    BY <1>1 DEF Accounted

\* A worker takes the first of the queue, and begins a chain or answers for it at once.
LEMMA TakeAccounted ==
    ASSUME NEW s, NEW chains, NEW specs, NEW owned, Accounted(s, chains, specs, owned),
           s.pc = "working", s.queue # <<>>, NEW w \in Workers, chains[w] = Idle,
           NEW t, t.pc = s.pc, t.queue = Tail(s.queue),
           NEW next, \A v \in Workers \ {w} : next[v] = chains[v],
           \/ /\ next[w] # Idle /\ next[w].key = Head(s.queue)
              /\ t.outcome = s.outcome
           \/ /\ next[w] = Idle
              /\ t.outcome = Reported(s.outcome, Head(s.queue), "skipped")
    PROVE  Accounted(t, next, specs, owned)
PROOF
  <1> DEFINE key == Head(s.queue)
             rest == Tail(s.queue)
  <1>1. /\ key \in Keys /\ rest \in Seq(Keys) /\ Distinct(rest)
        /\ ToSet(s.queue) = ToSet(rest) \cup {key} /\ key \notin ToSet(rest)
    BY HeadAndTail DEF Accounted
  <1>2. \A v \in Workers : chains[v] # Idle => chains[v].key # key
    BY <1>1 DEF Accounted
  <1>3. key \notin DOMAIN s.outcome
    BY <1>1 DEF Accounted
  <1> HIDE DEF key, rest
  <1>4. CASE next[w] # Idle /\ next[w].key = key /\ t.outcome = s.outcome
    <2>1. InWork(next) = InWork(chains) \cup {key}
      BY <1>4 DEF InWork
    <2>2. ASSUME NEW v \in Workers, next[v] # Idle
          PROVE  /\ next[v].key \notin ToSet(rest) \cup DOMAIN s.outcome
                 /\ \A u \in Workers \ {v} : next[u] # Idle => next[u].key # next[v].key
      <3>1. CASE v = w
        BY <1>1, <1>2, <1>3, <1>4, <2>2, <3>1 DEF Accounted
      <3>2. CASE v # w
        BY <1>1, <1>2, <1>4, <2>2, <3>2 DEF Accounted
      <3> QED
        BY <3>1, <3>2
    <2> QED
      BY <1>1, <1>4, <2>1, <2>2 DEF Accounted, rest
  <1>5. CASE next[w] = Idle /\ t.outcome = Reported(s.outcome, key, "skipped")
    <2>1. /\ DOMAIN t.outcome = DOMAIN s.outcome \cup {key}
          /\ \A k \in DOMAIN t.outcome :
                t.outcome[k] = IF k = key THEN "skipped" ELSE s.outcome[k]
      BY <1>5 DEF Reported
    <2>2. InWork(next) = InWork(chains) /\ \A v \in Workers : next[v] = chains[v]
      BY <1>5 DEF InWork
    <2>3. \A k \in DOMAIN t.outcome : t.outcome[k] \in {"registered", "reused"} => k \in owned
      BY <2>1 DEF Accounted
    <2> QED
      BY <1>1, <1>2, <2>1, <2>2, <2>3 DEF Accounted, rest
  <1> QED
    BY <1>4, <1>5 DEF key

Bounds == [starts : Nat, crashes : Nat, faults : Nat, images : Nat]

Checkpoints == [Runs -> [Keys -> [Steps -> Nat]]]

\* Images are saved for the key of this worker only.
SavesItsOwn(r, w) ==
    /\ checkpoint' \in Checkpoints
    /\ \A q \in Runs, k \in Keys :
          \/ checkpoint'[q][k]["generate"] = checkpoint[q][k]["generate"]
          \/ q = r /\ chain[r][w] # Idle /\ k = chain[r][w].key

\* What most steps of a worker leave alone.
OnlyIts(r) ==
    /\ request' = request /\ spent' \in Bounds
    /\ library \subseteq library' /\ library' \subseteq Asset
    /\ \A q \in Runs \ {r} : stage'[q] = stage[q]

\* The chain is c afterwards, and no other does anything.
IsThen(r, w, c) ==
    /\ \A q \in Runs \ {r} : chain'[q] = chain[q]
    /\ \A v \in Workers : chain'[r][v] = IF v = w THEN c ELSE chain[r][v]

LEMMA BecomesIsThen ==
    ASSUME Inv, NEW r \in Runs, NEW w \in Workers, NEW c, Becomes(r, w, c)
    PROVE  IsThen(r, w, c)
  BY DEF Becomes, IsThen, Inv, Shape

\* A step of one chain keeps the books of all runs if it keeps those of its own.
LEMMA OneChainBooks ==
    ASSUME Inv, Books, NEW r \in Runs, NEW w \in Workers, NEW c, IsThen(r, w, c),
           OnlyIts(r), SavesItsOwn(r, w),
           Accounted(stage'[r], chain'[r], ToSet(request[r].specs), Registered'),
           c # Idle => /\ c.key \in Keys /\ c.made \in [Steps -> Nat]
                       /\ Unpaid(c, checkpoint'[r])
    PROVE  Books'
PROOF
  <1>1. Registered \subseteq Registered'
    BY OwnedStays DEF OnlyIts
  <1>2. \A q \in Runs, v \in Workers :
           chain'[q][v] = IF q = r /\ v = w THEN c ELSE chain[q][v]
    BY DEF IsThen
  <1>3. ASSUME NEW q \in Runs \ {r}
        PROVE  Accounted(stage'[q], chain'[q], ToSet(request'[q].specs), Registered')
    <2>1. Accounted(stage[q], chain[q], ToSet(request[q].specs), Registered)
      BY DEF Books
    <2>2. stage'[q] = stage[q] /\ request'[q] = request[q] /\ chain'[q] = chain[q]
      BY DEF OnlyIts, IsThen
    <2> QED
      BY <1>1, <2>1, <2>2 DEF Accounted
  <1>4. Accounted(stage'[r], chain'[r], ToSet(request'[r].specs), Registered')
    BY DEF OnlyIts
  <1>5. ASSUME NEW q \in Runs, NEW v \in Workers, chain'[q][v] # Idle
        PROVE  /\ chain'[q][v].key \in Keys /\ chain'[q][v].made \in [Steps -> Nat]
               /\ Unpaid(chain'[q][v], checkpoint'[q])
    <2>1. CASE q = r /\ v = w
      BY <1>2, <1>5, <2>1
    <2>2. CASE ~(q = r /\ v = w)
      <3>1. chain'[q][v] = chain[q][v] /\ chain[q][v] # Idle
        BY <1>2, <1>5, <2>2
      <3>2. /\ chain[q][v].key \in Keys /\ chain[q][v].made \in [Steps -> Nat]
            /\ Unpaid(chain[q][v], checkpoint[q])
        BY <3>1 DEF Books
      <3>3. q = r /\ chain[r][w] # Idle => chain[q][v].key # chain[r][w].key
        BY <2>2, <3>1 DEF Books, Accounted
      <3>4. checkpoint'[q][chain[q][v].key]["generate"]
               = checkpoint[q][chain[q][v].key]["generate"]
        BY <3>2, <3>3 DEF SavesItsOwn
      <3> QED
        BY <3>1, <3>2, <3>4 DEF Unpaid
    <2> QED
      BY <2>1, <2>2
  <1>6. /\ library' \subseteq Asset /\ checkpoint' \in Checkpoints /\ request' \in Demands
        /\ spent' \in Bounds
    BY DEF OnlyIts, SavesItsOwn, Books
  <1> QED
    BY <1>3, <1>4, <1>5, <1>6 DEF Books, Checkpoints, Bounds

\* A chain that goes on as c, with its key.
LEMMA GoesOnBooks ==
    ASSUME Inv, Books, NEW r \in Runs, NEW w \in Workers, NEW c, Becomes(r, w, c),
           OnlyIts(r), SavesItsOwn(r, w), stage'[r] = stage[r], library' = library,
           chain[r][w] # Idle, c # Idle, c.key = chain[r][w].key, c.made \in [Steps -> Nat],
           Unpaid(c, checkpoint'[r])
    PROVE  Books'
PROOF
  <1>1. \A v \in Workers : chain'[r][v] = IF v = w THEN c ELSE chain[r][v]
    BY DEF Inv, Shape, Becomes
  <1>2. Accounted(stage[r], chain[r], ToSet(request[r].specs), Registered)
    BY DEF Books
  <1>3. Registered' = Registered
    BY DEF Registered
  <1>4. Accounted(stage'[r], chain'[r], ToSet(request[r].specs), Registered')
    BY <1>1, <1>2, <1>3, GoAccounted
  <1>5. chain[r][w].key \in Keys
    BY DEF Books
  <1> QED
    BY <1>4, <1>5, BecomesIsThen, OneChainBooks

LEMMA GoesBooks ==
    ASSUME Inv, Books, NEW r \in Runs, NEW w \in Workers, NEW pc, Goes(r, w, pc),
           OnlyIts(r), SavesItsOwn(r, w), UNCHANGED <<stage, library>>, chain[r][w] # Idle,
           pc \in {"planning", "drawing"} => checkpoint'[r][chain[r][w].key]["generate"] = 0
    PROVE  Books'
PROOF
  <1> DEFINE old == chain[r][w]
             c == [old EXCEPT !.pc = pc]
  <1>1. IsChain(old) /\ old.made \in [Steps -> Nat]
    BY DEF Inv, Shape, Books
  <1>2. IsChain(c) /\ c.pc = pc /\ c.key = old.key /\ c.made = old.made
    BY <1>1 DEF IsChain
  <1>3. Becomes(r, w, c)
    BY DEF Goes, Becomes, Inv, Shape
  <1> HIDE DEF c
  <1>4. c # Idle
    BY <1>2 DEF IsChain, Idle
  <1>5. Unpaid(c, checkpoint'[r])
    BY <1>2 DEF Unpaid
  <1> QED
    BY <1>1, <1>2, <1>3, <1>4, <1>5, GoesOnBooks

LEMMA MadeBooks ==
    ASSUME Inv, Books, NEW r \in Runs, NEW w \in Workers, NEW step \in Steps,
           NEW image \in Nat, NEW next, Makes(r, w, step, image, next),
           next \notin {"planning", "drawing"},
           OnlyIts(r), SavesItsOwn(r, w), UNCHANGED <<stage, library>>, chain[r][w] # Idle
    PROVE  Books'
PROOF
  <1> DEFINE old == chain[r][w]
             c == [old EXCEPT !.made[step] = image, !.pc = next,
                              !.late = IF stage[r].aborted THEN @ + 1 ELSE @]
  <1>1. IsChain(old) /\ old.made \in [Steps -> Nat]
    BY DEF Inv, Shape, Books
  <1>2. IsChain(c) /\ c.pc = next /\ c.key = old.key
    BY <1>1 DEF IsChain
  <1>3. c.made \in [Steps -> Nat]
    <2>1. c.made = [old.made EXCEPT ![step] = image]
      BY <1>1 DEF IsChain
    <2> QED
      BY <1>1, <2>1
  <1>4. Becomes(r, w, c)
    BY DEF Makes, Becomes
  <1> HIDE DEF c
  <1>5. c # Idle
    BY <1>2 DEF IsChain, Idle
  <1>6. Unpaid(c, checkpoint'[r])
    BY <1>2 DEF Unpaid
  <1> QED
    BY <1>2, <1>3, <1>4, <1>5, <1>6, GoesOnBooks

\* A chain ends with an answer; what it calls registered or reused is in the library.
LEMMA EndsBooks ==
    ASSUME Inv, Books, NEW r \in Runs, NEW w \in Workers, NEW answer, Ends(r, w, answer),
           request' = request, spent' \in Bounds, checkpoint' = checkpoint,
           library \subseteq library', library' \subseteq Asset, chain[r][w] # Idle,
           answer \in {"registered", "reused"} => chain[r][w].key \in Registered'
    PROVE  Books'
PROOF
  <1> DEFINE key == chain[r][w].key
  <1>1. Becomes(r, w, Idle)
    BY DEF Ends, Becomes
  <1>2. /\ stage'[r].pc = stage[r].pc /\ stage'[r].queue = stage[r].queue
        /\ stage'[r].outcome = Reported(stage[r].outcome, key, answer)
        /\ \A q \in Runs \ {r} : stage'[q] = stage[q]
    BY DEF Ends, Inv, Shape
  <1>3. OnlyIts(r)
    BY <1>2 DEF OnlyIts
  <1>4. SavesItsOwn(r, w)
    BY DEF SavesItsOwn, Books, Checkpoints
  <1>5. Accounted(stage[r], chain[r], ToSet(request[r].specs), Registered)
    BY DEF Books
  <1>6. \A v \in Workers : chain'[r][v] = IF v = w THEN Idle ELSE chain[r][v]
    BY <1>1 DEF Becomes, Inv, Shape
  <1>7. Registered \subseteq Registered'
    BY OwnedStays
  <1>8. Accounted(stage'[r], chain'[r], ToSet(request[r].specs), Registered')
    BY <1>2, <1>5, <1>6, <1>7, EndAccounted, SMTT(30)
  <1> QED
    BY <1>1, <1>3, <1>4, <1>8, BecomesIsThen, OneChainBooks

LEMMA FaultIsBounded ==
    ASSUME Books, Fault \/ spent' = spent
    PROVE  spent' \in Bounds
  BY DEF Books, Fault, Bounds

LEMMA SavesNothing ==
    ASSUME Books, NEW r, NEW w, checkpoint' = checkpoint
    PROVE  SavesItsOwn(r, w)
  BY DEF Books, SavesItsOwn, Checkpoints

\* A checkpoint of a worker's own key, or none because it could not be written.
LEMMA WritesItsOwn ==
    ASSUME Books, NEW r \in Runs, NEW w \in Workers, chain[r][w] # Idle,
           NEW step \in Steps, NEW image \in Nat, Writes(r, chain[r][w].key, step, image)
    PROVE  SavesItsOwn(r, w) /\ spent' \in Bounds
PROOF
  <1> DEFINE key == chain[r][w].key
  <1>1. checkpoint \in Checkpoints /\ key \in Keys
    BY DEF Books, Checkpoints
  <1>2. CASE UNCHANGED checkpoint /\ Fault
    BY <1>2, FaultIsBounded, SavesNothing
  <1>3. CASE /\ checkpoint' = [checkpoint EXCEPT ![r][key][step] = image]
             /\ UNCHANGED spent
    <2>1. checkpoint' \in Checkpoints
      BY <1>1, <1>3 DEF Checkpoints
    <2>2. \A q \in Runs, k \in Keys :
             checkpoint'[q][k]["generate"] = checkpoint[q][k]["generate"] \/ (q = r /\ k = key)
      BY <1>1, <1>3 DEF Checkpoints
    <2>3. spent' \in Bounds
      BY <1>3, FaultIsBounded
    <2> QED
      BY <2>1, <2>2, <2>3 DEF SavesItsOwn
  <1> QED
    BY <1>2, <1>3 DEF Writes

LEMMA TakeItemBooks ==
    ASSUME Inv, Books, NEW r \in Runs, NEW w \in Workers, TakeItem(r, w)
    PROVE  Books'
PROOF
  <1> DEFINE key == Head(stage[r].queue)
             c == Chain(key)
  <1>1. /\ stage[r].pc = "working" /\ stage[r].queue # <<>> /\ chain[r][w] = Idle
        /\ UNCHANGED <<library, checkpoint, request, spent>>
        /\ Registered' = Registered
    BY DEF TakeItem, Registered
  <1>2. Accounted(stage[r], chain[r], ToSet(request[r].specs), Registered)
    BY DEF Books
  <1>3. key \in Keys
    BY <1>1, <1>2, HeadAndTail DEF Accounted
  <1>4. SavesItsOwn(r, w) /\ spent' \in Bounds
    BY <1>1, SavesNothing, FaultIsBounded
  <1>5. CASE /\ chain' = [chain EXCEPT ![r][w] = c]
             /\ stage' = [stage EXCEPT ![r].queue = Rest(@)]
    <2>1. /\ c # Idle /\ c.key = key /\ c.made = NoImages /\ c.pc = "reading"
      BY DEF Chain, Idle
    <2>2. /\ stage'[r].pc = stage[r].pc /\ stage'[r].queue = Tail(stage[r].queue)
          /\ stage'[r].outcome = stage[r].outcome
          /\ \A q \in Runs \ {r} : stage'[q] = stage[q]
      BY <1>5 DEF Inv, Shape, Rest
    <2> HIDE DEF c
    <2>3. Becomes(r, w, c)
      BY <1>5 DEF Becomes
    <2>4. chain'[r][w] = c /\ \A v \in Workers \ {w} : chain'[r][v] = chain[r][v]
      BY <2>3 DEF Becomes, Inv, Shape
    <2>5. Accounted(stage'[r], chain'[r], ToSet(request[r].specs), Registered')
      BY <1>1, <1>2, <2>1, <2>2, <2>4, TakeAccounted
    <2>6. c.made \in [Steps -> Nat] /\ Unpaid(c, checkpoint'[r])
      BY <2>1 DEF NoImages, Unpaid
    <2>7. OnlyIts(r)
      BY <1>1, <1>4, <2>2 DEF OnlyIts, Books
    <2> QED
      BY <1>3, <1>4, <2>1, <2>3, <2>5, <2>6, <2>7, BecomesIsThen, OneChainBooks
  <1>6. CASE /\ UNCHANGED chain
             /\ stage' = [stage EXCEPT ![r].queue = Rest(@),
                                       ![r].outcome = Reported(@, key, "skipped")]
    <2>1. /\ stage'[r].pc = stage[r].pc /\ stage'[r].queue = Tail(stage[r].queue)
          /\ stage'[r].outcome = Reported(stage[r].outcome, key, "skipped")
          /\ \A q \in Runs \ {r} : stage'[q] = stage[q]
      BY <1>6 DEF Inv, Shape, Rest
    <2>2. IsThen(r, w, Idle)
      BY <1>1, <1>6 DEF IsThen
    <2>3. Accounted(stage'[r], chain'[r], ToSet(request[r].specs), Registered')
      <3>1. \A v \in Workers \ {w} : chain'[r][v] = chain[r][v]
        BY <1>6
      <3>2. chain'[r][w] = Idle
        BY <1>1, <1>6
      <3> QED
        BY <1>1, <1>2, <2>1, <3>1, <3>2, TakeAccounted
    <2>4. OnlyIts(r)
      BY <1>1, <1>4, <2>1 DEF OnlyIts, Books
    <2> QED
      BY <1>4, <2>2, <2>3, <2>4, OneChainBooks
  <1> QED
    BY <1>5, <1>6 DEF TakeItem

\* Nothing but a chain and what has been used of the bounds changes.
LEMMA OnlyItsChain ==
    ASSUME Books, NEW r, UNCHANGED <<library, request, stage>>, spent' \in Bounds
    PROVE  OnlyIts(r)
  BY DEF OnlyIts, Books

LEMMA ReadGenerateBooks ==
    ASSUME Inv, Books, NEW r \in Runs, NEW w \in Workers, ReadGenerate(r, w)
    PROVE  Books'
PROOF
  <1> DEFINE held == checkpoint[r][chain[r][w].key]["generate"]
  <1>1. /\ chain[r][w] # Idle
        /\ UNCHANGED <<library, checkpoint, request, stage, spent>>
    BY DEF ReadGenerate, Has, Idle
  <1>2. OnlyIts(r) /\ SavesItsOwn(r, w)
    BY <1>1, OnlyItsChain, SavesNothing, FaultIsBounded
  <1>3. held \in Nat /\ "generate" \in Steps
    BY <1>1 DEF Books, Steps
  <1>4. CASE Makes(r, w, "generate", held, "matte")
    BY <1>1, <1>2, <1>3, <1>4, MadeBooks
  <1>5. CASE ~Matches(r, w, "generate") /\ Goes(r, w, "planning")
    <2>1. held = 0
      BY <1>5 DEF Matches
    <2> QED
      BY <1>1, <1>2, <1>5, <2>1, GoesBooks
  <1> QED
    BY <1>4, <1>5 DEF ReadGenerate

LEMMA PlanAgainBooks ==
    ASSUME Inv, Books, NEW r \in Runs, NEW w \in Workers, PlanAgain(r, w)
    PROVE  Books'
PROOF
  <1>1. /\ chain[r][w] # Idle /\ chain[r][w].pc = "planning"
        /\ UNCHANGED <<library, checkpoint, request, spent>> /\ Registered' = Registered
    BY DEF PlanAgain, Has, Idle, Registered
  <1>2. SavesItsOwn(r, w) /\ spent' \in Bounds
    BY <1>1, SavesNothing, FaultIsBounded
  <1>3. CASE IsOwned(chain[r][w].key) /\ Ends(r, w, "reused")
    BY <1>1, <1>2, <1>3, EndsBooks DEF IsOwned, Books
  <1>4. CASE Goes(r, w, "drawing") /\ UNCHANGED stage
    <2>1. Unpaid(chain[r][w], checkpoint[r])
      BY <1>1 DEF Books
    <2>2. OnlyIts(r)
      BY <1>1, <1>2, <1>4, OnlyItsChain
    <2> QED
      BY <1>1, <1>2, <1>4, <2>1, <2>2, GoesBooks DEF Unpaid
  <1> QED
    BY <1>3, <1>4 DEF PlanAgain

LEMMA DrawBooks ==
    ASSUME Inv, Books, NEW r \in Runs, NEW w \in Workers, Draw(r, w)
    PROVE  Books'
PROOF
  <1>1. /\ chain[r][w] # Idle /\ UNCHANGED <<library, checkpoint, request, stage>>
        /\ Makes(r, w, "generate", spent'.images, "marking")
    BY DEF Draw, Has, Idle
  <1>2. spent' \in Bounds /\ spent'.images \in Nat
    BY DEF Draw, Books, Bounds
  <1>3. OnlyIts(r) /\ SavesItsOwn(r, w) /\ "generate" \in Steps
    BY <1>1, <1>2, OnlyItsChain, SavesNothing DEF Steps
  <1> QED
    BY <1>1, <1>2, <1>3, MadeBooks

LEMMA MarkGenerateBooks ==
    ASSUME Inv, Books, NEW r \in Runs, NEW w \in Workers, MarkGenerate(r, w)
    PROVE  Books'
PROOF
  <1> DEFINE c == chain[r][w]
  <1>1. /\ c # Idle /\ UNCHANGED <<library, request, stage>>
        /\ Writes(r, c.key, "generate", c.made["generate"]) /\ Goes(r, w, "matte")
    BY DEF MarkGenerate, Has, Idle
  <1>2. "generate" \in Steps /\ c.made["generate"] \in Nat
    BY <1>1 DEF Steps, Books
  <1>3. SavesItsOwn(r, w) /\ spent' \in Bounds
    BY <1>1, <1>2, WritesItsOwn
  <1>4. OnlyIts(r)
    BY <1>1, <1>3, OnlyItsChain
  <1> QED
    BY <1>1, <1>3, <1>4, GoesBooks

LEMMA StepBooks ==
    ASSUME Inv, Books, NEW r \in Runs, NEW w \in Workers, Step(r, w)
    PROVE  Books'
PROOF
  <1> DEFINE c == chain[r][w]
             step == c.pc
  <1>1. step \in {"matte", "split", "rig", "clips", "bake"} /\ c # Idle
    BY DEF Step, InputOf, Idle
  <1>2. /\ step \in Steps /\ After[step] \notin {"planning", "drawing"}
        /\ step # "clips" => InputOf[step] \in Steps
    BY <1>1 DEF Steps, After, InputOf
  <1>3. c.key \in Keys /\ c.made \in [Steps -> Nat]
    BY <1>1 DEF Books
  <1>4. CASE Skipped(r, w)
    BY <1>1, <1>4, EndsBooks, FaultIsBounded DEF Skipped, Books
  <1>5. CASE /\ Makes(r, w, step, checkpoint[r][c.key][step], After[step])
             /\ UNCHANGED <<library, checkpoint, request, stage, spent>>
    <2>1. checkpoint[r][c.key][step] \in Nat
      BY <1>2, <1>3 DEF Books
    <2>2. OnlyIts(r) /\ SavesItsOwn(r, w)
      BY <1>5, OnlyItsChain, SavesNothing, FaultIsBounded
    <2> QED
      BY <1>1, <1>2, <1>5, <2>1, <2>2, MadeBooks
  <1>6. CASE /\ Makes(r, w, step, Output(c, step), After[step])
             /\ Writes(r, c.key, step, Output(c, step))
             /\ UNCHANGED <<library, request, stage>>
    <2>1. Output(c, step) \in Nat
      BY <1>2, <1>3 DEF Output
    <2>2. SavesItsOwn(r, w) /\ spent' \in Bounds
      BY <1>1, <1>2, <1>6, <2>1, WritesItsOwn
    <2>3. OnlyIts(r)
      BY <1>6, <2>2, OnlyItsChain
    <2> QED
      BY <1>1, <1>2, <1>6, <2>1, <2>2, <2>3, MadeBooks
  <1> QED
    BY <1>4, <1>5, <1>6 DEF Step

LEMMA FindKeyBooks ==
    ASSUME Inv, Books, NEW r \in Runs, NEW w \in Workers, FindKey(r, w)
    PROVE  Books'
PROOF
  <1>1. chain[r][w] # Idle /\ UNCHANGED <<library, checkpoint, request, spent>>
    BY DEF FindKey, Has, Idle, Skipped
  <1>2. SavesItsOwn(r, w) /\ spent' \in Bounds
    BY <1>1, SavesNothing, FaultIsBounded
  <1>3. CASE Ends(r, w, "skipped") \/ Ends(r, w, "taken")
    BY <1>1, <1>2, <1>3, EndsBooks DEF Books
  <1>4. CASE Goes(r, w, "creating") /\ UNCHANGED stage
    BY <1>1, <1>2, <1>4, OnlyItsChain, GoesBooks
  <1> QED
    BY <1>3, <1>4 DEF FindKey, Skipped

\* What is registered is in the library.
LEMMA CreateBooks ==
    ASSUME Inv, Books, NEW r \in Runs, NEW w \in Workers, Create(r, w)
    PROVE  Books'
PROOF
  <1> DEFINE c == chain[r][w]
             asset == [key |-> c.key, made |-> c.made]
  <1>1. c # Idle /\ UNCHANGED <<checkpoint, request>> /\ spent' \in Bounds
    BY FaultIsBounded DEF Create, Has, Idle
  <1>2. asset \in Asset
    BY <1>1 DEF Books, Asset
  <1>3. CASE Ends(r, w, "taken") /\ UNCHANGED library
    BY <1>1, <1>3, EndsBooks DEF Books
  <1>4. CASE /\ library' = library \cup {asset}
             /\ Ends(r, w, "registered") \/ Ends(r, w, "failed")
    <2>1. library' \subseteq Asset /\ library \subseteq library'
      BY <1>2, <1>4 DEF Books
    <2>2. c.key \in Registered'
      <3>1. asset \in library' /\ asset.key = c.key
        BY <1>4
      <3> QED
        BY <3>1 DEF Registered
    <2> QED
      BY <1>1, <1>4, <2>1, <2>2, EndsBooks
  <1> QED
    BY <1>3, <1>4 DEF Create

LEMMA FailsBooks ==
    ASSUME Inv, Books, NEW r \in Runs, NEW w \in Workers, Fails(r, w) \/ DrawIsLost(r, w)
    PROVE  Books'
PROOF
  <1>1. chain[r][w] # Idle
    BY DEF Fails, DrawIsLost, Has, Idle, InputOf
  <1>2. Ends(r, w, "failed") /\ UNCHANGED <<library, checkpoint, request>>
    BY DEF Fails, DrawIsLost
  <1>3. spent' \in Bounds
    <2>1. CASE Fails(r, w)
      BY <2>1, FaultIsBounded DEF Fails
    <2>2. CASE DrawIsLost(r, w)
      <3>1. spent \in Bounds
        BY DEF Books, Bounds
      <3>2. spent' = [spent EXCEPT !.images = @ + 1, !.faults = @ + 1]
        BY <2>2 DEF DrawIsLost
      <3> DEFINE drawn == [spent EXCEPT !.images = @ + 1]
      <3>3. drawn \in Bounds
        BY <3>1 DEF Bounds
      <3>4. spent' = [drawn EXCEPT !.faults = @ + 1]
        BY <3>1, <3>2 DEF Bounds
      <3> HIDE DEF drawn
      <3> QED
        BY <3>3, <3>4 DEF Bounds
    <2> QED
      BY <2>1, <2>2
  <1> QED
    BY <1>1, <1>2, <1>3, EndsBooks DEF Books

LEMMA WorksBooks ==
    ASSUME Inv, Books, NEW r \in Runs, NEW w \in Workers, Works(r, w)
    PROVE  Books'
  BY TakeItemBooks, FailsBooks, ReadGenerateBooks, PlanAgainBooks, DrawBooks,
     MarkGenerateBooks, StepBooks, FindKeyBooks, CreateBooks DEF Works

\* A run's books are kept whatever the others do, as long as nothing leaves the library.
LEMMA OthersAreAccounted ==
    ASSUME Books, NEW q \in Runs, stage'[q] = stage[q], request'[q] = request[q],
           chain'[q] = chain[q], Registered \subseteq Registered'
    PROVE  Accounted(stage'[q], chain'[q], ToSet(request'[q].specs), Registered')
  BY DEF Books, Accounted

\* No chain moves and nothing is saved.
LEMMA StageBooks ==
    ASSUME Books, UNCHANGED <<library, checkpoint, request, chain>>, spent' \in Bounds,
           \A r \in Runs :
              Accounted(stage'[r], chain'[r], ToSet(request'[r].specs), Registered')
    PROVE  Books'
  BY DEF Books, Bounds, Unpaid

\* The plan: every asset that is asked for is to be produced, once, or answered for.
LEMMA PlanAccounts ==
    ASSUME Inv, Books, NEW r \in Runs
    PROVE  /\ Affordable(r) \in Seq(Keys) /\ Distinct(Affordable(r))
           /\ DOMAIN Planned(r) = ToSet(request[r].specs) \ ToSet(Affordable(r))
           /\ \A k \in DOMAIN Planned(r) :
                 Planned(r)[k] \in {"registered", "reused"} => k \in Registered
PROOF
  <1>1. request[r].specs \in Seq(Keys)
    BY DemandsAssumption DEF Books
  <1>2. Dedupe(request[r].specs) \in Seq(Keys) /\ Distinct(Dedupe(request[r].specs))
    BY <1>1, DedupeKeeps
  <1>3. Missing(r) \in Seq(Keys \cap (Keys \ Registered)) /\ Distinct(Missing(r))
    BY <1>2, FilterKeeps DEF Missing
  <1>4. Missing(r) \in Seq(Keys)
    BY <1>3, SeqMonotonic
  <1>5. /\ Affordable(r) \in Seq(Keys \cap Plan(r).keys)
        /\ Distinct(Affordable(r))
    BY <1>3, <1>4, FilterKeeps DEF Affordable
  <1>6. Affordable(r) \in Seq(Keys)
    BY <1>5, SeqMonotonic
  <1>7. \A k \in DOMAIN Planned(r) :
           Planned(r)[k] \in {"registered", "reused"} => k \in Registered
    BY DEF Planned
  <1>8. DOMAIN Planned(r) = ToSet(request[r].specs) \ ToSet(Affordable(r))
    BY DEF Planned
  <1> QED
    BY <1>5, <1>6, <1>7, <1>8

LEMMA BeginBooks ==
    ASSUME Inv, Books, NEW r \in Runs, Begin(r)
    PROVE  Books'
PROOF
  <1>1. /\ UNCHANGED <<library, checkpoint, request, chain>> /\ stage[r].pc = "idle"
        /\ Registered' = Registered
    BY DEF Begin, MayBegin, Registered
  <1>2. spent' \in Bounds
    BY DEF Begin, Books, Bounds
  <1>3. /\ stage'[r].pc = "working" /\ stage'[r].queue = Affordable(r)
        /\ stage'[r].outcome = Planned(r)
        /\ \A q \in Runs \ {r} : stage'[q] = stage[q]
    BY DEF Begin, Inv, Shape
  <1>4. \A w \in Workers : chain'[r][w] = Idle
    BY <1>1 DEF Books, Accounted
  <1>5. Accounted(stage'[r], chain'[r], ToSet(request'[r].specs), Registered')
    BY <1>1, <1>3, <1>4, PlanAccounts DEF Accounted
  <1>6. \A q \in Runs \ {r} :
           Accounted(stage'[q], chain'[q], ToSet(request'[q].specs), Registered')
    BY <1>1, <1>3, OthersAreAccounted
  <1> QED
    BY <1>1, <1>2, <1>5, <1>6, StageBooks

\* Nothing is queued and nothing in work: everything is answered for.
LEMMA EndBooks ==
    ASSUME Inv, Books, NEW r \in Runs, End(r)
    PROVE  Books'
PROOF
  <1>1. /\ UNCHANGED <<library, checkpoint, request, chain, spent>>
        /\ Registered' = Registered
        /\ stage[r].pc = "working" /\ stage[r].queue = <<>>
        /\ \A w \in Workers : chain[r][w] = Idle
    BY DEF End, Registered
  <1>2. /\ stage'[r].pc = "done" /\ stage'[r].queue = stage[r].queue
        /\ stage'[r].outcome = stage[r].outcome
        /\ \A q \in Runs \ {r} : stage'[q] = stage[q]
    BY DEF End, Inv, Shape
  <1>3. ToSet(stage[r].queue) = {} /\ InWork(chain[r]) = {}
    BY <1>1 DEF ToSet, InWork
  <1>4. Accounted(stage[r], chain[r], ToSet(request[r].specs), Registered)
    BY DEF Books
  <1>5. Accounted(stage'[r], chain'[r], ToSet(request'[r].specs), Registered')
    BY <1>1, <1>2, <1>3, <1>4 DEF Accounted
  <1>6. \A q \in Runs \ {r} :
           Accounted(stage'[q], chain'[q], ToSet(request'[q].specs), Registered')
    BY <1>1, <1>2, OthersAreAccounted
  <1> QED
    BY <1>1, <1>5, <1>6, FaultIsBounded, StageBooks

LEMMA CancelBooks ==
    ASSUME Inv, Books, NEW r \in Runs, Cancel(r)
    PROVE  Books'
PROOF
  <1>1. /\ UNCHANGED <<library, checkpoint, request, chain>> /\ Registered' = Registered
        /\ spent' \in Bounds
    BY FaultIsBounded DEF Cancel, Registered
  <1>2. \A q \in Runs : /\ stage'[q].pc = stage[q].pc /\ stage'[q].queue = stage[q].queue
                        /\ stage'[q].outcome = stage[q].outcome
    BY DEF Cancel, Inv, Shape
  <1>3. ASSUME NEW q \in Runs
        PROVE  Accounted(stage'[q], chain'[q], ToSet(request'[q].specs), Registered')
    <2>1. Accounted(stage[q], chain[q], ToSet(request[q].specs), Registered)
      BY DEF Books
    <2> QED
      BY <1>1, <1>2, <2>1 DEF Accounted
  <1> QED
    BY <1>1, <1>3, StageBooks

\* A run that is cut off has nothing in work, and is done or as before it began.
LEMMA CrashBooks ==
    ASSUME Inv, Books, Crash
    PROVE  Books'
PROOF
  <1>1. /\ UNCHANGED <<library, checkpoint, request>> /\ Registered' = Registered
        /\ \A r \in Runs, w \in Workers : chain'[r][w] = Idle
    BY DEF Crash, Registered
  <1>2. spent' \in Bounds
    BY SMTT(30) DEF Crash, Books, Bounds
  <1>3. ASSUME NEW r \in Runs
        PROVE  Accounted(stage'[r], chain'[r], ToSet(request'[r].specs), Registered')
    <2>1. Accounted(stage[r], chain[r], ToSet(request[r].specs), Registered)
      BY DEF Books
    <2>2. CASE stage[r].pc = "working"
      <3>1. stage'[r] = [NoStage EXCEPT !.aborted = stage[r].aborted]
        BY <2>2 DEF Crash
      <3>2. stage'[r].pc = "idle" /\ stage'[r].queue = <<>> /\ stage'[r].outcome = <<>>
        BY <3>1 DEF NoStage
      <3>3. Distinct(<<>>) /\ <<>> \in Seq(Keys) /\ DOMAIN <<>> = {}
        BY DEF Distinct
      <3> QED
        BY <1>1, <3>2, <3>3 DEF Accounted
    <2>3. CASE stage[r].pc # "working"
      <3>1. stage'[r] = stage[r]
        BY <2>3 DEF Crash
      <3> QED
        BY <1>1, <2>1, <2>3, <3>1 DEF Accounted
    <2> QED
      BY <2>2, <2>3
  <1>4. \A r \in Runs, w \in Workers : chain'[r][w] # Idle => FALSE
    BY <1>1
  <1> QED
    BY <1>1, <1>2, <1>3, <1>4 DEF Books, Bounds

LEMMA InitBooks == Init => Books
PROOF
  <1> SUFFICES ASSUME Init PROVE Books
    OBVIOUS
  <1>1. /\ library = {} /\ request \in Demands
        /\ \A r \in Runs : /\ stage[r] = NoStage
                           /\ \A w \in Workers : chain[r][w] = Idle
    BY DEF Init
  <1>2. checkpoint \in [Runs -> [Keys -> [Steps -> Nat]]]
    BY DEF Init, NoImages
  <1>3. spent \in [starts : Nat, crashes : Nat, faults : Nat, images : Nat]
    BY DEF Init
  <1>4. /\ NoStage.pc = "idle" /\ NoStage.queue = <<>> /\ NoStage.outcome = <<>>
        /\ Distinct(<<>>) /\ <<>> \in Seq(Keys) /\ DOMAIN <<>> = {}
    BY DEF NoStage, Distinct
  <1>5. \A r \in Runs : Accounted(stage[r], chain[r], ToSet(request[r].specs), Registered)
    BY <1>1, <1>4 DEF Accounted
  <1> QED
    BY <1>1, <1>2, <1>3, <1>5 DEF Books

LEMMA NextBooks == Inv /\ Books /\ [Next]_vars => Books'
PROOF
  <1> SUFFICES ASSUME Inv, Books, [Next]_vars PROVE Books'
    OBVIOUS
  <1>1. CASE \E r \in Runs, w \in Workers : Works(r, w)
    BY <1>1, WorksBooks
  <1>2. CASE \E r \in Runs : AwaitsApproval(r) \/ GuardRefuses(r)
    <2>1. PICK r \in Runs : IsRefused(r)
      BY <1>2 DEF AwaitsApproval, GuardRefuses
    <2>2. UNCHANGED <<library, checkpoint, request, stage, chain>> /\ spent' \in Bounds
      BY <2>1 DEF IsRefused, Books, Bounds
    <2> QED
      BY <2>2, OthersAreAccounted, OwnedStays, StageBooks
  <1>3. CASE \E r \in Runs : Begin(r) \/ End(r) \/ Cancel(r)
    BY <1>3, BeginBooks, EndBooks, CancelBooks
  <1>4. CASE Crash
    BY <1>4, CrashBooks
  <1>5. CASE UNCHANGED vars
    <2>1. UNCHANGED <<library, checkpoint, request, stage, chain, spent>>
      BY <1>5 DEF vars
    <2> QED
      BY <2>1, FaultIsBounded, OthersAreAccounted, OwnedStays, StageBooks
  <1> QED
    BY <1>1, <1>2, <1>3, <1>4, <1>5 DEF Next

LEMMA BooksHold == Spec => [](Inv /\ Books)
PROOF
  <1>1. Init => Inv /\ Books
    BY InitInv, InitBooks
  <1>2. Inv /\ Books /\ [Next]_vars => (Inv /\ Books)'
    BY NextInv, NextBooks
  <1> QED
    BY <1>1, <1>2, PTL DEF Spec

-----------------------------------------------------------------------------
\* What follows.

\* One asset per key, whichever runs look for it and create it at the same time: what
\* RegisterAssetVersionUseCase found may be stale, the constraint of the table is not.
THEOREM AssetsAreUnique == Spec => []OneAssetPerKey
PROOF
  <1>1. Inv => OneAssetPerKey
    BY DEF Inv
  <1> QED
    BY <1>1, InvHolds, PTL

\* Every registered asset is of one image, wherever its run was killed and begun again:
\* a checkpoint counts only for the input it was made from.
THEOREM AssetsAreOneTake == Spec => []AssetIsOneTake
PROOF
  <1>1. Inv => AssetIsOneTake
    BY DEF Inv
  <1> QED
    BY <1>1, InvHolds, PTL

\* What the library had when a worker came to it is never drawn: the plan is made again
\* before the image is asked for, and nothing leaves the library.
THEOREM OwnedIsNotDrawn == Spec => []NothingOwnedIsDrawn
PROOF
  <1>1. Inv => NothingOwnedIsDrawn
    BY DEF Inv, ChainInv, OwnedIsKept, NothingOwnedIsDrawn, Has, Idle
  <1> QED
    BY <1>1, InvHolds, PTL

\* A chain of a cancelled run makes at most one thing more, wherever the cancel finds it.
THEOREM ChainsStopInTime == Spec => []CancelledChainsStop
PROOF
  <1>1. Inv => CancelledChainsStop
    BY DEF Inv, ChainInv, StopsInTime, CancelledChainsStop
  <1> QED
    BY <1>1, InvHolds, PTL

\* A stage that is done has answered for every asset it was asked for, and what it calls
\* registered or reused is in the library: between the queue, the workers and the report
\* nothing is lost and nothing is there twice, through crashes, cancels and failing writes.
THEOREM AllAssetsAreAccountedFor == Spec => []EveryAssetIsAccountedFor
PROOF
  <1>1. Books => TypeOK
    BY DEF Books, TypeOK, Accounted
  <1>2. Books => EveryAssetIsAccountedFor
    BY <1>1 DEF Books, Accounted, EveryAssetIsAccountedFor
  <1> QED
    BY <1>2, BooksHold, PTL

\* A run pays for no image of which it has a checkpoint: who comes to draw found none, and
\* nobody else of its run has the same key in hand to write one meanwhile.
THEOREM ImagesArePaidOnce == Spec => NothingIsPaidTwice
PROOF
  <1>1. Inv /\ Books =>
           [\A r \in Runs, w \in Workers :
               Has(r, w, "drawing") /\ spent'.images > spent.images /\ ~Has(r, w, "drawing")'
                   => checkpoint[r][chain[r][w].key]["generate"] = 0]_vars
    <2> SUFFICES ASSUME Books, NEW r \in Runs, NEW w \in Workers, Has(r, w, "drawing")
                 PROVE  checkpoint[r][chain[r][w].key]["generate"] = 0
      OBVIOUS
    <2>1. chain[r][w] # Idle /\ chain[r][w].pc = "drawing"
      BY DEF Has, Idle
    <2> QED
      BY <2>1 DEF Books, Unpaid
  <1> QED
    BY <1>1, BooksHold, PTL DEF NothingIsPaidTwice

=============================================================================
