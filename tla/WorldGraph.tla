------------------------------ MODULE WorldGraph ------------------------------
(***************************************************************************)
(* The world stage (apps/api/narrative): it reads a series' graph, has a   *)
(* model tell of each scene in turn what it changed, folds the answer into *)
(* the graph in memory (narrative-memory), writes the new edges and then   *)
(* the ended ones, and in the end checks the graph for contradictions.     *)
(*                                                                         *)
(* Scene n plays at story time n.  An edge is named by what it says and by *)
(* the scene that says it, so that its beginning is its name's; what stood *)
(* before the story is of scene 0.  The graph maps the edges it holds to   *)
(* their ends, Nil while they stand.  Places, possessions and one kind of  *)
(* belief stand for all types of relations.  The second clock is left out: *)
(* nothing ever retracts an assertion, and the check looks at what stands  *)
(* now.  Promises and statuses are not stored.  Of the rules of the check  *)
(* the one about places is here; a verdict is what that one says.          *)
(*                                                                         *)
(* The names differ from StoryOutline's, so that SeriesProofs can extend   *)
(* both: WorldInit, WorldNext, WorldSpec, WorldTypeOK.                     *)
(*                                                                         *)
(* Definitions named Broken... are not the code, see PipelineRunner.       *)
(***************************************************************************)
EXTENDS Naturals, Sequences, SequencesExt, FiniteSets, FiniteSetsExt

CONSTANTS
    Stages,      \* world stages of one series' runs
    People, Items, Places,
    Sheets,      \* the entities that have a row; the others are introduced by scenes
    Before,      \* sets of facts, of which one holds before the first scene
    Tellings,    \* what a scene can tell: the model's answers, their names resolved
    NumScenes,   \* of a stage, at least one: without any there is nothing to fold or check
    MaxTellings, MaxTears, \* bounds: stages begun, crashes between the two writes
    Nil          \* no end, no place, nobody

AllFacts ==
    [type : {"located-in"}, from : People, to : Places]
        \cup [type : {"carries"}, from : People, to : Items]
        \cup [type : {"knows"}, from : People, to : People]

ASSUME EntitiesAssumption ==
    /\ Sheets \subseteq People \cup Items \cup Places
    /\ Nil \notin Nat \cup People \cup Items \cup Places
ASSUME TellingsAssumption ==
    /\ Before \subseteq SUBSET AllFacts
    /\ Tellings \subseteq
          [said : SUBSET AllFacts, over : SUBSET AllFacts,
           moves : Seq([who : People, to : Places \cup {Nil}]),
           hands : Seq([item : Items, to : People \cup {Nil}, kept : BOOLEAN]),
           forgotten : SUBSET AllFacts]
ASSUME BoundsAssumption ==
    NumScenes \in Nat \ {0} /\ {MaxTellings, MaxTears} \subseteq Nat

VARIABLES
    db,      \* the stored graph
    stage,   \* of each stage: [pc, scene, graph, aborted, verdict]
    budget,  \* starts and crashes left
    lapses   \* history: what happened that does not happen to a series told once, in order

worldVars == <<db, stage, budget, lapses>>

-----------------------------------------------------------------------------
\* Edges.

\* by: the sentence is the model's, or the fold's own.
Edge(scene, fact, by) == [scene |-> scene, fact |-> fact, by |-> by]

InPlace(who, place) == [type |-> "located-in", from |-> who, to |-> place]
Carries(who, item) == [type |-> "carries", from |-> who, to |-> item]
Knows(who, whom) == [type |-> "knows", from |-> who, to |-> whom]

\* Half-open: what ends at a time is not true at it.
IsValidAt(g, e, time) == e.scene <= time /\ (g[e] = Nil \/ time < g[e])

\* Not the code: intervals that touch overlap.
BrokenOverlap(g, d, e) ==
    (g[e] = Nil \/ d.scene <= g[e]) /\ (g[d] = Nil \/ e.scene <= g[d])

Overlap(g, d, e) == (g[e] = Nil \/ d.scene < g[e]) /\ (g[d] = Nil \/ e.scene < g[d])

\* findContradictions, of places: one subject, two objects, at a time.
Contradicts(g, d, e) ==
    /\ d.fact.type = "located-in" /\ e.fact.type = "located-in"
    /\ d.fact.from = e.fact.from /\ d.fact.to # e.fact.to
    /\ Overlap(g, d, e)

\* What stands: begun by then, and not ended at any time.
Standing(g, at) == {e \in DOMAIN g : g[e] = Nil /\ e.scene <= at}

-----------------------------------------------------------------------------
\* The fold.

\* Not the code: an edge that begins now may end now.
BrokenEnds(g, edges, at) == [e \in DOMAIN g |-> IF e \in edges THEN at ELSE g[e]]

\* An edge that has ended, or begins only now, is left alone.
Ends(g, edges, at) ==
    [e \in DOMAIN g |-> IF e \in edges /\ g[e] = Nil /\ e.scene < at THEN at ELSE g[e]]

Adds(g, edges) == [e \in DOMAIN g \cup edges |-> IF e \in DOMAIN g THEN g[e] ELSE Nil]

\* Not the code: who moves on is not taken from where he was.
BrokenMoves(g, move, at) ==
    IF move.to = Nil
    THEN Ends(g, {e \in Standing(g, at) : e.fact.type = "located-in" /\ e.fact.from = move.who}, at)
    ELSE Adds(g, {Edge(at, InPlace(move.who, move.to), "fold")})

\* A move to where he already stands changes nothing.
Moves(g, move, at) ==
    LET standing == {e \in Standing(g, at) : e.fact.type = "located-in" /\ e.fact.from = move.who}
        left == Ends(g, standing, at)
    IN IF \E e \in standing : e.fact.to = move.to THEN g
       ELSE IF move.to = Nil THEN left
       ELSE Adds(left, {Edge(at, InPlace(move.who, move.to), "fold")})

\* kept: FALSE if the item is lost or destroyed on the way.
Hands(g, hand, at) ==
    LET held == {e \in Standing(g, at) : e.fact.type = "carries" /\ e.fact.to = hand.item}
        left == Ends(g, held, at)
    IN IF \E e \in held : e.fact.from = hand.to THEN g
       ELSE IF hand.to = Nil \/ ~hand.kept THEN left
       ELSE Adds(left, {Edge(at, Carries(hand.to, hand.item), "fold")})

\* Beliefs that are forgotten or disproved, named by what they say.
Forgets(g, facts, at) == Ends(g, {e \in Standing(g, at) : e.fact \in facts}, at)

\* delta.said: what the scene asserts, without the edges of entities that have no sheet.
Fold(g, delta, at) ==
    LET asserted == Adds(g, {Edge(at, fact, "model") : fact \in delta.said})
        ended == Ends(asserted, delta.ended, at)
        moved == FoldLeft(LAMBDA h, move : Moves(h, move, at), ended, delta.moves)
        handed == FoldLeft(LAMBDA h, hand : Hands(h, hand, at), moved, delta.hands)
    IN Forgets(handed, delta.forgotten, at)

-----------------------------------------------------------------------------
HasSheets(fact) == {fact.from, fact.to} \subseteq Sheets

\* #findRetractable: of the edges that say it and stand, whichever comes first.
Ended(g, over, at) ==
    LET said(fact) == {e \in Standing(g, at) : e.fact = fact}
    IN {ended \in SUBSET UNION {said(fact) : fact \in over} :
            \A fact \in over : Cardinality(ended \cap said(fact)) = Min({1, Cardinality(said(fact))})}

Deltas(g, told, at) ==
    {[said |-> {fact \in told.said : HasSheets(fact)}, ended |-> ended,
      moves |-> told.moves, hands |-> told.hands, forgotten |-> told.forgotten] :
         ended \in Ended(g, told.over, at)}

-----------------------------------------------------------------------------

IdleStage == [pc |-> "idle", scene |-> 0, graph |-> <<>>, aborted |-> FALSE, verdict |-> "none"]

WorldInit ==
    /\ \E facts \in Before : db = [e \in {Edge(0, fact, "model") : fact \in facts} |-> Nil]
    /\ stage = [s \in Stages |-> IdleStage]
    /\ budget = [starts |-> MaxTellings, crashes |-> MaxTears]
    /\ lapses = {}

\* execute and the beginning of #run; a stage that runs again runs from the first scene.
BeginTelling(s) ==
    /\ stage[s].pc \in {"idle", "done", "failed", "refused"} /\ budget.starts > 0
    /\ stage' = [stage EXCEPT ![s] = [IdleStage EXCEPT !.pc = "telling", !.scene = 1, !.graph = db]]
    /\ budget' = [budget EXCEPT !.starts = @ - 1]
    /\ lapses' = lapses \cup (IF budget.starts = MaxTellings THEN {} ELSE {"again"})
    /\ UNCHANGED db

\* An aborted stage folds what it has asked for, the signal not being given to the call, and
\* stops before the next scene.
AbortTelling(s) ==
    /\ stage[s].pc = "telling" /\ ~stage[s].aborted
    /\ stage' = [stage EXCEPT ![s].aborted = TRUE]
    /\ UNCHANGED <<db, budget, lapses>>

\* An extraction fails, or, after the last scene is written, a semantic pass.
ModelFails(s) ==
    /\ stage[s].pc \in {"telling", "checking"}
    /\ stage' = [stage EXCEPT ![s].pc = "failed"]
    /\ UNCHANGED <<db, budget, lapses>>

Added(g, folded) == DOMAIN folded \ DOMAIN g

EndedIn(g, folded) == {e \in DOMAIN g : folded[e] # g[e]}

\* write: in one transaction, and what is there stays as it is.
Stored(added) == Adds(db, added)

\* Not the code: what ends is deleted.
BrokenBounded(g, edges, at) == [e \in DOMAIN g \ edges |-> g[e]]

\* bound: every edge gets the end it has in memory.
Bounded(g, edges, at) == [e \in DOMAIN g |-> IF e \in edges THEN at ELSE g[e]]

\* Subjects that one scene moves, or items that it hands on, more than once.
Repeats(told) ==
    \/ \E i, j \in DOMAIN told.moves : i # j /\ told.moves[i].who = told.moves[j].who
    \/ \E i, j \in DOMAIN told.hands : i # j /\ told.hands[i].item = told.hands[j].item

LapsesOf(told) ==
    (IF Repeats(told) THEN {"twice"} ELSE {})
        \cup (IF \E fact \in told.said : fact.type # "knows" THEN {"said"} ELSE {})

\* The check of every episode that was told of, over the whole graph.
Verdict(g) ==
    IF \E d, e \in DOMAIN g : Contradicts(g, d, e) THEN "reported" ELSE "clear"

CheckEpisodes(s) ==
    /\ stage[s].pc = "checking"
    /\ stage' = [stage EXCEPT ![s].pc = "done", ![s].verdict = Verdict(stage[s].graph)]
    /\ UNCHANGED <<db, budget, lapses>>

\* The model answers; what follows is one turn.  An edge that the fold adds may name an
\* entity that has no row: the transaction fails, and the stage with it.
Tell(s, told) ==
    LET at == stage[s].scene  g == stage[s].graph
    IN /\ stage[s].pc = "telling"
       /\ \E delta \in Deltas(g, told, at) :
              LET folded == Fold(g, delta, at)
                  added == Added(g, folded)
                  isLast == at = NumScenes \/ stage[s].aborted
              IN IF \E e \in added : ~HasSheets(e.fact)
                 THEN /\ stage' = [stage EXCEPT ![s].pc = "refused"]
                      /\ UNCHANGED <<db, lapses>>
                 ELSE /\ db' = Bounded(Stored(added), EndedIn(g, folded), at)
                      /\ stage' = [stage EXCEPT
                             ![s].graph = folded, ![s].scene = at + 1,
                             ![s].pc = IF isLast THEN "checking" ELSE "telling"]
                      /\ lapses' = lapses \cup LapsesOf(told)
       /\ UNCHANGED budget

\* The process dies between write and bound, or bound fails.
Tear(s, told) ==
    LET at == stage[s].scene  g == stage[s].graph
    IN /\ stage[s].pc = "telling" /\ budget.crashes > 0
       /\ \E delta \in Deltas(g, told, at) :
              LET folded == Fold(g, delta, at)
              IN /\ \A e \in Added(g, folded) : HasSheets(e.fact)
                 /\ EndedIn(g, folded) # {}
                 /\ db' = Stored(Added(g, folded))
       /\ stage' = [t \in Stages |-> IdleStage]
       /\ budget' = [budget EXCEPT !.crashes = @ - 1]
       /\ lapses' = lapses \cup {"torn"} \cup LapsesOf(told)

WorldNext ==
    \E s \in Stages :
        \/ BeginTelling(s) \/ AbortTelling(s) \/ ModelFails(s) \/ CheckEpisodes(s)
        \/ \E told \in Tellings : Tell(s, told) \/ Tear(s, told)

WorldSpec == WorldInit /\ [][WorldNext]_worldVars

-----------------------------------------------------------------------------
\* Properties.

Edges == [scene : 0 .. NumScenes, fact : AllFacts, by : {"model", "fold"}]

IsGraph(g) ==
    DOMAIN g \subseteq Edges /\ \A e \in DOMAIN g : g[e] = Nil \/ g[e] \in e.scene + 1 .. NumScenes

\* The variables have their types; no interval of story time is empty.
WorldTypeOK ==
    /\ IsGraph(db)
    /\ \A s \in Stages :
          /\ stage[s].pc \in {"idle", "telling", "checking", "done", "failed", "refused"}
          /\ stage[s].scene \in 0 .. NumScenes + 1 /\ IsGraph(stage[s].graph)
          /\ stage[s].aborted \in BOOLEAN /\ stage[s].verdict \in {"none", "clear", "reported"}
    /\ budget \in [starts : 0 .. MaxTellings, crashes : 0 .. MaxTears]
    /\ lapses \subseteq {"again", "torn", "said", "twice"}

\* A fact that stops being true is bounded, not deleted: whatever a scene changes, and
\* wherever it is cut off, every earlier moment of the story is as it was
\* (fold-state-delta.ts: "an as-of query at an earlier story time still returns it").
HistoryIsKept ==
    [][\A s \in Stages :
          stage[s].pc = "telling" /\ db' # db =>
              \A time \in 0 .. stage[s].scene - 1 :
                  {e \in DOMAIN db : IsValidAt(db, e, time)}
                      = {e \in DOMAIN db' : IsValidAt(db', e, time)}]_worldVars

IsTwofold(g, time) ==
    \E d, e \in DOMAIN g :
        /\ d.fact.type = "located-in" /\ e.fact.type = "located-in"
        /\ d.fact.from = e.fact.from /\ d.fact.to # e.fact.to
        /\ IsValidAt(g, d, time) /\ IsValidAt(g, e, time)

\* A stage that comes to its end reports an error of two places, which keeps the episode
\* from airing, just if there is a moment of the story at which somebody is in two places, whoever
\* brought that about and whenever.
TwoPlacesAreReported ==
    /\ WorldTypeOK
    /\ \A s \in Stages : stage[s].pc = "done" =>
          (stage[s].verdict = "reported" <=> \E time \in 0 .. NumScenes : IsTwofold(stage[s].graph, time))

OnePlace(g) ==
    /\ \A time \in 0 .. NumScenes : ~IsTwofold(g, time)
    /\ \A d, e \in DOMAIN g :
           d.fact.type = "carries" /\ e.fact.type = "carries" /\ d.fact.to = e.fact.to
               /\ d.fact.from # e.fact.from => ~Overlap(g, d, e)

\* A series that is told once, in order and to its end, whose scenes report where people
\* and things go and do so once for each, has everybody in one place and every thing in
\* one hand, at every moment.
OrderlyTellingIsConsistent == lapses = {} => OnePlace(db)

\* What comments of the code say and the code does not do, or what it does not say.

\* world-stage.handler.ts: "an introduced entity is reported and the edges that touch it
\* are held back, rather than persisted against a node nobody wrote".
IntroducedIsHeldBack == \A s \in Stages : stage[s].pc # "refused"

\* fold-state-delta.ts: "folding the same delta twice produces a byte-identical graph".
FoldIsIdempotent ==
    \A s \in Stages : stage[s].pc = "telling" =>
        LET at == stage[s].scene  g == stage[s].graph
        IN \A told \in Tellings : \A delta \in Deltas(g, told, at) :
               Fold(Fold(g, delta, at), delta, at) = Fold(g, delta, at)

\* Each lapse alone is enough.
RerunIsHarmless == lapses \subseteq {"again"} => OnePlace(db)
TearIsHealed == lapses \subseteq {"again", "torn"} /\ (\E s \in Stages : stage[s].pc = "done") => OnePlace(db)
PlacesMayBeSaid == lapses \subseteq {"said"} => OnePlace(db)
MovesMayRepeat == lapses \subseteq {"twice"} => OnePlace(db)
=============================================================================
