---------------------------- MODULE StoryOutline ----------------------------
(***************************************************************************)
(* The outline of one series: a tree of nodes in one JSON file, planted,   *)
(* grown a level at a time, edited and regrown by HTTP requests and by the *)
(* story stage (apps/api/src/story).                                       *)
(*                                                                         *)
(* Every operation loads the whole document, makes another one from it     *)
(* (some of them over minutes of model calls) and saves that one whole:    *)
(* writes it to a staging file whose name all operations share, and        *)
(* renames it.  Nothing is locked.  A step ends at each of these awaits.   *)
(*                                                                         *)
(* A node is named by its path, a sequence of <<call, ordinal>>: which     *)
(* expansion call made it, and of each of its ancestors.  A node's parent  *)
(* never changes, so the path says what parentId says.  A text is the      *)
(* number of the edit that wrote it, 0 if a model (or the premise) did.    *)
(* Of the context only whether there is one matters; the card of the       *)
(* series, marked when a stage ends, is another component's.               *)
(*                                                                         *)
(* Definitions named Broken... are not the code, see PipelineRunner.       *)
(***************************************************************************)
EXTENDS Naturals, Sequences, SequencesExt, FiniteSets

CONSTANTS
    Requests,      \* requests and stages that can be in progress at once
    Depth,         \* the leaf level; the series is level 0
    HistoryLimit,  \* past texts a node keeps, 32 in the code
    MaxChildren,   \* bound: children of one expansion call
    MaxStarts,     \* bound: requests and stages begun
    MaxCalls,      \* bound: expansion calls answered
    MaxCrashes,    \* bound: crashes of the process
    MaxFaults,     \* bound: reads of the file that fail
    None,          \* no file
    Blank, Garbled \* a file opened and not yet written; one written by two at once

ASSUME DepthAssumption == Depth \in Nat \ {0}
ASSUME HistoryLimitAssumption == HistoryLimit \in Nat \ {0}
ASSUME MaxChildrenAssumption == MaxChildren \in Nat
ASSUME FileAssumption == Cardinality({None, Blank, Garbled}) = 3

VARIABLES
    stored,   \* <series>.json: None, or what the file holds
    staging,  \* <series>.json.tmp, the same
    op,       \* what each request is doing
    spent     \* how much of each bound has been used

vars == <<stored, staging, op, spent>>

files == <<stored, staging>>

-----------------------------------------------------------------------------
\* Documents.

Root == <<>>

Level(n) == Len(n)

ParentOf(n) == Front(n)

\* The expansion call that made a node.
CallOf(n) == Last(n)[1]

Node == [text : Nat, stale : BOOLEAN, past : {texts \in Seq(Nat) : Len(texts) <= HistoryLimit},
         against : Seq(Nat)]

Empty == [context |-> FALSE, nodes |-> [n \in {} |-> {}]]

NewNode(against) == [text |-> 0, stale |-> FALSE, past |-> <<>>, against |-> against]

BrokenDescendants(nodes, n) == {m \in DOMAIN nodes : m # n /\ Level(m) >= Level(n)}

\* descendantIdsOf
Descendants(nodes, n) == {m \in DOMAIN nodes : IsStrictPrefix(n, m)}

\* The texts above a node, from the root down: what it answers when it is written.
TextsAbove(nodes, n) == [i \in 1 .. Len(n) |-> nodes[SubSeq(n, 1, i - 1)].text]

At(nodes, level) == {n \in DOMAIN nodes : Level(n) = level}

Without(nodes, gone) == [n \in DOMAIN nodes \ gone |-> nodes[n]]

Join(nodes, more) ==
    [n \in DOMAIN nodes \cup DOMAIN more |-> IF n \in DOMAIN more THEN more[n] ELSE nodes[n]]

\* Not the code: the context is left to the intake.
BrokenPlanted(doc) == [doc EXCEPT !.nodes = [n \in {Root} |-> NewNode(<<>>)]]

\* plantRoot: the premise becomes the root, the context and the whole tree.
Planted(doc) == [context |-> TRUE, nodes |-> [n \in {Root} |-> NewNode(<<>>)]]

\* #recordIntake and POST intake.
Recorded(doc) == [doc EXCEPT !.context = TRUE]

\* The last of a node's texts, as many as the history keeps.
Latest(texts) ==
    IF Len(texts) <= HistoryLimit THEN texts
    ELSE SubSeq(texts, Len(texts) - HistoryLimit + 1, Len(texts))

\* Not the code: the text that is replaced does not go into a history that is full.
BrokenRewritten(nodes, n, text) ==
    [text |-> text, stale |-> FALSE,
     past |-> IF Len(nodes[n].past) = HistoryLimit THEN nodes[n].past
              ELSE Append(nodes[n].past, nodes[n].text),
     against |-> TextsAbove(nodes, n)]

\* The new text, with the one it replaces in the history.
Rewritten(nodes, n, text) ==
    [text |-> text, stale |-> FALSE, past |-> Latest(Append(nodes[n].past, nodes[n].text)),
     against |-> TextsAbove(nodes, n)]

\* Not the code: of those that are kept, only the children are marked.
BrokenEdited(doc, n, text, keep) ==
    LET left  == IF keep THEN doc.nodes ELSE Without(doc.nodes, Descendants(doc.nodes, n))
        under == {m \in DOMAIN left \ {Root} : ParentOf(m) = n}
    IN [doc EXCEPT !.nodes =
           [m \in DOMAIN left |->
               IF m = n THEN Rewritten(doc.nodes, n, text)
               ELSE [left[m] EXCEPT !.stale = @ \/ m \in under]]]

\* editNode: descendants are marked stale, or dropped.
Edited(doc, n, text, keep) ==
    LET under == Descendants(doc.nodes, n)
        left  == IF keep THEN doc.nodes ELSE Without(doc.nodes, under)
    IN [doc EXCEPT !.nodes =
           [m \in DOMAIN left |->
               IF m = n THEN Rewritten(doc.nodes, n, text)
               ELSE [left[m] EXCEPT !.stale = @ \/ m \in under]]]

\* expandLevel and regenerateNode: what was grown, in place of what was below.
Regrown(doc, n, grown) ==
    [doc EXCEPT !.nodes = Join(Without(doc.nodes, Descendants(doc.nodes, n)), grown)]

Expanded(doc, grown) == [doc EXCEPT !.nodes = Join(doc.nodes, grown)]

-----------------------------------------------------------------------------
\* Operations.  What an operation is asked: plant the root, record an intake, expand a
\* level, edit a node (keeping its children or not), regenerate a node, end the stage.

Ask(kind) == [kind |-> kind, level |-> 0, node |-> Root, keep |-> FALSE]

Asks ==
    {Ask("plant"), Ask("intake")}
    \cup {[Ask("expand") EXCEPT !.level = l] : l \in 1 .. Depth}

AsksOf(n) ==
    {[Ask("regenerate") EXCEPT !.node = n]}
    \cup {[Ask("edit") EXCEPT !.node = n, !.keep = k] : k \in BOOLEAN}

\* The story stage: intake, the root, the intake's context, then level by level.
StageAsks == <<Ask("plant"), Ask("record")>>
             \o [l \in 1 .. Depth |-> [Ask("expand") EXCEPT !.level = l]]

Start(ask, rest, stage) ==
    [pc |-> IF stage \/ ask.kind = "intake" THEN "briefing" ELSE "loading",
     ask |-> ask, rest |-> rest, stage |-> stage, aborted |-> FALSE,
     base |-> Empty, todo |-> {}, grown |-> Empty.nodes, doc |-> Empty, file |-> "none",
     late |-> 0]

Idle == [pc |-> "idle"]

Busy(r) == op[r] # Idle

-----------------------------------------------------------------------------
\* Files.  A file is empty once it is opened for writing and whole once it is written;
\* a second writer of the same file leaves the tail of the longer document behind.  A save
\* holds the file it opened under whatever name that has by now, or under none.

Unreadable == {Blank, Garbled}

Readable == stored \notin Unreadable

\* No file is an empty document.
Outline == IF stored = None THEN Empty ELSE stored

\* load: the outline; or an empty document as well, if the file cannot be read.
Loads ==
    (IF Readable THEN {Outline} ELSE {}) \cup (IF spent.faults < MaxFaults THEN {Empty} ELSE {})

IsMisread(doc) == ~Readable \/ doc # Outline

Counted(doc) == IF IsMisread(doc) THEN [spent EXCEPT !.faults = @ + 1] ELSE spent

\* The nodes a client can have been shown.
Shown == IF Readable THEN DOMAIN Outline.nodes ELSE {}

Init ==
    /\ stored = None /\ staging = None
    /\ op = [r \in Requests |-> Idle]
    /\ spent = [starts |-> 0, calls |-> 0, edits |-> 0, crashes |-> 0, faults |-> 0]

-----------------------------------------------------------------------------
\* The requests.

Begin(r, ask, rest, stage) ==
    /\ ~Busy(r)
    /\ spent.starts < MaxStarts
    /\ spent' = [spent EXCEPT !.starts = @ + 1]
    /\ op' = [op EXCEPT ![r] = Start(ask, rest, stage)]
    /\ UNCHANGED files

\* Refused, failed or answered.
End(r) == op' = [op EXCEPT ![r] = Idle]

Fails(r) ==
    /\ op[r].pc \in {"briefing", "growing", "ending"}
    /\ End(r)
    /\ UNCHANGED <<files, spent>>

\* The intake call answers.
Briefed(r) ==
    /\ op[r].pc = "briefing"
    /\ op' = [op EXCEPT ![r].pc = "loading"]
    /\ UNCHANGED <<files, spent>>

\* The stage goes on to its next operation; a level is begun only if it is not aborted.
GoesOn(o) ==
    IF o.rest = <<>> \/ (o.aborted /\ Head(o.rest).kind = "expand")
    THEN [o EXCEPT !.pc = "ending", !.doc = Empty, !.rest = <<>>]
    ELSE [o EXCEPT !.pc = "loading", !.doc = Empty, !.ask = Head(o.rest), !.rest = Tail(o.rest)]

\* A conflict stops a request.  The stage goes on from a root that exists to its own
\* intake, and from a level that exists to its end.
Conflicts(r) ==
    IF ~op[r].stage THEN End(r)
    ELSE op' = [op EXCEPT ![r] = IF op[r].ask.kind = "plant" THEN GoesOn(op[r])
                                 ELSE [op[r] EXCEPT !.pc = "ending"]]

Saves(r, doc) == op' = [op EXCEPT ![r].pc = "saving", ![r].doc = doc]

\* An expansion call leaves for one of the parents, unless the stage is aborted.
CallsFor(r, base, parents) ==
    IF op[r].aborted THEN End(r)
    ELSE op' = [op EXCEPT ![r].pc = "growing", ![r].base = base, ![r].todo = parents,
                          ![r].grown = Empty.nodes]

Loading(r, kind, doc) == op[r].pc = "loading" /\ op[r].ask.kind = kind /\ doc \in Loads

\* The stored file does not parse.
LoadFails(r) ==
    /\ op[r].pc = "loading"
    /\ ~Readable
    /\ End(r)
    /\ UNCHANGED <<files, spent>>

Plant(r, doc) ==
    /\ Loading(r, "plant", doc)
    /\ IF At(doc.nodes, 0) # {} THEN Conflicts(r) ELSE Saves(r, Planted(doc))
    /\ spent' = Counted(doc)
    /\ UNCHANGED files

Record(r, doc) ==
    /\ \E kind \in {"intake", "record"} : Loading(r, kind, doc)
    /\ Saves(r, Recorded(doc))
    /\ spent' = Counted(doc)
    /\ UNCHANGED files

Edit(r, doc) ==
    /\ Loading(r, "edit", doc)
    /\ IF op[r].ask.node \notin DOMAIN doc.nodes
       THEN End(r) /\ spent' = Counted(doc)
       ELSE /\ Saves(r, Edited(doc, op[r].ask.node, spent.edits + 1, op[r].ask.keep))
            /\ spent' = [Counted(doc) EXCEPT !.edits = @ + 1]
    /\ UNCHANGED files

\* Not the code: an existing level is expanded again.
BrokenMayExpand(doc, level) == doc.context /\ At(doc.nodes, level - 1) # {}

\* The level below the deepest one that exists, and no other.
MayExpand(doc, level) ==
    /\ doc.context
    /\ At(doc.nodes, level - 1) # {}
    /\ At(doc.nodes, level) = {}

Expand(r, doc) ==
    LET level == op[r].ask.level
    IN /\ Loading(r, "expand", doc)
       /\ IF MayExpand(doc, level)
          THEN CallsFor(r, doc, At(doc.nodes, level - 1))
          ELSE Conflicts(r)
       /\ spent' = Counted(doc)
       /\ UNCHANGED files

Regenerate(r, doc) ==
    LET n == op[r].ask.node
    IN /\ Loading(r, "regenerate", doc)
       /\ IF n \in DOMAIN doc.nodes /\ doc.context /\ Level(n) < Depth
          THEN CallsFor(r, doc, {n}) ELSE End(r)
       /\ spent' = Counted(doc)
       /\ UNCHANGED files

-----------------------------------------------------------------------------
\* #growChildren: one call per parent, all from the document as it was loaded.

Children(nodes, p, call, count) ==
    [n \in {Append(p, <<call, k>>) : k \in 1 .. count} |->
        NewNode(Append(TextsAbove(nodes, p), nodes[p].text))]

\* Not the code: the signal is not handed to the calls.
BrokenIsCalledOff(o) == FALSE

\* A call that is about to leave looks at the signal of its run.
IsCalledOff(o) == o.aborted

\* The document to be saved once the last parent's children are there.
Complete(o, grown) ==
    IF o.ask.kind = "regenerate" THEN Regrown(o.base, o.ask.node, grown)
    ELSE Expanded(o.base, grown)

Grow(r, count) ==
    LET o     == op[r]
        p     == CHOOSE q \in o.todo : TRUE
        grown == Join(o.grown, Children(o.base.nodes, p, spent.calls + 1, count))
        left  == o.todo \ {p}
        late  == IF o.aborted THEN o.late + 1 ELSE o.late
    IN /\ o.pc = "growing"
       /\ spent.calls < MaxCalls
       /\ spent' = [spent EXCEPT !.calls = @ + 1]
       /\ \/ /\ left = {}
             /\ op' = [op EXCEPT ![r] =
                   [o EXCEPT !.pc = "saving", !.doc = Complete(o, grown), !.todo = {},
                             !.base = Empty, !.grown = Empty.nodes, !.late = late]]
          \/ /\ left # {} /\ ~IsCalledOff(o)
             /\ op' = [op EXCEPT ![r] =
                   [o EXCEPT !.todo = left, !.grown = grown, !.late = late]]
          \/ left # {} /\ IsCalledOff(o) /\ End(r)
       /\ UNCHANGED files

\* The run is cancelled.
Abort(r) ==
    /\ Busy(r) /\ op[r].stage /\ ~op[r].aborted
    /\ op' = [op EXCEPT ![r].aborted = TRUE]
    /\ UNCHANGED <<files, spent>>

-----------------------------------------------------------------------------
\* save

\* The staging file is opened, and emptied if another save has it.
OpenStaging(r) ==
    /\ op[r].pc = "saving"
    /\ staging' = Blank
    /\ op' = [op EXCEPT ![r].pc = "writing", ![r].file = "staging"]
    /\ UNCHANGED <<stored, spent>>

\* Written where another save has written since: one of the two is the longer.
Written(doc, held) == IF held = Blank THEN {doc} ELSE {doc, Garbled}

WriteStaging(r) ==
    /\ op[r].pc = "writing"
    /\ op' = [op EXCEPT ![r].pc = "renaming", ![r].file = "none"]
    /\ \/ op[r].file = "staging" /\ staging' \in Written(op[r].doc, staging) /\ UNCHANGED stored
       \/ op[r].file = "stored" /\ stored' \in Written(op[r].doc, stored) /\ UNCHANGED staging
       \/ op[r].file = "nameless" /\ UNCHANGED files
    /\ UNCHANGED spent

\* The disk is full, say: the error is answered, and the half file stays.
WriteFails(r) ==
    /\ op[r].pc = "writing"
    /\ End(r)
    /\ UNCHANGED <<files, spent>>

\* What follows a save.
Saved(o) == IF o.stage THEN GoesOn(o) ELSE Idle

\* Another save's file after a rename.
NameOf(file) ==
    CASE file = "staging" -> "stored" [] file = "stored" -> "nameless" [] OTHER -> file

\* The staging file, whoever wrote it, becomes the outline.
Rename(r) ==
    /\ op[r].pc = "renaming"
    /\ \/ staging = None /\ End(r) /\ UNCHANGED files
       \/ /\ staging # None
          /\ stored' = staging /\ staging' = None
          /\ op' = [q \in Requests |->
                IF q = r THEN Saved(op[r])
                ELSE IF Busy(q) THEN [op[q] EXCEPT !.file = NameOf(@)] ELSE Idle]
    /\ UNCHANGED spent

\* The critique, or the stage's request for none, and the mark on the card.
Critiqued(r) ==
    /\ op[r].pc = "ending"
    /\ End(r)
    /\ UNCHANGED <<files, spent>>

Crash ==
    /\ spent.crashes < MaxCrashes
    /\ \E r \in Requests : Busy(r)
    /\ spent' = [spent EXCEPT !.crashes = @ + 1]
    /\ op' = [r \in Requests |-> Idle]
    /\ UNCHANGED files

-----------------------------------------------------------------------------
Works(r) ==
    \/ Briefed(r) \/ Fails(r)
    \/ LoadFails(r)
    \/ \E doc \in Loads :
          Plant(r, doc) \/ Record(r, doc) \/ Edit(r, doc) \/ Expand(r, doc) \/ Regenerate(r, doc)
    \/ \E count \in 1 .. MaxChildren : Grow(r, count)
    \/ OpenStaging(r) \/ WriteStaging(r) \/ WriteFails(r) \/ Rename(r)
    \/ Critiqued(r)

\* A client asks about nodes it has been shown.
Next ==
    \/ \E r \in Requests : Works(r) \/ (Busy(r) /\ Abort(r))
    \/ \E r \in Requests, ask \in Asks : Begin(r, ask, <<>>, FALSE)
    \/ \E r \in Requests, n \in Shown : \E ask \in AsksOf(n) :
          Begin(r, ask, <<>>, FALSE)
    \/ \E r \in Requests : Begin(r, Head(StageAsks), Tail(StageAsks), TRUE)
    \/ Crash

Spec == Init /\ [][Next]_vars

-----------------------------------------------------------------------------
\* Properties.

\* A document that could be stored: there are no nodes without a context.
Document(doc) ==
    /\ doc.context \in BOOLEAN
    /\ \A n \in DOMAIN doc.nodes : doc.nodes[n] \in Node
    /\ DOMAIN doc.nodes # {} => doc.context

\* The variables have their types; a save that is writing has a file, and a growing one
\* a parent that is left.
TypeOK ==
    /\ \A held \in {stored, staging} : held \in Unreadable \cup {None} \/ Document(held)
    /\ \A r \in Requests : Busy(r) =>
          /\ Document(op[r].base) /\ Document(op[r].doc)
          /\ op[r].pc = "writing" <=> op[r].file # "none"
          /\ op[r].pc = "growing" => op[r].todo # {} /\ op[r].todo \subseteq DOMAIN op[r].base.nodes

\* Whatever overlaps, what is stored is a tree grown level by level: every node has its
\* parent, and no node has two generations of children ("not a state the tree can
\* represent", regenerateNode): siblings come from one call.
SoundTree(nodes) ==
    /\ \A n \in DOMAIN nodes : n # Root => ParentOf(n) \in DOMAIN nodes
    /\ \A m, n \in DOMAIN nodes \ {Root} : ParentOf(m) = ParentOf(n) => CallOf(m) = CallOf(n)

TreeIsSound == TypeOK /\ (Readable => SoundTree(Outline.nodes))

\* A node that is not marked stale answers the instructions above it: every text from the
\* root down to its parent is the one that stood there when it was written (editNode,
\* "simply no longer answering the instruction above it").
UnmarkedNodesAreCurrent ==
    Readable => \A n \in DOMAIN Outline.nodes :
        ~Outline.nodes[n].stale => Outline.nodes[n].against = TextsAbove(Outline.nodes, n)

\* After a cancel, the expansion call that is out may answer, and no other is made: not
\* for the next parent, not for the next level.
CancelledStageStops == \A r \in Requests : Busy(r) => op[r].late <= 1

\* What an operation has read when it has made what it saves.
Read(r) == IF op[r].pc = "growing" THEN op[r].base ELSE Outline

AskedToDrop(o, n) ==
    /\ o.ask.kind = "regenerate" \/ (o.ask.kind = "edit" /\ ~o.ask.keep)
    /\ IsStrictPrefix(o.ask.node, n)

Texts(node) == Range(node.past) \cup {node.text}

\* The oldest text of a history that is full.
Oldest(node) == IF Len(node.past) = HistoryLimit THEN {Head(node.past)} ELSE {}

Survives(node, nodes, n) ==
    n \in DOMAIN nodes /\ Texts(node) \ Oldest(node) \subseteq Texts(nodes[n])

\* "An edit never deletes silently": what an operation is about to save has every node of
\* the outline it read, but those it was asked to drop, and every text of theirs, but the
\* oldest of a full history; unless the file could not be read.
DropsOnlyWhatIsAsked ==
    [][\A r \in Requests :
          op[r].pc # "saving" /\ op'[r].pc = "saving" /\ spent'.faults = spent.faults =>
              \A n \in DOMAIN Read(r).nodes :
                  \/ AskedToDrop(op[r], n)
                  \/ Survives(Read(r).nodes[n], op'[r].doc.nodes, n)]_vars

\* What comments of the code say and the code does not do.

RegrownIsSaved(r) ==
    /\ op[r].pc = "renaming" /\ op'[r] # op[r]
    /\ op[r].ask.kind = "regenerate" /\ staging = op[r].doc
    /\ Readable

\* story.controller.ts on regenerate: "A sibling's subtree is untouched."  It is replaced
\* by the one that was read before the calls were made, edits since then and all.
SiblingsAreUntouched ==
    [][\A r \in Requests :
          RegrownIsSaved(r) =>
              \A n \in DOMAIN Outline.nodes \cap DOMAIN op[r].doc.nodes :
                  IsPrefix(op[r].ask.node, n) \/ Survives(Outline.nodes[n], op[r].doc.nodes, n)]_vars

\* story.store.ts, save: the rename is there so that no "truncated document" is "the only
\* copy of an outline that cost real money to produce".
StoredOutlineIsWhole == Readable

\* outline.service.ts, plantRoot: a series that "already has a series root" is not given
\* another.  But a read that fails is taken for an outline that is not there.
RootIsNotReplaced ==
    [][\A r \in Requests :
          op'[r].pc = "saving" /\ op[r].pc = "loading" /\ op[r].ask.kind = "plant" =>
              stored = None \/ (Readable /\ At(Outline.nodes, 0) = {})]_vars

=============================================================================
