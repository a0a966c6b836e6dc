---------------------------- MODULE SeriesProofs ----------------------------
(***************************************************************************)
(* Proofs about the two things that are stored of a series: its outline    *)
(* (StoryOutline), for any requests, depth and bounds, and the graph of    *)
(* its world (WorldGraph), for any stages, entities, tellings and bounds.  *)
(* They share no state and no names.                                       *)
(*                                                                         *)
(* 1. What a cancelled stage still does.                                   *)
(* 2. What the operations make of a tree.                                  *)
(* 3. That every document, on disk or in progress, holds such a tree.      *)
(* 4. What a scene does to the graph of the world.                         *)
(* 5. What the world stage reports, what it leaves alone, and when nobody  *)
(*    is in two places.                                                    *)
(***************************************************************************)
EXTENDS StoryOutline, WorldGraph, FoldLemmas

-----------------------------------------------------------------------------
\* The shape of an operation.

Fields == {"pc", "ask", "rest", "stage", "aborted", "base", "todo", "grown", "doc", "file",
           "late"}

Shape ==
    /\ DOMAIN op = Requests
    /\ \A r \in Requests : Busy(r) => DOMAIN op[r] = Fields

\* A stage that was not cancelled has made no call after its cancel, and one that is between
\* two calls has not either: the one that is out when it is cancelled is the last.
IsInTime(o) ==
    /\ o.aborted \in BOOLEAN
    /\ o.late \in {0, 1}
    /\ ~o.aborted \/ o.pc = "growing" => o.late = 0

LateInv == Shape /\ \A r \in Requests : Busy(r) => IsInTime(op[r])

\* An operation that goes on as o; the others stay as they are.
LEMMA OneMoves ==
    ASSUME LateInv, NEW r \in Requests, NEW o, op' = [op EXCEPT ![r] = o],
           o = Idle \/ (DOMAIN o = Fields /\ IsInTime(o))
    PROVE  LateInv'
  BY DEF LateInv, Shape, Busy

LEMMA EndsLate ==
    ASSUME LateInv, NEW r \in Requests, End(r)
    PROVE  LateInv'
  BY OneMoves DEF End

\* The step leaves the operation's signal and its count alone, and begins no growing.
LEMMA QuietLate ==
    ASSUME LateInv, NEW r \in Requests, Busy(r), NEW o, op' = [op EXCEPT ![r] = o],
           DOMAIN o = Fields, o.aborted = op[r].aborted, o.late = op[r].late,
           o.pc # "growing"
    PROVE  LateInv'
  BY OneMoves DEF LateInv, IsInTime

LEMMA GoesOnFields ==
    ASSUME LateInv, NEW r \in Requests, Busy(r)
    PROVE  LET o == GoesOn(op[r])
           IN /\ DOMAIN o = Fields /\ o.aborted = op[r].aborted /\ o.late = op[r].late
              /\ o.pc # "growing"
  BY DEF LateInv, Shape, GoesOn, Fields

LEMMA ConflictsLate ==
    ASSUME LateInv, NEW r \in Requests, Busy(r), Conflicts(r)
    PROVE  LateInv'
PROOF
  <1>1. CASE End(r)
    BY <1>1, EndsLate
  <1>2. CASE op' = [op EXCEPT ![r] = GoesOn(op[r])]
    BY <1>2, GoesOnFields, QuietLate
  <1>3. CASE op' = [op EXCEPT ![r] = [op[r] EXCEPT !.pc = "ending"]]
    <2>1. LET o == [op[r] EXCEPT !.pc = "ending"]
          IN /\ DOMAIN o = Fields /\ o.aborted = op[r].aborted /\ o.late = op[r].late
             /\ o.pc # "growing"
      BY DEF LateInv, Shape, Fields
    <2> QED
      BY <1>3, <2>1, QuietLate
  <1> QED
    BY <1>1, <1>2, <1>3 DEF Conflicts

\* Growing begins only if the stage is not cancelled.
LEMMA CallsForLate ==
    ASSUME LateInv, NEW r \in Requests, Busy(r), NEW base, NEW parents, CallsFor(r, base, parents)
    PROVE  LateInv'
PROOF
  <1>1. CASE op[r].aborted
    BY <1>1, EndsLate DEF CallsFor
  <1>2. CASE ~op[r].aborted
    <2> DEFINE o == [op[r] EXCEPT !.pc = "growing", !.base = base, !.todo = parents,
                                  !.grown = Empty.nodes]
    <2>1. DOMAIN o = Fields /\ IsInTime(o)
      BY <1>2 DEF LateInv, Shape, Fields, IsInTime
    <2>2. op' = [op EXCEPT ![r] = o]
      BY <1>2 DEF CallsFor, LateInv, Shape
    <2> HIDE DEF o
    <2> QED
      BY <2>1, <2>2, OneMoves
  <1> QED
    BY <1>1, <1>2

LEMMA GrowLate ==
    ASSUME LateInv, NEW r \in Requests, Busy(r), NEW count, Grow(r, count)
    PROVE  LateInv'
PROOF
  <1> DEFINE o     == op[r]
             p     == CHOOSE q \in o.todo : TRUE
             grown == Join(o.grown, Children(o.base.nodes, p, spent.calls + 1, count))
             left  == o.todo \ {p}
             late  == IF o.aborted THEN o.late + 1 ELSE o.late
             done  == [o EXCEPT !.pc = "saving", !.doc = Complete(o, grown), !.todo = {},
                                !.base = Empty, !.grown = Empty.nodes, !.late = late]
             more  == [o EXCEPT !.todo = left, !.grown = grown, !.late = late]
  <1>1. /\ o.pc = "growing" /\ o.late = 0 /\ o.aborted \in BOOLEAN /\ DOMAIN o = Fields
        /\ late = IF o.aborted THEN 1 ELSE 0
    BY DEF Grow, LateInv, IsInTime, Shape
  <1>2. CASE End(r)
    BY <1>2, EndsLate
  <1>3. CASE op' = [op EXCEPT ![r] = done]
    <2> HIDE DEF o, grown, left, late
    <2>1. DOMAIN done = Fields /\ IsInTime(done)
      BY <1>1 DEF Fields, IsInTime
    <2> HIDE DEF done
    <2> QED
      BY <1>3, <2>1, OneMoves
  <1>4. CASE ~o.aborted /\ op' = [op EXCEPT ![r] = more]
    <2> HIDE DEF o, grown, left, late
    <2>1. DOMAIN more = Fields /\ IsInTime(more)
      BY <1>1, <1>4 DEF Fields, IsInTime
    <2> HIDE DEF more
    <2> QED
      BY <1>4, <2>1, OneMoves
  <1> QED
    BY <1>2, <1>3, <1>4, Zenon DEF Grow, IsCalledOff

\* A save, or a part of it: the operation's signal and count are left alone.
LEMMA SaveLate ==
    ASSUME LateInv, NEW r \in Requests, Busy(r), NEW pc, pc # "growing", NEW doc, NEW file,
           \/ op' = [op EXCEPT ![r].pc = pc]
           \/ op' = [op EXCEPT ![r].pc = pc, ![r].doc = doc]
           \/ op' = [op EXCEPT ![r].pc = pc, ![r].file = file]
    PROVE  LateInv'
PROOF
  <1>1. DOMAIN op = Requests /\ DOMAIN op[r] = Fields
    BY DEF LateInv, Shape
  <1>2. CASE op' = [op EXCEPT ![r].pc = pc]
    <2> DEFINE o == [op[r] EXCEPT !.pc = pc]
    <2>1. DOMAIN o = Fields /\ o.pc = pc /\ o.aborted = op[r].aborted /\ o.late = op[r].late
      BY <1>1 DEF Fields
    <2>2. op' = [op EXCEPT ![r] = o]
      BY <1>2
    <2> HIDE DEF o
    <2> QED
      BY <2>1, <2>2, QuietLate
  <1>3. CASE op' = [op EXCEPT ![r].pc = pc, ![r].doc = doc]
    <2> DEFINE o == [op[r] EXCEPT !.pc = pc, !.doc = doc]
    <2>1. DOMAIN o = Fields /\ o.pc = pc /\ o.aborted = op[r].aborted /\ o.late = op[r].late
      BY <1>1 DEF Fields
    <2>2. op' = [op EXCEPT ![r] = o]
      BY <1>1, <1>3
    <2> HIDE DEF o
    <2> QED
      BY <2>1, <2>2, QuietLate
  <1>4. CASE op' = [op EXCEPT ![r].pc = pc, ![r].file = file]
    <2> DEFINE o == [op[r] EXCEPT !.pc = pc, !.file = file]
    <2>1. DOMAIN o = Fields /\ o.pc = pc /\ o.aborted = op[r].aborted /\ o.late = op[r].late
      BY <1>1 DEF Fields
    <2>2. op' = [op EXCEPT ![r] = o]
      BY <1>1, <1>4
    <2> HIDE DEF o
    <2> QED
      BY <2>1, <2>2, QuietLate
  <1> QED
    BY <1>2, <1>3, <1>4

\* After its rename a stage goes on; other saves hold their file under another name.
LEMMA RenameLate ==
    ASSUME LateInv, NEW r \in Requests, Busy(r), Rename(r)
    PROVE  LateInv'
PROOF
  <1>1. CASE End(r)
    BY <1>1, EndsLate
  <1>2. CASE op' = [q \in Requests |->
                IF q = r THEN Saved(op[r])
                ELSE IF Busy(q) THEN [op[q] EXCEPT !.file = NameOf(@)] ELSE Idle]
    <2>1. Saved(op[r]) = Idle
          \/ (DOMAIN Saved(op[r]) = Fields /\ IsInTime(Saved(op[r])))
      BY GoesOnFields DEF Saved, LateInv, IsInTime
    <2>2. ASSUME NEW q \in Requests, Busy(q)
          PROVE  /\ DOMAIN [op[q] EXCEPT !.file = NameOf(@)] = Fields
                 /\ IsInTime([op[q] EXCEPT !.file = NameOf(@)])
      BY <2>2 DEF LateInv, Shape, IsInTime, Fields
    <2>3. \A q \in Requests :
             op'[q] # Idle => DOMAIN op'[q] = Fields /\ IsInTime(op'[q])
      BY <1>2, <2>1, <2>2
    <2> QED
      BY <1>2, <2>3 DEF LateInv, Shape, Busy, IsInTime
  <1> QED
    BY <1>1, <1>2 DEF Rename

LEMMA AbortLate ==
    ASSUME LateInv, NEW r \in Requests, Busy(r), Abort(r)
    PROVE  LateInv'
PROOF
  <1> DEFINE o == [op[r] EXCEPT !.aborted = TRUE]
  <1>1. DOMAIN o = Fields /\ IsInTime(o)
    BY DEF Abort, LateInv, Shape, IsInTime, Fields
  <1>2. op' = [op EXCEPT ![r] = o]
    BY DEF Abort, LateInv, Shape
  <1> HIDE DEF o
  <1> QED
    BY <1>1, <1>2, OneMoves

LEMMA BeginLate ==
    ASSUME LateInv, NEW r \in Requests, NEW ask, NEW rest, NEW isStage, Begin(r, ask, rest, isStage)
    PROVE  LateInv'
PROOF
  <1>1. DOMAIN Start(ask, rest, isStage) = Fields /\ IsInTime(Start(ask, rest, isStage))
    BY DEF Start, Fields, IsInTime
  <1> QED
    BY <1>1, OneMoves DEF Begin

\* Only an operation in progress takes steps.
LEMMA WorksBusy ==
    ASSUME NEW r \in Requests, Works(r)
    PROVE  Busy(r)
PROOF
  <1>1. op[r].pc # "idle"
    BY DEF Works, Briefed, Fails, LoadFails, Plant, Record, Edit, Expand, Regenerate, Loading,
           Grow, OpenStaging, WriteStaging, WriteFails, Rename, Critiqued
  <1> QED
    BY <1>1 DEF Busy, Idle

LEMMA WorksLate ==
    ASSUME LateInv, NEW r \in Requests, Works(r)
    PROVE  LateInv'
PROOF
  <1>1. Busy(r)
    BY WorksBusy
  <1>2. CASE Fails(r) \/ LoadFails(r) \/ WriteFails(r) \/ Critiqued(r)
    BY <1>2, EndsLate DEF Fails, LoadFails, WriteFails, Critiqued
  <1>3. CASE Briefed(r) \/ OpenStaging(r) \/ WriteStaging(r)
    BY <1>1, <1>3, SaveLate DEF Briefed, OpenStaging, WriteStaging
  <1>4. ASSUME NEW doc \in Loads, Plant(r, doc) \/ Record(r, doc) \/ Edit(r, doc)
        PROVE  LateInv'
    BY <1>1, <1>4, SaveLate, ConflictsLate, EndsLate DEF Plant, Record, Edit, Saves
  <1>5. ASSUME NEW doc \in Loads, Expand(r, doc) \/ Regenerate(r, doc)
        PROVE  LateInv'
    BY <1>1, <1>5, CallsForLate, ConflictsLate, EndsLate DEF Expand, Regenerate
  <1> QED
    BY <1>1, <1>2, <1>3, <1>4, <1>5, GrowLate, RenameLate DEF Works

LEMMA InitLate == Init => LateInv
  BY DEF Init, LateInv, Shape, Busy

LEMMA NextLate == LateInv /\ [Next]_vars => LateInv'
PROOF
  <1> SUFFICES ASSUME LateInv, [Next]_vars PROVE LateInv'
    OBVIOUS
  <1>1. CASE Crash
    BY <1>1 DEF Crash, LateInv, Shape, Busy
  <1>2. CASE UNCHANGED vars
    BY <1>2 DEF vars, LateInv, Shape, Busy, IsInTime
  <1> QED
    BY <1>1, <1>2, WorksLate, AbortLate, BeginLate DEF Next

\* A stage that is cancelled makes at most the call that is out: at whatever parent or level
\* the cancel finds it, the loops over both look at the signal before they call.
THEOREM CancelledStagesStop == Spec => []CancelledStageStops
PROOF
  <1>1. LateInv => CancelledStageStops
    BY DEF LateInv, IsInTime, CancelledStageStops
  <1> QED
    BY <1>1, InitLate, NextLate, PTL DEF Spec

-----------------------------------------------------------------------------
\* Trees.  With a node its whole path is there, from the root.

Path == Seq(Nat \X Nat)

Siblings(nodes) ==
    \A m, n \in DOMAIN nodes \ {Root} : ParentOf(m) = ParentOf(n) => CallOf(m) = CallOf(n)

Current(nodes) ==
    \A n \in DOMAIN nodes : ~nodes[n].stale => nodes[n].against = TextsAbove(nodes, n)

Closed(nodes) ==
    \A n \in DOMAIN nodes : \A k \in 0 .. Len(n) : SubSeq(n, 1, k) \in DOMAIN nodes

Tree(nodes) ==
    /\ DOMAIN nodes \subseteq Path
    /\ \A n \in DOMAIN nodes : nodes[n] \in Node
    /\ Closed(nodes) /\ Siblings(nodes) /\ Current(nodes)

\* Paths: a prefix of a prefix is a prefix, and the parent is one.
LEMMA PrefixOfPrefix ==
    ASSUME NEW n \in Path, NEW k \in 0 .. Len(n)
    PROVE  /\ SubSeq(n, 1, k) \in Path /\ Len(SubSeq(n, 1, k)) = k
           /\ \A j \in 0 .. k : SubSeq(SubSeq(n, 1, k), 1, j) = SubSeq(n, 1, j)
  BY DEF Path

LEMMA StrictPrefix ==
    ASSUME NEW n \in Path, NEW m \in Path
    PROVE  IsStrictPrefix(n, m) <=> Len(n) < Len(m) /\ n = SubSeq(m, 1, Len(n))
PROOF
  <1>1. SubSeq(n, 1, Len(n)) = n /\ SubSeq(m, 1, Len(m)) = m
    BY DEF Path
  <1>2. Len(n) = Len(m) /\ n = SubSeq(m, 1, Len(n)) => n = m
    BY <1>1, Zenon
  <1>3. Len(n) \in Nat /\ Len(m) \in Nat
    BY DEF Path
  <1>4. IsStrictPrefix(n, m) <=> Len(n) <= Len(m) /\ n = SubSeq(m, 1, Len(n)) /\ n # m
    BY <1>1, Zenon DEF IsStrictPrefix, IsPrefix
  <1>5. n = m => Len(n) = Len(m)
    BY Zenon
  <1>6. Len(n) < Len(m) <=> Len(n) <= Len(m) /\ Len(n) # Len(m)
    <2> DEFINE a == Len(n)
               b == Len(m)
    <2> HIDE DEF a, b
    <2>1. a < b <=> a <= b /\ a # b
      BY <1>3 DEF a, b
    <2> QED
      BY <2>1 DEF a, b
  <1> QED
    BY <1>2, <1>4, <1>5, <1>6, Zenon

LEMMA ParentPath ==
    ASSUME NEW n \in Path, n # Root
    PROVE  /\ Len(n) \in Nat \ {0} /\ ParentOf(n) = SubSeq(n, 1, Len(n) - 1)
           /\ ParentOf(n) \in Path /\ Len(ParentOf(n)) = Len(n) - 1
           /\ IsStrictPrefix(ParentOf(n), n)
PROOF
  <1>1. Len(n) \in Nat \ {0}
    BY DEF Path, Root
  <1>2. ParentOf(n) = SubSeq(n, 1, Len(n) - 1)
    BY DEF ParentOf, Front
  <1>3. Len(n) - 1 \in 0 .. Len(n) /\ Len(n) - 1 < Len(n)
    BY <1>1
  <1>4. ParentOf(n) \in Path /\ Len(ParentOf(n)) = Len(n) - 1
    BY <1>2, <1>3, PrefixOfPrefix
  <1>5. IsStrictPrefix(ParentOf(n), n)
    BY <1>2, <1>3, <1>4, StrictPrefix
  <1> QED
    BY <1>1, <1>2, <1>4, <1>5

LEMMA ChildPath ==
    ASSUME NEW p \in Path, NEW x \in Nat \X Nat
    PROVE  /\ Append(p, x) \in Path /\ Append(p, x) # Root
           /\ ParentOf(Append(p, x)) = p /\ CallOf(Append(p, x)) = x[1]
PROOF
  <1> DEFINE n == Append(p, x)
  <1>1. /\ n \in Path /\ Len(n) = Len(p) + 1 /\ Len(p) \in Nat
        /\ n[Len(p) + 1] = x /\ \A i \in 1 .. Len(p) : n[i] = p[i]
    BY DEF Path
  <1>2. n # Root
    BY <1>1 DEF Root
  <1>3. SubSeq(n, 1, Len(p)) = p
    BY <1>1 DEF Path
  <1>4. Len(n) - 1 = Len(p)
    BY <1>1
  <1>5. ParentOf(n) = p /\ CallOf(n) = x[1]
    <2> HIDE DEF n
    <2> QED
      BY <1>1, <1>3, <1>4 DEF ParentOf, CallOf, Front, Last
  <1> QED
    BY <1>1, <1>2, <1>5

LEMMA ParentInTree ==
    ASSUME NEW nodes, Tree(nodes), NEW n \in DOMAIN nodes, n # Root
    PROVE  ParentOf(n) \in DOMAIN nodes
PROOF
  <1>1. n \in Path
    BY DEF Tree
  <1>2. Len(n) - 1 \in 0 .. Len(n) /\ ParentOf(n) = SubSeq(n, 1, Len(n) - 1)
    BY <1>1, ParentPath
  <1> QED
    BY <1>2 DEF Tree, Closed

\* The texts above a node are numbers, one for each of its ancestors.
LEMMA TextsAboveTypes ==
    ASSUME NEW nodes, Tree(nodes), NEW n \in DOMAIN nodes
    PROVE  /\ TextsAbove(nodes, n) \in Seq(Nat)
           /\ Append(TextsAbove(nodes, n), nodes[n].text) \in Seq(Nat)
PROOF
  <1>1. n \in Path /\ Len(n) \in Nat /\ nodes[n].text \in Nat
    BY DEF Tree, Path, Node
  <1>2. \A i \in 1 .. Len(n) : nodes[SubSeq(n, 1, i - 1)].text \in Nat
    BY <1>1 DEF Tree, Closed, Node
  <1>3. TextsAbove(nodes, n) \in Seq(Nat)
    BY <1>1, <1>2 DEF TextsAbove
  <1> QED
    BY <1>1, <1>3

\* They stay the same where the texts of the ancestors do.
LEMMA TextsKept ==
    ASSUME NEW nodes, NEW new, NEW n \in Path,
           \A k \in 0 .. Len(n) - 1 : new[SubSeq(n, 1, k)].text = nodes[SubSeq(n, 1, k)].text
    PROVE  TextsAbove(new, n) = TextsAbove(nodes, n)
PROOF
  <1>1. Len(n) \in Nat
    BY DEF Path
  <1>2. \A i \in 1 .. Len(n) : new[SubSeq(n, 1, i - 1)].text = nodes[SubSeq(n, 1, i - 1)].text
    BY <1>1
  <1> QED
    BY <1>2 DEF TextsAbove

-----------------------------------------------------------------------------
\* What the operations make of a tree.

\* Nothing below a node is left, and all that is left has its whole path.
LEMMA WithoutTree ==
    ASSUME NEW nodes, Tree(nodes), NEW n \in DOMAIN nodes
    PROVE  LET left == Without(nodes, Descendants(nodes, n))
           IN /\ Tree(left) /\ n \in DOMAIN left /\ Descendants(left, n) = {}
              /\ DOMAIN left \subseteq DOMAIN nodes
              /\ \A m \in DOMAIN left : left[m] = nodes[m]
PROOF
  <1> DEFINE under == Descendants(nodes, n)
             left  == Without(nodes, under)
  <1>1. /\ DOMAIN left = DOMAIN nodes \ under
        /\ \A m \in DOMAIN left : left[m] = nodes[m] /\ m \in DOMAIN nodes /\ m \in Path
    BY DEF Without, Tree
  <1>2. \A m \in DOMAIN nodes : m \in under <=> IsStrictPrefix(n, m)
    BY DEF Descendants
  <1>3. n \in Path /\ n \in DOMAIN left
    BY <1>1, <1>2 DEF Tree, IsStrictPrefix
  <1>4. Closed(left)
    <2> SUFFICES ASSUME NEW m \in DOMAIN left, NEW k \in 0 .. Len(m)
                 PROVE  SubSeq(m, 1, k) \in DOMAIN left
      BY DEF Closed
    <2> DEFINE p == SubSeq(m, 1, k)
    <2>1. /\ m \in Path /\ m \in DOMAIN nodes /\ p \in DOMAIN nodes /\ p \in Path /\ Len(p) = k
          /\ \A j \in 0 .. k : SubSeq(p, 1, j) = SubSeq(m, 1, j)
      BY <1>1, PrefixOfPrefix DEF Tree, Closed
    <2>2. Len(n) \in Nat /\ Len(m) \in Nat /\ k \in Nat /\ k <= Len(m)
      BY <1>3, <2>1 DEF Path
    <2> HIDE DEF p
    <2>3. IsStrictPrefix(n, p) => IsStrictPrefix(n, m)
      BY <1>3, <2>1, <2>2, StrictPrefix, SMTT(30)
    <2> QED
      BY <1>1, <1>2, <2>1, <2>3 DEF p
  <1>5. Siblings(left)
    BY <1>1 DEF Siblings, Tree
  <1>6. Current(left)
    <2> SUFFICES ASSUME NEW m \in DOMAIN left
                 PROVE  TextsAbove(left, m) = TextsAbove(nodes, m)
      BY <1>1 DEF Current, Tree
    <2>1. m \in Path /\ Len(m) \in Nat
      BY <1>1 DEF Path
    <2>2. \A k \in 0 .. Len(m) - 1 : SubSeq(m, 1, k) \in DOMAIN left
      BY <1>4, <2>1 DEF Closed
    <2> QED
      BY <1>1, <2>1, <2>2, TextsKept
  <1>7. Descendants(left, n) = {}
    BY <1>1, <1>2 DEF Descendants
  <1>8. Tree(left)
    BY <1>1, <1>4, <1>5, <1>6 DEF Tree
  <1> QED
    BY <1>1, <1>3, <1>7, <1>8

\* A history that has taken up a text has every text but the oldest of a full one.
LEMMA LatestKeeps ==
    ASSUME NEW past \in Seq(Nat), Len(past) <= HistoryLimit, NEW text \in Nat
    PROVE  /\ Latest(Append(past, text)) \in Seq(Nat)
           /\ Len(Latest(Append(past, text))) <= HistoryLimit
           /\ text \in Range(Latest(Append(past, text)))
           /\ \A t \in Range(past) :
                 \/ t \in Range(Latest(Append(past, text)))
                 \/ Len(past) = HistoryLimit /\ t = Head(past)
PROOF
  <1> DEFINE n     == Len(past)
             all   == Append(past, text)
             limit == HistoryLimit
             late  == Latest(all)
  <1>1. /\ n \in Nat /\ limit \in Nat \ {0} /\ n <= limit
        /\ all \in Seq(Nat) /\ Len(all) = n + 1 /\ all[n + 1] = text
        /\ \A i \in 1 .. n : all[i] = past[i]
    BY HistoryLimitAssumption
  <1>2. CASE n < limit
    <2>1. late = all
      BY <1>1, <1>2 DEF Latest
    <2>2. \A i \in 1 .. n + 1 : all[i] \in Range(all)
      BY <1>1 DEF Range
    <2>3. \A t \in Range(past) : \E i \in 1 .. n : t = past[i]
      BY DEF Range
    <2>4. n + 1 \in 1 .. n + 1 /\ \A i \in 1 .. n : i \in 1 .. n + 1
      BY <1>1
    <2> HIDE DEF all, late
    <2> QED
      BY <1>1, <1>2, <2>1, <2>2, <2>3, <2>4 DEF late, all
  <1>3. CASE n = limit
    <2>1. late = SubSeq(all, 2, n + 1)
      BY <1>1, <1>3 DEF Latest
    <2>2. /\ late \in Seq(Nat) /\ Len(late) = n
          /\ \A i \in 1 .. n : late[i] = all[i + 1]
      BY <1>1, <1>3, <2>1
    <2>3. \A i \in 1 .. n : late[i] \in Range(late)
      BY <2>2 DEF Range
    <2>4. late[n] = text /\ n \in 1 .. n
      BY <1>1, <1>3, <2>2
    <2>5. ASSUME NEW t \in Range(past), t # Head(past)
          PROVE  t \in Range(late)
      <3>1. PICK i \in 1 .. n : t = past[i]
        BY DEF Range
      <3>2. i # 1
        BY <1>1, <2>5, <3>1
      <3>3. i - 1 \in 1 .. n /\ late[i - 1] = past[i]
        BY <1>1, <2>2, <3>1, <3>2
      <3> HIDE DEF late, n
      <3> QED
        BY <2>3, <3>1, <3>3
    <2> HIDE DEF late, all, n
    <2> QED
      BY <1>1, <1>3, <2>2, <2>3, <2>4, <2>5 DEF late, all, n
  <1> QED
    BY <1>1, <1>2, <1>3

\* An edited tree: what still stands below the node is marked, and only that would not be
\* current any more.
LEMMA EditedTree ==
    ASSUME NEW nodes, Tree(nodes), NEW n \in DOMAIN nodes, NEW text \in Nat,
           NEW left, Tree(left), n \in DOMAIN left, DOMAIN left \subseteq DOMAIN nodes,
           \A m \in DOMAIN left : left[m] = nodes[m],
           NEW under, \A m \in DOMAIN left : IsStrictPrefix(n, m) => m \in under,
           NEW new, DOMAIN new = DOMAIN left,
           new[n] = Rewritten(nodes, n, text),
           \A m \in DOMAIN left \ {n} :
              /\ new[m] \in Node
              /\ new[m].text = left[m].text /\ new[m].against = left[m].against
              /\ ~new[m].stale => ~left[m].stale /\ m \notin under
    PROVE  Tree(new)
PROOF
  <1>1. DOMAIN new = DOMAIN left /\ DOMAIN left \subseteq Path /\ Closed(left) /\ Siblings(left)
    BY DEF Tree
  <1>2. Rewritten(nodes, n, text) \in Node
    <2>1. TextsAbove(nodes, n) \in Seq(Nat) /\ nodes[n] \in Node
      BY TextsAboveTypes DEF Tree
    <2> QED
      BY <2>1, LatestKeeps DEF Rewritten, Node
  <1>4. \A m \in DOMAIN new : new[m] \in Node
    BY <1>2
  <1>6. new[n].against = TextsAbove(nodes, n)
    BY DEF Rewritten
  <1>7. Closed(new) /\ Siblings(new)
    BY <1>1 DEF Closed, Siblings
  <1>8. \A m \in DOMAIN left : ~IsStrictPrefix(n, m) => TextsAbove(new, m) = TextsAbove(left, m)
    <2> SUFFICES ASSUME NEW m \in DOMAIN left, ~IsStrictPrefix(n, m)
                 PROVE  TextsAbove(new, m) = TextsAbove(left, m)
      OBVIOUS
    <2>1. m \in Path /\ n \in Path /\ Len(m) \in Nat
      BY <1>1 DEF Path
    <2>2. ASSUME NEW k \in 0 .. Len(m) - 1
          PROVE  new[SubSeq(m, 1, k)].text = left[SubSeq(m, 1, k)].text
      <3>1. SubSeq(m, 1, k) \in DOMAIN left /\ Len(SubSeq(m, 1, k)) = k
        BY <1>1, <2>1, PrefixOfPrefix DEF Closed
      <3>2. SubSeq(m, 1, k) # n
        BY <2>1, <3>1, StrictPrefix
      <3> QED
        BY <3>1, <3>2
    <2> QED
      BY <2>1, <2>2, TextsKept
  <1>9. TextsAbove(left, n) = TextsAbove(nodes, n)
    <2>1. n \in Path /\ Len(n) \in Nat
      BY <1>1 DEF Path
    <2>2. \A k \in 0 .. Len(n) - 1 : SubSeq(n, 1, k) \in DOMAIN left
      BY <1>1, <2>1 DEF Closed
    <2> QED
      BY <2>1, <2>2, TextsKept
  <1>10. Current(new)
    BY <1>1, <1>6, <1>8, <1>9 DEF Current, Tree, IsStrictPrefix
  <1> QED
    BY <1>1, <1>4, <1>7, <1>10 DEF Tree

\* What has been grown so far: children of some nodes, those of each from one call, written
\* for the texts above them.
Answers(nodes, p) == Append(TextsAbove(nodes, p), nodes[p].text)

Grown(nodes, parents, grown) ==
    /\ \A m \in DOMAIN grown :
          /\ m \in Path /\ m # Root /\ ParentOf(m) \in parents
          /\ grown[m] = NewNode(Answers(nodes, ParentOf(m)))
    /\ Siblings(grown)

\* One call more, for a parent that had none.
LEMMA GrownMore ==
    ASSUME NEW nodes, Tree(nodes), NEW parents, NEW grown, Grown(nodes, parents, grown),
           NEW p \in DOMAIN nodes, p \notin parents, NEW call \in Nat, NEW count \in Nat
    PROVE  Grown(nodes, parents \cup {p}, Join(grown, Children(nodes, p, call, count)))
PROOF
  <1> DEFINE more == Children(nodes, p, call, count)
             new  == Join(grown, more)
  <1>1. p \in Path
    BY DEF Tree
  <1>2. ASSUME NEW m \in DOMAIN more
        PROVE  /\ m \in Path /\ m # Root /\ ParentOf(m) = p /\ CallOf(m) = call
               /\ more[m] = NewNode(Answers(nodes, p))
    <2>1. PICK k \in 1 .. count : m = Append(p, <<call, k>>)
      BY DEF Children
    <2>2. <<call, k>> \in Nat \X Nat /\ <<call, k>>[1] = call
      OBVIOUS
    <2>3. more[m] = NewNode(Answers(nodes, p))
      BY DEF Children, Answers
    <2> QED
      BY <1>1, <2>1, <2>2, <2>3, ChildPath
  <1>3. /\ DOMAIN new = DOMAIN grown \cup DOMAIN more
        /\ \A m \in DOMAIN new : new[m] = IF m \in DOMAIN more THEN more[m] ELSE grown[m]
    BY DEF Join
  <1> HIDE DEF more, new
  <1>4. \A m \in DOMAIN new :
           /\ m \in Path /\ m # Root /\ ParentOf(m) \in parents \cup {p}
           /\ new[m] = NewNode(Answers(nodes, ParentOf(m)))
    BY <1>2, <1>3 DEF Grown
  <1>5. Siblings(new)
    <2> SUFFICES ASSUME NEW m \in DOMAIN new \ {Root}, NEW n \in DOMAIN new \ {Root},
                        ParentOf(m) = ParentOf(n)
                 PROVE  CallOf(m) = CallOf(n)
      BY DEF Siblings
    <2>1. CASE ParentOf(m) = p
      BY <1>2, <1>3, <2>1 DEF Grown
    <2>2. CASE ParentOf(m) # p
      BY <1>2, <1>3, <2>2 DEF Grown, Siblings
    <2> QED
      BY <2>1, <2>2
  <1> QED
    BY <1>4, <1>5 DEF Grown, new, more

\* A tree and the children of nodes of it that have none are a tree.
LEMMA JoinTree ==
    ASSUME NEW nodes, Tree(nodes), NEW parents, parents \subseteq DOMAIN nodes,
           \A m \in DOMAIN nodes \ {Root} : ParentOf(m) \notin parents,
           NEW grown, Grown(nodes, parents, grown)
    PROVE  /\ Tree(Join(nodes, grown))
           /\ DOMAIN Join(nodes, grown) = DOMAIN nodes \cup DOMAIN grown
PROOF
  <1> DEFINE new == Join(nodes, grown)
  <1>1. \A m \in DOMAIN grown : m \in Path /\ m # Root /\ m \notin DOMAIN nodes
    BY DEF Grown
  <1>2. /\ DOMAIN new = DOMAIN nodes \cup DOMAIN grown
        /\ \A m \in DOMAIN nodes : new[m] = nodes[m]
        /\ \A m \in DOMAIN grown : new[m] = grown[m]
    BY <1>1 DEF Join
  <1> HIDE DEF new
  <1>3. DOMAIN new \subseteq Path
    BY <1>1, <1>2 DEF Tree
  <1>4. ASSUME NEW m \in DOMAIN grown
        PROVE  new[m] \in Node /\ new[m].against = Answers(nodes, ParentOf(m))
    <2>1. Answers(nodes, ParentOf(m)) \in Seq(Nat)
      BY TextsAboveTypes DEF Grown, Answers
    <2>2. \A texts \in Seq(Nat) : NewNode(texts) \in Node /\ NewNode(texts).against = texts
      BY HistoryLimitAssumption DEF NewNode, Node
    <2>3. new[m] = NewNode(Answers(nodes, ParentOf(m)))
      BY <1>2 DEF Grown
    <2> QED
      BY <2>1, <2>2, <2>3
  <1>5. Closed(new)
    <2> SUFFICES ASSUME NEW m \in DOMAIN grown, NEW k \in 0 .. Len(m)
                 PROVE  SubSeq(m, 1, k) \in DOMAIN new
      BY <1>2 DEF Closed, Tree
    <2>1. /\ m \in Path /\ Len(m) \in Nat \ {0} /\ ParentOf(m) \in DOMAIN nodes
          /\ ParentOf(m) = SubSeq(m, 1, Len(m) - 1) /\ Len(ParentOf(m)) = Len(m) - 1
      BY <1>1, ParentPath DEF Grown
    <2>2. CASE k = Len(m)
      <3>1. SubSeq(m, 1, Len(m)) = m
        BY <2>1 DEF Path
      <3> QED
        BY <1>2, <2>2, <3>1
    <2>3. CASE k # Len(m)
      <3>1. k \in 0 .. Len(m) - 1 /\ Len(m) - 1 \in 0 .. Len(m)
        BY <2>1, <2>3
      <3>2. SubSeq(m, 1, k) = SubSeq(ParentOf(m), 1, k)
        BY <2>1, <3>1, PrefixOfPrefix
      <3> QED
        BY <1>2, <2>1, <3>1, <3>2 DEF Tree, Closed
    <2> QED
      BY <2>2, <2>3
  <1>6. Siblings(new)
    BY <1>1, <1>2 DEF Siblings, Tree, Grown
  <1>7. ASSUME NEW m \in DOMAIN nodes
        PROVE  TextsAbove(new, m) = TextsAbove(nodes, m)
    <2>1. m \in Path /\ Len(m) \in Nat
      BY DEF Tree, Path
    <2>2. \A k \in 0 .. Len(m) - 1 : SubSeq(m, 1, k) \in DOMAIN nodes
      BY <2>1 DEF Tree, Closed
    <2> QED
      BY <1>2, <2>1, <2>2, TextsKept
  <1>8. ASSUME NEW m \in DOMAIN grown
        PROVE  TextsAbove(new, m) = Answers(nodes, ParentOf(m))
    <2> DEFINE p == ParentOf(m)
    <2>1. /\ m \in Path /\ Len(m) \in Nat \ {0} /\ p \in DOMAIN nodes
          /\ p = SubSeq(m, 1, Len(m) - 1) /\ Len(p) = Len(m) - 1
          /\ Len(m) - 1 \in 0 .. Len(m)
      BY <1>1, ParentPath DEF Grown
    <2>2. \A j \in 0 .. Len(m) - 1 : SubSeq(p, 1, j) = SubSeq(m, 1, j)
      BY <2>1, PrefixOfPrefix
    <2>3. TextsAbove(new, p) = TextsAbove(nodes, p) /\ new[p].text = nodes[p].text
      BY <1>2, <1>7, <2>1
    <2>4. TextsAbove(new, p) \in Seq(Nat) /\ Len(TextsAbove(new, p)) = Len(p)
          /\ \A i \in 1 .. Len(p) : TextsAbove(new, p)[i] = new[SubSeq(p, 1, i - 1)].text
      <3>1. TextsAbove(new, p) \in Seq(Nat)
        BY <2>1, <2>3, TextsAboveTypes
      <3>2. Len(p) \in Nat
        BY <2>1
      <3> QED
        BY <3>1, <3>2 DEF TextsAbove
    <2> DEFINE answers == Append(TextsAbove(new, p), new[p].text)
    <2>5. /\ answers = [i \in 1 .. Len(m) |-> answers[i]]
          /\ \A i \in 1 .. Len(p) : answers[i] = TextsAbove(new, p)[i]
          /\ answers[Len(m)] = new[p].text
      BY <2>1, <2>4
    <2> HIDE DEF answers, p
    <2>6. \A i \in 1 .. Len(m) : answers[i] = new[SubSeq(m, 1, i - 1)].text
      <3> TAKE i \in 1 .. Len(m)
      <3>1. CASE i = Len(m)
        BY <2>1, <2>5, <3>1
      <3>2. CASE i # Len(m)
        <4>1. i \in 1 .. Len(p) /\ i - 1 \in 0 .. Len(m) - 1
          BY <2>1, <3>2
        <4> QED
          BY <2>2, <2>4, <2>5, <4>1
      <3> QED
        BY <3>1, <3>2
    <2>7. answers = TextsAbove(new, m)
      BY <2>5, <2>6 DEF TextsAbove
    <2> QED
      BY <2>3, <2>7 DEF answers, Answers, p
  <1>9. Current(new)
    BY <1>2, <1>4, <1>7, <1>8 DEF Current, Tree
  <1>10. Tree(new)
    BY <1>2, <1>3, <1>4, <1>5, <1>6, <1>9 DEF Tree
  <1> QED
    BY <1>2, <1>10 DEF new

-----------------------------------------------------------------------------
\* Documents, on disk and in progress.

Doc(doc) ==
    /\ DOMAIN doc = {"context", "nodes"}
    /\ doc.context \in BOOLEAN /\ Tree(doc.nodes)
    /\ DOMAIN doc.nodes # {} => doc.context

File(held) == held \in Unreadable \cup {None} \/ Doc(held)

Kinds == {"plant", "intake", "record", "expand", "regenerate", "edit"}

AskSet == [kind : Kinds, level : Nat, node : Path, keep : BOOLEAN]

\* An operation that grows: from parents of the document it loaded, all of whose children go
\* or which have none.
Growing(o) ==
    \E parents \in SUBSET DOMAIN o.base.nodes :
        /\ o.base.context
        /\ o.todo # {} /\ o.todo \subseteq parents
        /\ Grown(o.base.nodes, parents \ o.todo, o.grown)
        /\ IF o.ask.kind = "regenerate" THEN parents = {o.ask.node}
           ELSE \A m \in DOMAIN o.base.nodes \ {Root} : ParentOf(m) \notin parents

Sound(o) ==
    /\ o.ask \in AskSet /\ o.rest \in Seq(AskSet)
    /\ Doc(o.base) /\ Doc(o.doc)
    /\ o.pc = "writing" <=> o.file # "none"
    /\ o.pc = "growing" => Growing(o)

TreeInv ==
    /\ File(stored) /\ File(staging)
    /\ DOMAIN spent = {"starts", "calls", "edits", "crashes", "faults"}
    /\ spent.calls \in Nat /\ spent.edits \in Nat /\ spent.faults \in Nat
    /\ \A r \in Requests : Busy(r) => Sound(op[r])

\* The documents that operations make.
LEMMA EmptyDoc == Doc(Empty) /\ DOMAIN Empty.nodes = {}
PROOF
  <1>1. DOMAIN Empty = {"context", "nodes"} /\ Empty.context = FALSE /\ DOMAIN Empty.nodes = {}
    BY DEF Empty
  <1> QED
    BY <1>1 DEF Doc, Tree, Closed, Siblings, Current

LEMMA OutlineDoc ==
    ASSUME TreeInv, Readable
    PROVE  Doc(Outline)
  BY EmptyDoc DEF TreeInv, File, Readable, Outline

LEMMA LoadsDoc ==
    ASSUME TreeInv, NEW doc \in Loads
    PROVE  Doc(doc)
  BY EmptyDoc, OutlineDoc DEF Loads

\* What counting a read that fails leaves alone.
LEMMA CountedIs ==
    ASSUME TreeInv, NEW doc
    PROVE  /\ DOMAIN Counted(doc) = {"starts", "calls", "edits", "crashes", "faults"}
           /\ Counted(doc).calls = spent.calls /\ Counted(doc).edits = spent.edits
           /\ Counted(doc).faults \in Nat
  BY DEF TreeInv, Counted

LEMMA PlantedDoc ==
    ASSUME NEW doc, Doc(doc)
    PROVE  Doc(Planted(doc))
PROOF
  <1> DEFINE nodes == [n \in {Root} |-> NewNode(<<>>)]
  <1>1. Root \in Path /\ Len(Root) = 0 /\ \A k \in 0 .. Len(Root) : SubSeq(Root, 1, k) = Root
    BY DEF Root, Path
  <1>2. NewNode(<<>>) \in Node /\ NewNode(<<>>).against = <<>>
    BY HistoryLimitAssumption DEF NewNode, Node
  <1>3. TextsAbove(nodes, Root) = <<>>
    BY <1>1 DEF TextsAbove
  <1>4. DOMAIN nodes = {Root} /\ nodes[Root] = NewNode(<<>>)
    OBVIOUS
  <1> HIDE DEF nodes
  <1>5. Tree(nodes)
    BY <1>1, <1>2, <1>3, <1>4 DEF Tree, Closed, Siblings, Current
  <1>6. /\ DOMAIN Planted(doc) = {"context", "nodes"} /\ Planted(doc).context = TRUE
        /\ Planted(doc).nodes = nodes
    BY DEF Planted, nodes
  <1> QED
    BY <1>5, <1>6 DEF Doc

LEMMA RecordedDoc ==
    ASSUME NEW doc, Doc(doc)
    PROVE  Doc(Recorded(doc))
PROOF
  <1>1. /\ DOMAIN Recorded(doc) = {"context", "nodes"} /\ Recorded(doc).context = TRUE
        /\ Recorded(doc).nodes = doc.nodes
    BY DEF Doc, Recorded
  <1> QED
    BY <1>1 DEF Doc

\* Other nodes, in the same document.
LEMMA NodesReplaced ==
    ASSUME NEW doc, Doc(doc), NEW nodes, Tree(nodes), DOMAIN nodes # {} => doc.context
    PROVE  Doc([doc EXCEPT !.nodes = nodes])
PROOF
  <1> DEFINE new == [doc EXCEPT !.nodes = nodes]
  <1>1. /\ DOMAIN new = {"context", "nodes"} /\ new.context = doc.context
        /\ new.nodes = nodes
    BY DEF Doc
  <1> HIDE DEF new
  <1>2. Doc(new)
    BY <1>1 DEF Doc
  <1> QED
    BY <1>2 DEF new

LEMMA EditedDoc ==
    ASSUME NEW doc, Doc(doc), NEW n \in DOMAIN doc.nodes, NEW text \in Nat, NEW keep
    PROVE  Doc(Edited(doc, n, text, keep))
PROOF
  <1> DEFINE nodes == doc.nodes
             under == Descendants(nodes, n)
             left  == IF keep THEN nodes ELSE Without(nodes, under)
             new   == [m \in DOMAIN left |->
                         IF m = n THEN Rewritten(nodes, n, text)
                         ELSE [left[m] EXCEPT !.stale = @ \/ m \in under]]
  <1>1. Tree(nodes) /\ n \in DOMAIN nodes /\ doc.context
    BY DEF Doc
  <1>2. /\ Tree(left) /\ n \in DOMAIN left /\ DOMAIN left \subseteq DOMAIN nodes
        /\ \A m \in DOMAIN left : left[m] = nodes[m]
    BY <1>1, WithoutTree
  <1>3. \A m \in DOMAIN left : IsStrictPrefix(n, m) => m \in under
    BY <1>2 DEF Descendants
  <1>4. Tree(new)
    <2>1. DOMAIN new = DOMAIN left /\ new[n] = Rewritten(nodes, n, text)
      BY <1>2
    <2>2. ASSUME NEW m \in DOMAIN left \ {n}
          PROVE  /\ new[m] \in Node
                 /\ new[m].text = left[m].text /\ new[m].against = left[m].against
                 /\ ~new[m].stale => ~left[m].stale /\ m \notin under
      <3>1. left[m] \in Node
        BY <1>2 DEF Tree
      <3>2. new[m] = [left[m] EXCEPT !.stale = @ \/ m \in under]
        OBVIOUS
      <3> HIDE DEF left, under, new
      <3> QED
        BY <3>1, <3>2 DEF Node
    <2> HIDE DEF nodes, under, left, new
    <2> QED
      BY ZenonT(30), <1>1, <1>2, <1>3, <2>1, <2>2, EditedTree
  <1>5. Edited(doc, n, text, keep) = [doc EXCEPT !.nodes = new]
    BY DEF Edited
  <1> HIDE DEF new
  <1> QED
    BY <1>1, <1>4, <1>5, NodesReplaced

\* What is complete when the last call has answered.
LEMMA CompleteDoc ==
    ASSUME NEW o, Doc(o.base), NEW parents \in SUBSET DOMAIN o.base.nodes, o.base.context,
           NEW grown, Grown(o.base.nodes, parents, grown),
           IF o.ask.kind = "regenerate" THEN parents = {o.ask.node}
           ELSE \A m \in DOMAIN o.base.nodes \ {Root} : ParentOf(m) \notin parents
    PROVE  Doc(Complete(o, grown))
PROOF
  <1> DEFINE nodes == o.base.nodes
  <1>1. Tree(nodes) /\ o.base.context
    BY DEF Doc
  <1>2. CASE o.ask.kind # "regenerate"
    <2>1. Tree(Join(nodes, grown))
      BY <1>1, <1>2, JoinTree
    <2> QED
      BY <1>1, <1>2, <2>1, NodesReplaced DEF Complete, Expanded
  <1>3. CASE o.ask.kind = "regenerate"
    <2> DEFINE n    == o.ask.node
               left == Without(nodes, Descendants(nodes, n))
    <2>1. /\ Tree(left) /\ n \in DOMAIN left /\ Descendants(left, n) = {}
          /\ \A m \in DOMAIN left : left[m] = nodes[m]
      BY <1>1, <1>3, WithoutTree
    <2> HIDE DEF left
    <2>2. \A m \in DOMAIN left \ {Root} : ParentOf(m) # n
      BY <2>1, ParentPath DEF Descendants, Tree
    <2>3. Answers(left, n) = Answers(nodes, n)
      <3>1. n \in Path /\ Len(n) \in Nat
        BY <2>1 DEF Tree, Path
      <3>2. \A k \in 0 .. Len(n) - 1 : SubSeq(n, 1, k) \in DOMAIN left
        BY <2>1, <3>1 DEF Tree, Closed
      <3>3. TextsAbove(left, n) = TextsAbove(nodes, n)
        BY <2>1, <3>1, <3>2, TextsKept
      <3> QED
        BY <2>1, <3>3 DEF Answers
    <2>4. Grown(left, {n}, grown)
      <3>1. \A m \in DOMAIN grown : ParentOf(m) = n
        BY <1>3 DEF Grown
      <3> QED
        BY <1>3, <2>3, <3>1 DEF Grown
    <2>5. Tree(Join(left, grown))
      BY <2>1, <2>2, <2>4, JoinTree
    <2> QED
      BY <1>1, <1>3, <2>5, NodesReplaced DEF Complete, Regrown, left
  <1> QED
    BY <1>2, <1>3

-----------------------------------------------------------------------------
\* The actions, on an operation whose shape is known.

\* What a step that has loaded doc spends.
Spends(doc) ==
    spent' = Counted(doc) \/ spent' = [Counted(doc) EXCEPT !.edits = @ + 1]

\* One operation goes on as o, and what is on disk is still a document.
LEMMA OneSound ==
    ASSUME LateInv, TreeInv, NEW r \in Requests, NEW o, op' = [op EXCEPT ![r] = o],
           o = Idle \/ Sound(o), File(stored)', File(staging)',
           \/ spent' = spent \/ (\E doc : Spends(doc))
           \/ spent' = [spent EXCEPT !.calls = @ + 1]
           \/ spent' = [spent EXCEPT !.starts = @ + 1]
    PROVE  TreeInv'
PROOF
  <1>0. ASSUME NEW doc, Spends(doc)
        PROVE  /\ DOMAIN spent' = {"starts", "calls", "edits", "crashes", "faults"}
               /\ spent'.calls \in Nat /\ spent'.edits \in Nat /\ spent'.faults \in Nat
    <2>1. spent.calls \in Nat /\ spent.edits \in Nat /\ spent.faults \in Nat
      BY DEF TreeInv
    <2> QED
      BY <1>0, <2>1, CountedIs DEF Spends
  <1>1. /\ DOMAIN spent' = {"starts", "calls", "edits", "crashes", "faults"}
        /\ spent'.calls \in Nat /\ spent'.edits \in Nat /\ spent'.faults \in Nat
    BY <1>0 DEF TreeInv
  <1>2. \A q \in Requests : op'[q] = IF q = r THEN o ELSE op[q]
    BY DEF LateInv, Shape
  <1> QED
    BY <1>1, <1>2 DEF TreeInv, Busy

LEMMA EndSound ==
    ASSUME LateInv, TreeInv, NEW r \in Requests, End(r), UNCHANGED files,
           spent' = spent \/ \E doc : Spends(doc)
    PROVE  TreeInv'
  BY OneSound DEF End, files, TreeInv, File, Doc

\* The operation goes to another step that holds no file and grows nothing.
LEMMA StepSound ==
    ASSUME LateInv, TreeInv, NEW r \in Requests, Busy(r), NEW o,
           DOMAIN o = Fields, o.ask = op[r].ask, o.rest = op[r].rest,
           o.base = op[r].base, Doc(o.doc), o.pc \notin {"writing", "growing"}, o.file = "none"
    PROVE  Sound(o)
  BY DEF TreeInv, Sound

LEMMA GoesOnSound ==
    ASSUME LateInv, TreeInv, NEW r \in Requests, Busy(r), op[r].pc # "writing"
    PROVE  Sound(GoesOn(op[r]))
PROOF
  <1> DEFINE o == op[r]
  <1>1. /\ DOMAIN o = Fields /\ Sound(o) /\ o.file = "none"
    BY DEF LateInv, Shape, TreeInv, Sound
  <1>2. CASE GoesOn(o) = [o EXCEPT !.pc = "ending", !.doc = Empty, !.rest = <<>>]
    <2>1. /\ GoesOn(o).ask = o.ask /\ GoesOn(o).rest = <<>> /\ GoesOn(o).base = o.base
          /\ GoesOn(o).doc = Empty /\ GoesOn(o).pc = "ending" /\ GoesOn(o).file = "none"
      BY <1>1, <1>2 DEF Fields
    <2> QED
      BY <1>1, <2>1, EmptyDoc DEF Sound
  <1>3. CASE /\ o.rest # <<>>
             /\ GoesOn(o) = [o EXCEPT !.pc = "loading", !.doc = Empty, !.ask = Head(o.rest),
                                      !.rest = Tail(o.rest)]
    <2>1. /\ GoesOn(o).ask = Head(o.rest) /\ GoesOn(o).rest = Tail(o.rest)
          /\ GoesOn(o).base = o.base /\ GoesOn(o).doc = Empty /\ GoesOn(o).pc = "loading"
          /\ GoesOn(o).file = "none"
      BY <1>1, <1>3 DEF Fields
    <2>2. Head(o.rest) \in AskSet /\ Tail(o.rest) \in Seq(AskSet)
      BY <1>1, <1>3 DEF Sound
    <2> QED
      BY <1>1, <2>1, <2>2, EmptyDoc DEF Sound
  <1> QED
    BY <1>2, <1>3 DEF GoesOn

\* Files that are not written are what they were.
LEMMA FilesKept ==
    ASSUME TreeInv, UNCHANGED files
    PROVE  File(stored)' /\ File(staging)'
  BY DEF TreeInv, files, File

LEMMA ConflictsSound ==
    ASSUME LateInv, TreeInv, NEW r \in Requests, Busy(r), op[r].pc = "loading",
           Conflicts(r), UNCHANGED files, \E doc : Spends(doc)
    PROVE  TreeInv'
PROOF
  <1>1. CASE End(r)
    BY <1>1, EndSound
  <1>2. CASE op' = [op EXCEPT ![r] = GoesOn(op[r])]
    BY <1>2, GoesOnSound, OneSound, FilesKept
  <1>3. CASE op' = [op EXCEPT ![r] = [op[r] EXCEPT !.pc = "ending"]]
    <2> DEFINE o == [op[r] EXCEPT !.pc = "ending"]
    <2>1. /\ DOMAIN op[r] = Fields /\ op[r].file = "none" /\ Doc(op[r].doc)
      BY DEF LateInv, Shape, TreeInv, Sound
    <2>2. /\ DOMAIN o = Fields /\ o.ask = op[r].ask /\ o.rest = op[r].rest
          /\ o.base = op[r].base /\ o.doc = op[r].doc /\ o.pc = "ending" /\ o.file = op[r].file
      BY <2>1 DEF Fields
    <2> HIDE DEF o
    <2>3. Sound(o)
      BY <2>1, <2>2, StepSound
    <2> QED
      BY <1>3, <2>3, OneSound, FilesKept DEF o
  <1> QED
    BY <1>1, <1>2, <1>3 DEF Conflicts

LEMMA SavesSound ==
    ASSUME LateInv, TreeInv, NEW r \in Requests, Busy(r), op[r].pc = "loading",
           NEW doc, Doc(doc), Saves(r, doc), UNCHANGED files, \E read : Spends(read)
    PROVE  TreeInv'
PROOF
  <1> DEFINE o == [op[r] EXCEPT !.pc = "saving", !.doc = doc]
  <1>1. DOMAIN op = Requests /\ DOMAIN op[r] = Fields /\ op[r].file = "none"
    BY DEF LateInv, Shape, TreeInv, Sound
  <1>2. /\ DOMAIN o = Fields /\ o.ask = op[r].ask /\ o.rest = op[r].rest
        /\ o.base = op[r].base /\ o.doc = doc /\ o.pc = "saving" /\ o.file = op[r].file
    BY <1>1 DEF Fields
  <1>3. op' = [op EXCEPT ![r] = o]
    BY <1>1 DEF Saves
  <1> HIDE DEF o
  <1>4. Sound(o)
    BY <1>1, <1>2, StepSound
  <1> QED
    BY <1>3, <1>4, OneSound, FilesKept

LEMMA CallsForSound ==
    ASSUME LateInv, TreeInv, NEW r \in Requests, Busy(r), op[r].pc = "loading",
           NEW base, Doc(base), base.context, NEW parents \in SUBSET DOMAIN base.nodes,
           parents # {}, CallsFor(r, base, parents), UNCHANGED files, \E doc : Spends(doc),
           IF op[r].ask.kind = "regenerate" THEN parents = {op[r].ask.node}
           ELSE \A m \in DOMAIN base.nodes \ {Root} : ParentOf(m) \notin parents
    PROVE  TreeInv'
PROOF
  <1>1. CASE op[r].aborted
    BY <1>1, EndSound DEF CallsFor
  <1>2. CASE ~op[r].aborted
    <2> DEFINE o == [op[r] EXCEPT !.pc = "growing", !.base = base, !.todo = parents,
                                  !.grown = Empty.nodes]
    <2>1. /\ DOMAIN op = Requests /\ DOMAIN op[r] = Fields /\ op[r].file = "none"
          /\ Sound(op[r])
      BY DEF LateInv, Shape, TreeInv, Sound
    <2>2. /\ o.ask = op[r].ask /\ o.rest = op[r].rest /\ o.base = base /\ o.doc = op[r].doc
          /\ o.pc = "growing" /\ o.file = op[r].file /\ o.todo = parents
          /\ o.grown = Empty.nodes
      BY <2>1 DEF Fields
    <2>3. op' = [op EXCEPT ![r] = o]
      BY <1>2, <2>1 DEF CallsFor
    <2> HIDE DEF o
    <2>4. Grown(base.nodes, parents \ parents, Empty.nodes)
      BY EmptyDoc DEF Grown, Siblings
    <2>5. Growing(o)
      BY <2>2, <2>4 DEF Growing
    <2>6. Sound(o)
      BY <2>1, <2>2, <2>5 DEF Sound
    <2> QED
      BY <2>3, <2>6, OneSound, FilesKept
  <1> QED
    BY <1>1, <1>2

\* A level is expanded from all of the level above it, and only if it is empty.
LEMMA ExpandSound ==
    ASSUME LateInv, TreeInv, NEW r \in Requests, Busy(r), NEW doc \in Loads, Expand(r, doc)
    PROVE  TreeInv'
PROOF
  <1> DEFINE level   == op[r].ask.level
             parents == At(doc.nodes, level - 1)
  <1>1. /\ op[r].pc = "loading" /\ op[r].ask.kind = "expand" /\ Doc(doc)
        /\ UNCHANGED files /\ Spends(doc)
    BY LoadsDoc DEF Expand, Loading, Spends
  <1>2. CASE Conflicts(r)
    BY <1>1, <1>2, ConflictsSound
  <1>3. CASE MayExpand(doc, level) /\ CallsFor(r, doc, parents)
    <2>1. Doc(doc) /\ doc.context
      BY <1>1, <1>3 DEF MayExpand
    <2>2. parents \in SUBSET DOMAIN doc.nodes /\ parents # {}
      BY <1>3 DEF MayExpand, At
    <2>3. level \in Nat
      BY DEF TreeInv, Sound, AskSet
    <2>4. ASSUME NEW m \in DOMAIN doc.nodes \ {Root}
          PROVE  ParentOf(m) \notin parents
      <3>1. m \in Path /\ Len(m) \in Nat \ {0} /\ Len(ParentOf(m)) = Len(m) - 1
        BY <2>1, ParentPath DEF Doc, Tree
      <3>2. Len(m) # level
        BY <1>3 DEF MayExpand, At, Level
      <3> QED
        BY <2>3, <3>1, <3>2 DEF At, Level
    <2> HIDE DEF parents
    <2> QED
      BY <1>1, <1>3, <2>1, <2>2, <2>4, CallsForSound
  <1> QED
    BY <1>2, <1>3 DEF Expand

LEMMA RegenerateSound ==
    ASSUME LateInv, TreeInv, NEW r \in Requests, Busy(r), NEW doc \in Loads, Regenerate(r, doc)
    PROVE  TreeInv'
PROOF
  <1> DEFINE n == op[r].ask.node
  <1>1. /\ op[r].pc = "loading" /\ op[r].ask.kind = "regenerate" /\ Doc(doc)
        /\ UNCHANGED files /\ Spends(doc)
    BY LoadsDoc DEF Regenerate, Loading, Spends
  <1>2. CASE End(r)
    BY <1>1, <1>2, EndSound
  <1>3. CASE n \in DOMAIN doc.nodes /\ doc.context /\ CallsFor(r, doc, {n})
    <2>1. Doc(doc) /\ {n} \in SUBSET DOMAIN doc.nodes
      BY <1>1, <1>3
    <2> QED
      BY <1>1, <1>3, <2>1, CallsForSound
  <1> QED
    BY <1>2, <1>3 DEF Regenerate

LEMMA LoadSound ==
    ASSUME LateInv, TreeInv, NEW r \in Requests, Busy(r), NEW doc \in Loads,
           Plant(r, doc) \/ Record(r, doc) \/ Edit(r, doc)
    PROVE  TreeInv'
PROOF
  <1>1. op[r].pc = "loading" /\ UNCHANGED files /\ Doc(doc) /\ Spends(doc)
    BY LoadsDoc DEF Plant, Record, Edit, Loading, Spends
  <1>2. CASE Plant(r, doc)
    BY <1>1, <1>2, PlantedDoc, SavesSound, ConflictsSound DEF Plant
  <1>3. CASE Record(r, doc)
    BY <1>1, <1>3, RecordedDoc, SavesSound DEF Record
  <1>4. CASE Edit(r, doc)
    <2> DEFINE new == Edited(doc, op[r].ask.node, spent.edits + 1, op[r].ask.keep)
    <2>1. CASE End(r)
      BY <1>1, <2>1, EndSound
    <2>2. CASE /\ op[r].ask.node \in DOMAIN doc.nodes /\ Saves(r, new)
      <3>1. Doc(new)
        <4>1. spent.edits + 1 \in Nat
          BY DEF TreeInv
        <4> QED
          BY <1>1, <2>2, <4>1, EditedDoc
      <3> HIDE DEF new
      <3> QED
        BY <1>1, <2>2, <3>1, SavesSound
    <2> QED
      BY <1>4, <2>1, <2>2 DEF Edit
  <1> QED
    BY <1>2, <1>3, <1>4

\* One parent's children more; the last ones complete the document.
LEMMA GrowSound ==
    ASSUME LateInv, TreeInv, NEW r \in Requests, Busy(r), NEW count \in 1 .. MaxChildren,
           Grow(r, count)
    PROVE  TreeInv'
PROOF
  <1> DEFINE o     == op[r]
             p     == CHOOSE q \in o.todo : TRUE
             grown == Join(o.grown, Children(o.base.nodes, p, spent.calls + 1, count))
             left  == o.todo \ {p}
             late  == IF o.aborted THEN o.late + 1 ELSE o.late
             done  == [o EXCEPT !.pc = "saving", !.doc = Complete(o, grown), !.todo = {},
                                !.base = Empty, !.grown = Empty.nodes, !.late = late]
             more  == [o EXCEPT !.todo = left, !.grown = grown, !.late = late]
  <1>1. /\ o.pc = "growing" /\ UNCHANGED files /\ spent' = [spent EXCEPT !.calls = @ + 1]
        /\ DOMAIN o = Fields /\ Sound(o) /\ o.file = "none" /\ Growing(o)
    BY DEF Grow, LateInv, Shape, TreeInv, Sound
  <1>2. PICK parents \in SUBSET DOMAIN o.base.nodes :
           /\ o.base.context
           /\ o.todo # {} /\ o.todo \subseteq parents
           /\ Grown(o.base.nodes, parents \ o.todo, o.grown)
           /\ IF o.ask.kind = "regenerate" THEN parents = {o.ask.node}
              ELSE \A m \in DOMAIN o.base.nodes \ {Root} : ParentOf(m) \notin parents
    BY <1>1 DEF Growing
  <1>3. p \in o.todo /\ p \in DOMAIN o.base.nodes
    BY <1>2
  <1>4. Grown(o.base.nodes, parents \ left, grown)
    <2>1. Tree(o.base.nodes) /\ spent.calls + 1 \in Nat /\ count \in Nat
      BY <1>1, MaxChildrenAssumption DEF TreeInv, Sound, Doc
    <2>2. parents \ left = (parents \ o.todo) \cup {p}
      BY <1>2, <1>3
    <2> HIDE DEF o, p
    <2> QED
      BY <1>2, <1>3, <2>1, <2>2, GrownMore
  <1>5. CASE left = {} /\ op' = [op EXCEPT ![r] = done]
    <2>1. Doc(Complete(o, grown))
      <3>1. Doc(o.base) /\ parents \ left = parents
        BY <1>1, <1>5 DEF Sound
      <3> HIDE DEF o, p, grown, left
      <3> QED
        BY <1>2, <1>4, <3>1, CompleteDoc
    <2>2. /\ done.ask = o.ask /\ done.rest = o.rest /\ done.base = Empty
          /\ done.doc = Complete(o, grown) /\ done.pc = "saving" /\ done.file = o.file
      <3> HIDE DEF o, grown, late
      <3> QED
        BY <1>1 DEF Fields
    <2> HIDE DEF done, grown
    <2>3. Sound(done)
      BY <1>1, <2>1, <2>2, EmptyDoc DEF Sound
    <2> QED
      BY <1>1, <1>5, <2>3, OneSound, FilesKept
  <1>6. CASE left # {} /\ op' = [op EXCEPT ![r] = more]
    <2>1. /\ more.ask = o.ask /\ more.rest = o.rest /\ more.base = o.base
          /\ more.doc = o.doc /\ more.pc = "growing" /\ more.file = o.file
          /\ more.todo = left /\ more.grown = grown
      <3> HIDE DEF o, grown, late, left
      <3> QED
        BY <1>1 DEF Fields
    <2>2. left \subseteq parents
      BY <1>2
    <2> HIDE DEF more, grown, left
    <2>3. Growing(more)
      BY <1>2, <1>4, <1>6, <2>1, <2>2 DEF Growing
    <2>4. Sound(more)
      BY <1>1, <2>1, <2>3 DEF Sound
    <2> QED
      BY <1>1, <1>6, <2>4, OneSound, FilesKept
  <1>7. CASE End(r)
    BY <1>1, <1>7, OneSound, FilesKept DEF End
  <1> QED
    BY <1>5, <1>6, <1>7, Zenon DEF Grow

\* The staging file is opened.
LEMMA OpenSound ==
    ASSUME LateInv, TreeInv, NEW r \in Requests, Busy(r), OpenStaging(r)
    PROVE  TreeInv'
PROOF
  <1> DEFINE o == [op[r] EXCEPT !.pc = "writing", !.file = "staging"]
  <1>1. DOMAIN op = Requests /\ DOMAIN op[r] = Fields /\ Sound(op[r])
    BY DEF LateInv, Shape, TreeInv
  <1>2. /\ o.ask = op[r].ask /\ o.rest = op[r].rest /\ o.base = op[r].base
        /\ o.doc = op[r].doc /\ o.pc = "writing" /\ o.file = "staging"
    BY <1>1 DEF Fields
  <1>3. op' = [op EXCEPT ![r] = o]
    BY <1>1 DEF OpenStaging
  <1> HIDE DEF o
  <1>4. Sound(o)
    BY <1>1, <1>2 DEF Sound
  <1>5. File(stored)' /\ File(staging)' /\ UNCHANGED spent
    BY DEF OpenStaging, File, Unreadable, TreeInv
  <1> QED
    BY <1>3, <1>4, <1>5, OneSound

\* What is written is the document, or the mixture of two.
LEMMA WriteSound ==
    ASSUME LateInv, TreeInv, NEW r \in Requests, Busy(r), WriteStaging(r)
    PROVE  TreeInv'
PROOF
  <1> DEFINE o == [op[r] EXCEPT !.pc = "renaming", !.file = "none"]
  <1>1. DOMAIN op = Requests /\ DOMAIN op[r] = Fields /\ Sound(op[r]) /\ Doc(op[r].doc)
    BY DEF LateInv, Shape, TreeInv, Sound
  <1>2. /\ o.ask = op[r].ask /\ o.rest = op[r].rest /\ o.base = op[r].base
        /\ o.doc = op[r].doc /\ o.pc = "renaming" /\ o.file = "none"
    BY <1>1 DEF Fields
  <1>3. op' = [op EXCEPT ![r] = o]
    BY <1>1 DEF WriteStaging
  <1> HIDE DEF o
  <1>4. Sound(o)
    BY <1>1, <1>2 DEF Sound
  <1>5. \A held, new : new \in Written(op[r].doc, held) => File(new)
    BY <1>1 DEF Written, File, Unreadable
  <1>6. File(stored') /\ File(staging') /\ UNCHANGED spent
    BY <1>5 DEF WriteStaging, TreeInv, files
  <1>7. File(stored)' /\ File(staging)'
    BY <1>6 DEF File
  <1> QED
    BY <1>3, <1>4, <1>6, <1>7, OneSound

\* The outline is what was staged; the file another save writes has another name.
LEMMA RenameSound ==
    ASSUME LateInv, TreeInv, NEW r \in Requests, Busy(r), Rename(r)
    PROVE  TreeInv'
PROOF
  <1>1. op[r].pc = "renaming" /\ UNCHANGED spent
    BY DEF Rename
  <1>2. CASE End(r) /\ UNCHANGED files
    BY <1>1, <1>2, EndSound
  <1>3. CASE /\ stored' = staging /\ staging' = None
             /\ op' = [q \in Requests |->
                   IF q = r THEN Saved(op[r])
                   ELSE IF Busy(q) THEN [op[q] EXCEPT !.file = NameOf(@)] ELSE Idle]
    <2>1. Saved(op[r]) = Idle \/ Sound(Saved(op[r]))
      BY <1>1, GoesOnSound DEF Saved
    <2>2. ASSUME NEW q \in Requests, Busy(q)
          PROVE  Sound([op[q] EXCEPT !.file = NameOf(@)])
      <3> DEFINE o == [op[q] EXCEPT !.file = NameOf(@)]
      <3>1. DOMAIN op[q] = Fields /\ Sound(op[q])
        BY <2>2 DEF LateInv, Shape, TreeInv
      <3>2. /\ o.ask = op[q].ask /\ o.rest = op[q].rest /\ o.base = op[q].base
            /\ o.doc = op[q].doc /\ o.pc = op[q].pc /\ o.file = NameOf(op[q].file)
            /\ o.todo = op[q].todo /\ o.grown = op[q].grown
        BY <3>1 DEF Fields
      <3>3. NameOf(op[q].file) = "none" <=> op[q].file = "none"
        BY DEF NameOf
      <3> HIDE DEF o
      <3>4. Sound(o)
        BY <3>1, <3>2, <3>3 DEF Sound, Growing
      <3> QED
        BY <3>4 DEF o
    <2>3. \A q \in Requests : op'[q] # Idle => Sound(op'[q])
      BY <1>3, <2>1, <2>2
    <2>4. File(stored)' /\ File(staging)'
      BY <1>3 DEF TreeInv, File
    <2> QED
      BY <1>1, <2>3, <2>4 DEF TreeInv, Busy
  <1> QED
    BY <1>1, <1>2, <1>3 DEF Rename

LEMMA AbortSound ==
    ASSUME LateInv, TreeInv, NEW r \in Requests, Busy(r), Abort(r)
    PROVE  TreeInv'
PROOF
  <1> DEFINE o == [op[r] EXCEPT !.aborted = TRUE]
  <1>1. DOMAIN op = Requests /\ DOMAIN op[r] = Fields /\ Sound(op[r])
    BY DEF LateInv, Shape, TreeInv
  <1>2. /\ o.ask = op[r].ask /\ o.rest = op[r].rest /\ o.base = op[r].base
        /\ o.doc = op[r].doc /\ o.pc = op[r].pc /\ o.file = op[r].file
        /\ o.todo = op[r].todo /\ o.grown = op[r].grown
    BY <1>1 DEF Fields
  <1>3. op' = [op EXCEPT ![r] = o]
    BY <1>1 DEF Abort
  <1> HIDE DEF o
  <1>4. Sound(o)
    BY <1>1, <1>2 DEF Sound, Growing
  <1> QED
    BY <1>3, <1>4, OneSound, FilesKept DEF Abort

LEMMA AskTyped ==
    ASSUME NEW kind \in Kinds
    PROVE  Ask(kind) \in AskSet
PROOF
  <1>1. Root \in Path
    BY DEF Root, Path
  <1> QED
    BY <1>1 DEF Ask, AskSet

\* What is asked is about a path.
LEMMA AsksTyped ==
    /\ Asks \subseteq AskSet
    /\ Head(StageAsks) \in AskSet /\ Tail(StageAsks) \in Seq(AskSet)
PROOF
  <1>2. /\ Ask("plant") \in AskSet /\ Ask("intake") \in AskSet /\ Ask("record") \in AskSet
        /\ Ask("expand") \in AskSet
    BY AskTyped DEF Kinds
  <1>3. ASSUME NEW l \in Nat
        PROVE  [Ask("expand") EXCEPT !.level = l] \in AskSet
    <2>1. \A ask \in AskSet : [ask EXCEPT !.level = l] \in AskSet
      BY DEF AskSet
    <2>2. Ask("expand") \in AskSet
      BY <1>2
    <2> QED
      BY <2>1, <2>2
  <1>4. Asks \subseteq AskSet
    <2>1. 1 .. Depth \subseteq Nat
      BY DepthAssumption
    <2>2. Ask("plant") \in AskSet /\ Ask("intake") \in AskSet
      BY <1>2
    <2>3. \A l \in 1 .. Depth : [Ask("expand") EXCEPT !.level = l] \in AskSet
      BY <1>3, <2>1
    <2> QED
      BY <2>2, <2>3, Zenon DEF Asks
  <1> DEFINE opening == <<Ask("plant"), Ask("record")>>
             levels  == [l \in 1 .. Depth |-> [Ask("expand") EXCEPT !.level = l]]
  <1>5. opening \in Seq(AskSet) /\ Len(opening) = 2
    <2>1. Ask("plant") \in AskSet /\ Ask("record") \in AskSet
      BY <1>2
    <2> QED
      BY <2>1
  <1>6. levels \in Seq(AskSet)
    BY <1>3, DepthAssumption
  <1> HIDE DEF opening, levels
  <1>7. opening \o levels \in Seq(AskSet) /\ opening \o levels # <<>>
    BY <1>5, <1>6
  <1>8. StageAsks \in Seq(AskSet) /\ StageAsks # <<>>
    BY <1>7 DEF StageAsks, opening, levels
  <1>9. Head(StageAsks) \in AskSet /\ Tail(StageAsks) \in Seq(AskSet)
    BY <1>8
  <1> QED
    BY <1>4, <1>9

LEMMA AsksOfTyped ==
    ASSUME NEW n \in Path
    PROVE  AsksOf(n) \subseteq AskSet
PROOF
  <1>1. Ask("regenerate") \in AskSet /\ Ask("edit") \in AskSet
    BY AskTyped DEF Kinds
  <1>2. \A ask \in AskSet : [ask EXCEPT !.node = n] \in AskSet
    BY DEF AskSet
  <1>3. \A ask \in AskSet, k \in BOOLEAN : [ask EXCEPT !.node = n, !.keep = k] \in AskSet
    BY DEF AskSet
  <1>4. [Ask("regenerate") EXCEPT !.node = n] \in AskSet
    BY <1>1, <1>2
  <1>5. \A k \in BOOLEAN : [Ask("edit") EXCEPT !.node = n, !.keep = k] \in AskSet
    BY <1>1, <1>3
  <1> QED
    BY <1>4, <1>5 DEF AsksOf

LEMMA BeginSound ==
    ASSUME LateInv, TreeInv, NEW r \in Requests, NEW ask \in AskSet, NEW rest \in Seq(AskSet),
           NEW isStage, Begin(r, ask, rest, isStage)
    PROVE  TreeInv'
PROOF
  <1> DEFINE o == Start(ask, rest, isStage)
  <1>1. /\ o.ask = ask /\ o.rest = rest /\ o.base = Empty /\ o.doc = Empty
        /\ o.pc \in {"briefing", "loading"} /\ o.file = "none"
    BY DEF Start
  <1> HIDE DEF o
  <1>2. Sound(o)
    BY <1>1, EmptyDoc DEF Sound
  <1> QED
    BY <1>2, OneSound, FilesKept DEF Begin, o

LEMMA BriefedSound ==
    ASSUME LateInv, TreeInv, NEW r \in Requests, Busy(r), Briefed(r)
    PROVE  TreeInv'
PROOF
  <1> DEFINE o == [op[r] EXCEPT !.pc = "loading"]
  <1>1. DOMAIN op[r] = Fields /\ Sound(op[r])
    BY DEF LateInv, Shape, TreeInv
  <1>2. /\ DOMAIN o = Fields /\ o.ask = op[r].ask /\ o.rest = op[r].rest
        /\ o.base = op[r].base /\ o.doc = op[r].doc /\ o.pc = "loading"
        /\ o.file = op[r].file
    BY <1>1 DEF Fields
  <1>3. op' = [op EXCEPT ![r] = o]
    BY DEF Briefed
  <1> HIDE DEF o
  <1>4. Sound(o)
    BY <1>1, <1>2 DEF Briefed, Sound
  <1> QED
    BY <1>3, <1>4, OneSound, FilesKept DEF Briefed

LEMMA WorksSound ==
    ASSUME LateInv, TreeInv, NEW r \in Requests, Works(r)
    PROVE  TreeInv'
PROOF
  <1>1. Busy(r)
    BY WorksBusy
  <1>2. CASE Fails(r) \/ LoadFails(r) \/ WriteFails(r) \/ Critiqued(r)
    BY <1>2, EndSound DEF Fails, LoadFails, WriteFails, Critiqued
  <1>3. CASE \E doc \in Loads : Plant(r, doc) \/ Record(r, doc) \/ Edit(r, doc)
    BY <1>1, <1>3, LoadSound
  <1> QED
    BY <1>1, <1>2, <1>3, BriefedSound, ExpandSound, RegenerateSound, GrowSound, OpenSound,
       WriteSound, RenameSound DEF Works

LEMMA InitSound == Init => TreeInv
  BY DEF Init, TreeInv, File, Busy

LEMMA NextSound == LateInv /\ TreeInv /\ [Next]_vars => TreeInv'
PROOF
  <1> SUFFICES ASSUME LateInv, TreeInv, [Next]_vars PROVE TreeInv'
    OBVIOUS
  <1>1. CASE Crash
    <2>1. File(stored)' /\ File(staging)'
      BY <1>1, FilesKept DEF Crash
    <2>2. \A r \in Requests : op'[r] = Idle
      BY <1>1 DEF Crash
    <2> QED
      BY <1>1, <2>1, <2>2 DEF Crash, TreeInv, Busy
  <1>2. CASE UNCHANGED vars
    <2>1. File(stored)' /\ File(staging)'
      BY <1>2, FilesKept DEF vars, files
    <2> QED
      BY <1>2, <2>1 DEF vars, TreeInv, Busy
  <1>3. CASE \E r \in Requests : Works(r) \/ (Busy(r) /\ Abort(r))
    BY <1>3, WorksSound, AbortSound
  <1>4. CASE \E r \in Requests, ask \in Asks : Begin(r, ask, <<>>, FALSE)
    <2>1. <<>> \in Seq(AskSet)
      OBVIOUS
    <2> QED
      BY <1>4, <2>1, BeginSound, AsksTyped
  <1>5. CASE \E r \in Requests, n \in Shown : \E ask \in AsksOf(n) :
                Begin(r, ask, <<>>, FALSE)
    <2>1. Shown \subseteq Path
      BY OutlineDoc DEF Shown, Doc, Tree
    <2>2. \A n \in Path : AsksOf(n) \subseteq AskSet
      BY AsksOfTyped
    <2>3. <<>> \in Seq(AskSet)
      OBVIOUS
    <2> QED
      BY <1>5, <2>1, <2>2, <2>3, BeginSound
  <1>6. CASE \E r \in Requests : Begin(r, Head(StageAsks), Tail(StageAsks), TRUE)
    BY <1>6, BeginSound, AsksTyped
  <1> QED
    BY <1>1, <1>2, <1>3, <1>4, <1>5, <1>6 DEF Next

-----------------------------------------------------------------------------

LEMMA SoundSpec == Spec => [](LateInv /\ TreeInv)
PROOF
  <1>1. Init => LateInv /\ TreeInv
    BY InitLate, InitSound
  <1>2. LateInv /\ TreeInv /\ [Next]_vars => (LateInv /\ TreeInv)'
    BY NextLate, NextSound
  <1> QED
    BY <1>1, <1>2, PTL DEF Spec

\* Every save stores a tree that was grown or edited from a tree, and no two saves are ever
\* mixed in a file that can be read: with a node its parent is there, and one generation of
\* children only.
THEOREM TreesAreSound == Spec => []TreeIsSound
PROOF
  <1> SUFFICES ASSUME LateInv, TreeInv PROVE TreeIsSound
    BY SoundSpec, PTL
  <1>1. \A doc : Doc(doc) => Document(doc)
    BY DEF Doc, Document, Tree
  <1>2. TypeOK
    <2>1. \A held \in {stored, staging} : held \in Unreadable \cup {None} \/ Document(held)
      BY <1>1 DEF TreeInv, File
    <2>2. ASSUME NEW r \in Requests, Busy(r)
          PROVE  /\ Document(op[r].base) /\ Document(op[r].doc)
                 /\ op[r].pc = "writing" <=> op[r].file # "none"
                 /\ op[r].pc = "growing" =>
                       op[r].todo # {} /\ op[r].todo \subseteq DOMAIN op[r].base.nodes
      BY <1>1, <2>2 DEF TreeInv, Sound, Growing
    <2> QED
      BY <2>1, <2>2 DEF TypeOK
  <1>3. Readable => SoundTree(Outline.nodes)
    <2>1. Readable => Tree(Outline.nodes)
      BY OutlineDoc DEF Doc
    <2> QED
      BY <2>1, ParentInTree DEF SoundTree, Tree, Siblings
  <1> QED
    BY <1>2, <1>3 DEF TreeIsSound

\* An edit marks everything below it, a regrown subtree replaces everything below its node,
\* and an expansion adds leaves that answer the texts above them.
THEOREM UnmarkedAreCurrent == Spec => []UnmarkedNodesAreCurrent
PROOF
  <1> SUFFICES ASSUME LateInv, TreeInv PROVE UnmarkedNodesAreCurrent
    BY SoundSpec, PTL
  <1> QED
    BY OutlineDoc DEF UnmarkedNodesAreCurrent, Doc, Tree, Current

-----------------------------------------------------------------------------
\* What an operation saves keeps what it read.

LEMMA GoesOnPc ==
    ASSUME LateInv, NEW r \in Requests, Busy(r)
    PROVE  GoesOn(op[r]).pc \in {"ending", "loading"}
  BY DEF LateInv, Shape, GoesOn, Fields

\* Only an operation that makes a document comes to save one.
LEMMA WhoSaves ==
    ASSUME LateInv, Next, NEW r \in Requests, op[r].pc # "saving", op'[r].pc = "saving"
    PROVE  /\ Busy(r)
           /\ \/ \E doc \in Loads : Plant(r, doc) \/ Record(r, doc) \/ Edit(r, doc)
              \/ \E count \in 1 .. MaxChildren : Grow(r, count)
PROOF
  <1>1. /\ DOMAIN op = Requests /\ Idle.pc = "idle"
        /\ \A q \in Requests : Busy(q) => DOMAIN op[q] = Fields
    BY DEF LateInv, Shape, Idle
  <1>2. ASSUME NEW q \in Requests, NEW o, op' = [op EXCEPT ![q] = o], o.pc # "saving"
        PROVE  FALSE
    BY <1>1, <1>2
  <1>3. ASSUME NEW q \in Requests, End(q)
        PROVE  FALSE
    BY <1>1, <1>2, <1>3 DEF End
  <1>4. ASSUME NEW q \in Requests, q # r, NEW o, op' = [op EXCEPT ![q] = o]
        PROVE  FALSE
    BY <1>1, <1>4
  <1>5. ASSUME NEW q \in Requests, NEW ask, NEW rest, NEW isStage, Begin(q, ask, rest, isStage)
        PROVE  FALSE
    BY <1>2, <1>5 DEF Begin, Start
  <1>6. ASSUME Crash
        PROVE  FALSE
    BY <1>1, <1>6 DEF Crash
  <1>7. ASSUME NEW q \in Requests, Busy(q), Abort(q)
        PROVE  FALSE
    <2>1. op' = [op EXCEPT ![q] = [op[q] EXCEPT !.aborted = TRUE]]
      BY <1>7 DEF Abort
    <2>2. [op[q] EXCEPT !.aborted = TRUE].pc = op[q].pc
      BY <1>1, <1>7 DEF Fields
    <2>3. op'[r].pc = op[r].pc
      BY <1>1, <2>1, <2>2
    <2> QED
      BY <2>3
  <1>8. ASSUME NEW q \in Requests, Conflicts(q), Busy(q)
        PROVE  FALSE
    <2>1. GoesOn(op[q]).pc # "saving"
      BY <1>8, GoesOnPc
    <2>2. [op[q] EXCEPT !.pc = "ending"].pc # "saving"
      BY <1>1, <1>8 DEF Fields
    <2> QED
      BY <1>2, <1>3, <1>8, <2>1, <2>2 DEF Conflicts
  <1>9. ASSUME NEW q \in Requests, Busy(q), NEW base, NEW parents, CallsFor(q, base, parents)
        PROVE  FALSE
    <2>1. CASE End(q)
      BY <1>3, <2>1
    <2>2. CASE ~op[q].aborted
      <3> DEFINE o == [op[q] EXCEPT !.pc = "growing", !.base = base, !.todo = parents,
                                    !.grown = Empty.nodes]
      <3>1. o.pc = "growing" /\ op' = [op EXCEPT ![q] = o]
        BY <1>1, <1>9, <2>2 DEF CallsFor, Fields
      <3> HIDE DEF o
      <3> QED
        BY <1>2, <3>1
    <2> QED
      BY <1>9, <2>1, <2>2 DEF CallsFor
  <1>10. ASSUME NEW q \in Requests, Busy(q), Rename(q)
         PROVE  FALSE
    <2>1. CASE End(q)
      BY <1>3, <2>1
    <2>2. CASE op' = [p \in Requests |->
                   IF p = q THEN Saved(op[q])
                   ELSE IF Busy(p) THEN [op[p] EXCEPT !.file = NameOf(@)] ELSE Idle]
      <3>1. Saved(op[q]).pc # "saving"
        BY <1>1, <1>10, GoesOnPc DEF Saved
      <3>2. Busy(r) => [op[r] EXCEPT !.file = NameOf(@)].pc = op[r].pc
        BY <1>1 DEF Fields
      <3> QED
        BY <1>1, <2>2, <3>1, <3>2
    <2> QED
      BY <1>10, <2>1, <2>2 DEF Rename
  <1>11. ASSUME NEW q \in Requests, Busy(q), NEW pc, pc # "saving", NEW file,
                \/ op' = [op EXCEPT ![q].pc = pc]
                \/ op' = [op EXCEPT ![q].pc = pc, ![q].file = file]
         PROVE  FALSE
    <2>1. op'[q].pc = pc /\ (r # q => op'[r] = op[r])
      BY <1>1, <1>11 DEF Fields
    <2> QED
      BY <1>11, <2>1
  <1>12. ASSUME NEW q \in Requests, q # r, NEW doc, Saves(q, doc)
         PROVE  FALSE
    BY <1>1, <1>12 DEF Saves
  <1>13. ASSUME NEW q \in Requests, q # r, NEW count, Grow(q, count)
         PROVE  FALSE
    BY <1>3, <1>4, <1>13, Zenon DEF Grow
  <1>14. PICK q \in Requests : Works(q)
    BY <1>5, <1>6, <1>7 DEF Next
  <1>15. Busy(q)
    BY <1>14, WorksBusy
  <1>16. ~Fails(q) /\ ~LoadFails(q) /\ ~WriteFails(q) /\ ~Critiqued(q)
    BY <1>3 DEF Fails, LoadFails, WriteFails, Critiqued
  <1>17. ~Briefed(q) /\ ~OpenStaging(q) /\ ~WriteStaging(q)
    BY <1>11, <1>15 DEF Briefed, OpenStaging, WriteStaging
  <1>18. \A doc : ~Expand(q, doc) /\ ~Regenerate(q, doc)
    BY <1>3, <1>8, <1>9, <1>15 DEF Expand, Regenerate
  <1>19. ~Rename(q)
    BY <1>10, <1>15
  <1>20. \/ \E doc \in Loads : Plant(q, doc) \/ Record(q, doc) \/ Edit(q, doc)
         \/ \E count \in 1 .. MaxChildren : Grow(q, count)
    BY <1>14, <1>16, <1>17, <1>18, <1>19, Zenon DEF Works
  <1>21. q = r
    BY <1>3, <1>8, <1>12, <1>13, <1>15, <1>20 DEF Plant, Record, Edit
  <1> QED
    BY <1>15, <1>20, <1>21

\* An edit drops what is below its node, if it is asked to, and rewrites its node.
LEMMA EditKeeps ==
    ASSUME NEW doc, Doc(doc), NEW n \in DOMAIN doc.nodes, NEW text, NEW keep \in BOOLEAN,
           NEW m \in DOMAIN doc.nodes, ~(~keep /\ IsStrictPrefix(n, m))
    PROVE  Survives(doc.nodes[m], Edited(doc, n, text, keep).nodes, m)
PROOF
  <1> DEFINE nodes == doc.nodes
             under == Descendants(nodes, n)
             left  == IF keep THEN nodes ELSE Without(nodes, under)
             new   == [k \in DOMAIN left |->
                         IF k = n THEN Rewritten(nodes, n, text)
                         ELSE [left[k] EXCEPT !.stale = @ \/ k \in under]]
  <1>1. Edited(doc, n, text, keep).nodes = new
    BY DEF Edited, Doc
  <1>2. m \in DOMAIN left /\ left[m] = nodes[m]
    BY DEF Without, Descendants
  <1>3. CASE m = n
    <2>1. /\ nodes[n].past \in Seq(Nat) /\ Len(nodes[n].past) <= HistoryLimit
          /\ nodes[n].text \in Nat
      BY DEF Doc, Tree, Node
    <2>2. Texts(nodes[n]) \ Oldest(nodes[n])
             \subseteq Range(Latest(Append(nodes[n].past, nodes[n].text)))
      BY <2>1, LatestKeeps DEF Texts, Oldest
    <2>3. new[n] = Rewritten(nodes, n, text) /\ n \in DOMAIN new
      BY <1>2, <1>3
    <2>4. new[n].past = Latest(Append(nodes[n].past, nodes[n].text))
      BY <2>3 DEF Rewritten
    <2> HIDE DEF nodes, new
    <2>5. Texts(nodes[n]) \ Oldest(nodes[n]) \subseteq Texts(new[n])
      BY <2>2, <2>4 DEF Texts
    <2> QED
      BY <1>1, <1>3, <2>3, <2>5 DEF Survives, nodes
  <1>4. CASE m # n
    <2>1. new[m] = [left[m] EXCEPT !.stale = @ \/ m \in under] /\ m \in DOMAIN new
      BY <1>2, <1>4
    <2>2. nodes[m] \in Node
      BY DEF Doc, Tree
    <2> HIDE DEF new, left, under
    <2>3. new[m].text = nodes[m].text /\ new[m].past = nodes[m].past
      BY <1>2, <2>1, <2>2 DEF Node
    <2> QED
      BY <1>1, <2>1, <2>3 DEF Survives, Texts
  <1> QED
    BY <1>3, <1>4

\* What is grown takes no node's place, but those below the node that is regenerated.
LEMMA CompleteKeeps ==
    ASSUME NEW o, Doc(o.base), NEW parents \in SUBSET DOMAIN o.base.nodes,
           NEW grown, Grown(o.base.nodes, parents, grown),
           IF o.ask.kind = "regenerate" THEN parents = {o.ask.node}
           ELSE \A m \in DOMAIN o.base.nodes \ {Root} : ParentOf(m) \notin parents,
           NEW m \in DOMAIN o.base.nodes, ~AskedToDrop(o, m)
    PROVE  Survives(o.base.nodes[m], Complete(o, grown).nodes, m)
PROOF
  <1> DEFINE nodes == o.base.nodes
  <1>1. \A g \in DOMAIN grown : g \in Path /\ g # Root /\ ParentOf(g) \in parents
    BY DEF Grown
  <1>2. m \notin DOMAIN grown
    <2>1. CASE o.ask.kind = "regenerate"
      <3>1. ~IsStrictPrefix(o.ask.node, m)
        BY <2>1 DEF AskedToDrop
      <3> QED
        BY <1>1, <2>1, <3>1, ParentPath
    <2>2. CASE o.ask.kind # "regenerate"
      BY <1>1, <2>2
    <2> QED
      BY <2>1, <2>2
  <1>3. CASE o.ask.kind = "regenerate"
    <2>1. m \notin Descendants(nodes, o.ask.node)
      BY <1>3 DEF AskedToDrop, Descendants
    <2>2. Complete(o, grown).nodes
          = Join(Without(nodes, Descendants(nodes, o.ask.node)), grown)
      BY <1>3 DEF Complete, Regrown, Doc
    <2> QED
      BY <1>2, <2>1, <2>2 DEF Join, Without, Survives
  <1>4. CASE o.ask.kind # "regenerate"
    <2>1. Complete(o, grown).nodes = Join(nodes, grown)
      BY <1>4 DEF Complete, Expanded, Doc
    <2> QED
      BY <1>2, <2>1 DEF Join, Survives
  <1> QED
    BY <1>3, <1>4

LEMMA GrowKeeps ==
    ASSUME LateInv, TreeInv, NEW r \in Requests, Busy(r), NEW count \in 1 .. MaxChildren,
           Grow(r, count), op'[r].pc = "saving",
           NEW m \in DOMAIN op[r].base.nodes, ~AskedToDrop(op[r], m)
    PROVE  Survives(op[r].base.nodes[m], op'[r].doc.nodes, m)
PROOF
  <1> DEFINE o     == op[r]
             p     == CHOOSE q \in o.todo : TRUE
             grown == Join(o.grown, Children(o.base.nodes, p, spent.calls + 1, count))
             left  == o.todo \ {p}
             late  == IF o.aborted THEN o.late + 1 ELSE o.late
             done  == [o EXCEPT !.pc = "saving", !.doc = Complete(o, grown), !.todo = {},
                                !.base = Empty, !.grown = Empty.nodes, !.late = late]
             more  == [o EXCEPT !.todo = left, !.grown = grown, !.late = late]
  <1>1. /\ o.pc = "growing" /\ DOMAIN o = Fields /\ Doc(o.base) /\ Growing(o)
        /\ DOMAIN op = Requests
    BY DEF Grow, LateInv, Shape, TreeInv, Sound
  <1>2. PICK parents \in SUBSET DOMAIN o.base.nodes :
           /\ o.todo # {} /\ o.todo \subseteq parents
           /\ Grown(o.base.nodes, parents \ o.todo, o.grown)
           /\ IF o.ask.kind = "regenerate" THEN parents = {o.ask.node}
              ELSE \A k \in DOMAIN o.base.nodes \ {Root} : ParentOf(k) \notin parents
    BY <1>1 DEF Growing
  <1>3. p \in o.todo /\ p \in DOMAIN o.base.nodes
    BY <1>2
  <1>4. Grown(o.base.nodes, parents \ left, grown)
    <2>1. Tree(o.base.nodes) /\ spent.calls + 1 \in Nat /\ count \in Nat
      BY <1>1, MaxChildrenAssumption DEF TreeInv, Doc
    <2>2. parents \ left = (parents \ o.todo) \cup {p}
      BY <1>2, <1>3
    <2> HIDE DEF o, p
    <2> QED
      BY <1>2, <1>3, <2>1, <2>2, GrownMore
  <1>5. CASE left = {} /\ op' = [op EXCEPT ![r] = done]
    <2>1. op'[r].doc = Complete(o, grown)
      <3>1. op'[r] = done
        BY <1>1, <1>5
      <3> HIDE DEF o, grown, late
      <3> QED
        BY <1>1, <3>1 DEF Fields
    <2>2. parents \ left = parents
      BY <1>5
    <2> HIDE DEF grown, left
    <2> QED
      BY <1>1, <1>2, <1>4, <2>1, <2>2, CompleteKeeps
  <1>6. CASE op' = [op EXCEPT ![r] = more]
    <2>1. more.pc = o.pc
      <3> HIDE DEF o, grown, late, left
      <3> QED
        BY <1>1 DEF Fields
    <2> HIDE DEF more
    <2> QED
      BY <1>1, <1>6, <2>1
  <1>7. CASE End(r)
    BY <1>1, <1>7 DEF End, Idle
  <1> QED
    BY <1>5, <1>6, <1>7, Zenon DEF Grow

LEMMA SavedDoc ==
    ASSUME LateInv, NEW r \in Requests, Busy(r), NEW doc, Saves(r, doc)
    PROVE  op'[r].doc = doc
  BY DEF LateInv, Shape, Saves, Fields

\* A document that lacks a root has no nodes at all.
LEMMA NoRoot ==
    ASSUME NEW doc, Doc(doc), At(doc.nodes, 0) = {}
    PROVE  DOMAIN doc.nodes = {}
PROOF
  <1> SUFFICES ASSUME NEW n \in DOMAIN doc.nodes PROVE FALSE
    OBVIOUS
  <1>1. n \in Path /\ Len(n) \in Nat /\ 0 \in 0 .. Len(n)
    BY DEF Doc, Tree, Path
  <1>2. SubSeq(n, 1, 0) \in DOMAIN doc.nodes /\ Len(SubSeq(n, 1, 0)) = 0
    BY <1>1, PrefixOfPrefix DEF Doc, Tree, Closed
  <1> QED
    BY <1>2 DEF At, Level

\* The step that makes a save's document.
LEMMA SavesKeep ==
    ASSUME LateInv, TreeInv, Next, NEW r \in Requests,
           op[r].pc # "saving", op'[r].pc = "saving", spent'.faults = spent.faults,
           NEW n \in DOMAIN Read(r).nodes, ~AskedToDrop(op[r], n)
    PROVE  Survives(Read(r).nodes[n], op'[r].doc.nodes, n)
PROOF
  <1>1. /\ Busy(r)
        /\ \/ \E doc \in Loads : Plant(r, doc) \/ Record(r, doc) \/ Edit(r, doc)
           \/ \E count \in 1 .. MaxChildren : Grow(r, count)
    BY WhoSaves
  <1>2. /\ ~End(r)
        /\ ~Conflicts(r)
    <2>1. DOMAIN op = Requests /\ DOMAIN op[r] = Fields
      BY <1>1 DEF LateInv, Shape
    <2>2. ~End(r)
      BY <2>1 DEF End, Idle
    <2>3. op' # [op EXCEPT ![r] = GoesOn(op[r])]
      BY <1>1, <2>1, GoesOnPc
    <2>4. op' # [op EXCEPT ![r] = [op[r] EXCEPT !.pc = "ending"]]
      BY <2>1 DEF Fields
    <2> QED
      BY <2>2, <2>3, <2>4 DEF Conflicts
  <1>7. ASSUME NEW doc \in Loads, op[r].pc = "loading",
               spent' = Counted(doc) \/ spent' = [Counted(doc) EXCEPT !.edits = @ + 1]
        PROVE  doc = Outline /\ Read(r) = Outline /\ Doc(Outline)
    <2>1. ~IsMisread(doc)
      BY <1>7 DEF Counted, TreeInv
    <2> QED
      BY <1>7, <2>1, OutlineDoc DEF IsMisread, Read
  <1>3. ASSUME NEW doc \in Loads, Plant(r, doc)
        PROVE  Survives(Read(r).nodes[n], op'[r].doc.nodes, n)
    <2>1. doc = Outline /\ Read(r) = Outline /\ Doc(Outline) /\ At(Outline.nodes, 0) = {}
      BY <1>2, <1>3, <1>7 DEF Plant, Loading
    <2> QED
      BY <2>1, NoRoot
  <1>4. ASSUME NEW doc \in Loads, Record(r, doc)
        PROVE  Survives(Read(r).nodes[n], op'[r].doc.nodes, n)
    <2>1. doc = Outline /\ Read(r) = Outline /\ Doc(Outline) /\ Saves(r, Recorded(Outline))
      BY <1>4, <1>7 DEF Record, Loading
    <2>2. op'[r].doc.nodes = Outline.nodes
      BY <1>1, <2>1, SavedDoc DEF Recorded, Doc
    <2> QED
      BY <2>1, <2>2 DEF Survives
  <1>5. ASSUME NEW read \in Loads, Edit(r, read)
        PROVE  Survives(Read(r).nodes[n], op'[r].doc.nodes, n)
    <2> DEFINE ask == op[r].ask
               doc == Edited(Outline, ask.node, spent.edits + 1, ask.keep)
    <2>1. /\ Read(r) = Outline /\ Doc(Outline) /\ ask.node \in DOMAIN Outline.nodes
          /\ Saves(r, doc) /\ ask.kind = "edit"
      BY <1>2, <1>5, <1>7 DEF Edit, Loading
    <2>2. op'[r].doc = doc
      BY <1>1, <2>1, SavedDoc
    <2>3. ask.keep \in BOOLEAN
      BY <1>1 DEF TreeInv, Sound, AskSet
    <2>4. ~(~ask.keep /\ IsStrictPrefix(ask.node, n))
      BY <2>1 DEF AskedToDrop
    <2>5. Survives(Outline.nodes[n], doc.nodes, n)
      BY <2>1, <2>3, <2>4, EditKeeps
    <2> HIDE DEF doc
    <2> QED
      BY <2>1, <2>2, <2>5
  <1>6. CASE \E count \in 1 .. MaxChildren : Grow(r, count)
    <2>1. Read(r) = op[r].base
      BY <1>6 DEF Grow, Read
    <2> QED
      BY <1>1, <1>6, <2>1, GrowKeeps
  <1> QED
    BY <1>1, <1>3, <1>4, <1>5, <1>6

\* A save's document has every node of the outline that was read, but those below a node that
\* is to be regenerated, or edited without its children; and every text of theirs, but the
\* oldest of a history that is full.  A read that fails is excepted: what is saved after it
\* has nothing of the outline (RootIsNotReplaced).
THEOREM NothingElseIsDropped == Spec => DropsOnlyWhatIsAsked
PROOF
  <1>1. LateInv /\ TreeInv /\ [Next]_vars =>
           [\A r \in Requests :
               op[r].pc # "saving" /\ op'[r].pc = "saving" /\ spent'.faults = spent.faults =>
                   \A n \in DOMAIN Read(r).nodes :
                       \/ AskedToDrop(op[r], n)
                       \/ Survives(Read(r).nodes[n], op'[r].doc.nodes, n)]_vars
    BY SavesKeep
  <1> QED
    BY <1>1, SoundSpec, PTL DEF Spec, DropsOnlyWhatIsAsked


-----------------------------------------------------------------------------
\* The graph of the world.

Graphs == UNION {[edges -> {Nil} \cup (0 .. NumScenes)] : edges \in SUBSET Edges}

\* What a scene may do to a graph: it adds what begins in it, and ends what began before it.
Follows(g, h, at) ==
    /\ DOMAIN g \subseteq DOMAIN h
    /\ \A e \in DOMAIN h \ DOMAIN g : e \in Edges /\ e.scene = at /\ h[e] = Nil
    /\ \A e \in DOMAIN g : h[e] = g[e] \/ (g[e] = Nil /\ e.scene < at /\ h[e] = at)

LEMMA GraphForm ==
    ASSUME NEW g
    PROVE  g \in Graphs <=> /\ DOMAIN g \subseteq Edges
                            /\ g = [e \in DOMAIN g |-> g[e]]
                            /\ \A e \in DOMAIN g : g[e] \in {Nil} \cup (0 .. NumScenes)
PROOF
  <1>1. g \in Graphs <=> \E edges \in SUBSET Edges : g \in [edges -> {Nil} \cup (0 .. NumScenes)]
    BY DEF Graphs
  <1> QED
    BY <1>1

LEMMA EndsFollows ==
    ASSUME NEW g \in Graphs, NEW at \in 1 .. NumScenes, NEW edges
    PROVE  Ends(g, edges, at) \in Graphs /\ Follows(g, Ends(g, edges, at), at)
PROOF
  <1> DEFINE h == Ends(g, edges, at)
  <1>1. /\ DOMAIN h = DOMAIN g /\ h = [e \in DOMAIN h |-> h[e]]
        /\ \A e \in DOMAIN g :
              h[e] = IF e \in edges /\ g[e] = Nil /\ e.scene < at THEN at ELSE g[e]
    BY DEF Ends
  <1>2. /\ DOMAIN g \subseteq Edges
        /\ \A e \in DOMAIN g : g[e] \in {Nil} \cup (0 .. NumScenes)
    BY GraphForm
  <1>3. at \in 0 .. NumScenes
    BY EntitiesAssumption, TellingsAssumption, BoundsAssumption
  <1> HIDE DEF h
  <1> QED
    BY <1>1, <1>2, <1>3, GraphForm DEF Follows, h

LEMMA AddsFollows ==
    ASSUME NEW g \in Graphs, NEW at \in 1 .. NumScenes,
           NEW edges \in SUBSET Edges, \A e \in edges : e.scene = at
    PROVE  Adds(g, edges) \in Graphs /\ Follows(g, Adds(g, edges), at)
PROOF
  <1> DEFINE h == Adds(g, edges)
  <1>1. /\ DOMAIN h = DOMAIN g \cup edges /\ h = [e \in DOMAIN h |-> h[e]]
        /\ \A e \in DOMAIN h : h[e] = IF e \in DOMAIN g THEN g[e] ELSE Nil
    BY DEF Adds
  <1>2. /\ DOMAIN g \subseteq Edges
        /\ \A e \in DOMAIN g : g[e] \in {Nil} \cup (0 .. NumScenes)
    BY GraphForm
  <1> HIDE DEF h
  <1>3. h \in Graphs
    BY <1>1, <1>2, GraphForm
  <1>4. Follows(g, h, at)
    BY <1>1, <1>2 DEF Follows
  <1> QED
    BY <1>3, <1>4 DEF h

LEMMA FollowsOn ==
    ASSUME NEW f, NEW g, NEW h, NEW at \in 1 .. NumScenes,
           DOMAIN f \subseteq Edges, Follows(f, g, at), Follows(g, h, at)
    PROVE  Follows(f, h, at)
PROOF
  <1>1. Nil # at /\ ~ (at < at)
    BY EntitiesAssumption, TellingsAssumption, BoundsAssumption
  <1> QED
    BY <1>1 DEF Follows

\* An edge that a scene asserts or the fold adds.
LEMMA NewEdge ==
    ASSUME NEW at \in 1 .. NumScenes, NEW fact \in AllFacts,
           NEW by \in {"model", "fold"}
    PROVE  Edge(at, fact, by) \in Edges /\ Edge(at, fact, by).scene = at
  BY EntitiesAssumption, TellingsAssumption, BoundsAssumption DEF Edge, Edges

MoveOf == [who : People, to : Places \cup {Nil}]
HandOf == [item : Items, to : People \cup {Nil}, kept : BOOLEAN]

LEMMA MovesFollows ==
    ASSUME NEW g \in Graphs, NEW at \in 1 .. NumScenes, NEW move \in MoveOf
    PROVE  Moves(g, move, at) \in Graphs /\ Follows(g, Moves(g, move, at), at)
PROOF
  <1> DEFINE standing == {e \in Standing(g, at) :
                             e.fact.type = "located-in" /\ e.fact.from = move.who}
             left == Ends(g, standing, at)
             edge == Edge(at, InPlace(move.who, move.to), "fold")
  <1>1. left \in Graphs /\ Follows(g, left, at)
    BY EndsFollows
  <1>2. ASSUME move.to # Nil
        PROVE  Adds(left, {edge}) \in Graphs /\ Follows(left, Adds(left, {edge}), at)
    <2>1. InPlace(move.who, move.to) \in AllFacts
      BY <1>2 DEF InPlace, AllFacts, MoveOf
    <2>2. {edge} \in SUBSET Edges /\ \A e \in {edge} : e.scene = at
      BY <2>1, NewEdge
    <2> HIDE DEF edge, left
    <2> QED
      BY <1>1, <2>2, AddsFollows
  <1>3. Follows(g, g, at) /\ DOMAIN g \subseteq Edges
    BY GraphForm DEF Follows
  <1>4. Moves(g, move, at) \in {g, left}
           \/ (move.to # Nil /\ Moves(g, move, at) = Adds(left, {edge}))
    BY DEF Moves
  <1> HIDE DEF left, edge
  <1> QED
    BY <1>1, <1>2, <1>3, <1>4, FollowsOn

LEMMA HandsFollows ==
    ASSUME NEW g \in Graphs, NEW at \in 1 .. NumScenes, NEW hand \in HandOf
    PROVE  Hands(g, hand, at) \in Graphs /\ Follows(g, Hands(g, hand, at), at)
PROOF
  <1> DEFINE held == {e \in Standing(g, at) :
                         e.fact.type = "carries" /\ e.fact.to = hand.item}
             left == Ends(g, held, at)
             edge == Edge(at, Carries(hand.to, hand.item), "fold")
  <1>1. left \in Graphs /\ Follows(g, left, at)
    BY EndsFollows
  <1>2. ASSUME hand.to # Nil
        PROVE  Adds(left, {edge}) \in Graphs /\ Follows(left, Adds(left, {edge}), at)
    <2>1. Carries(hand.to, hand.item) \in AllFacts
      BY <1>2 DEF Carries, AllFacts, HandOf
    <2>2. {edge} \in SUBSET Edges /\ \A e \in {edge} : e.scene = at
      BY <2>1, NewEdge
    <2> HIDE DEF edge, left
    <2> QED
      BY <1>1, <2>2, AddsFollows
  <1>3. Follows(g, g, at) /\ DOMAIN g \subseteq Edges
    BY GraphForm DEF Follows
  <1>4. Hands(g, hand, at) \in {g, left}
           \/ (hand.to # Nil /\ Hands(g, hand, at) = Adds(left, {edge}))
    BY DEF Hands
  <1> HIDE DEF left, edge
  <1> QED
    BY <1>1, <1>2, <1>3, <1>4, FollowsOn

\* The loop over a scene's moves, and what it leaves behind after each of them.
AfterMoves(acc, g, moves, at) ==
    /\ acc \in [0 .. Len(moves) -> Graphs] /\ acc[0] = g
    /\ \A i \in 1 .. Len(moves) : acc[i] = Moves(acc[i - 1], moves[i], at)

LEMMA MovesLoop ==
    ASSUME NEW g \in Graphs, NEW at \in 1 .. NumScenes, NEW moves \in Seq(MoveOf)
    PROVE  \E acc : /\ AfterMoves(acc, g, moves, at)
                    /\ FoldLeft(LAMBDA h, move : Moves(h, move, at), g, moves)
                          = acc[Len(moves)]
PROOF
  <1> DEFINE step == [u \in Graphs \X MoveOf |-> Moves(u[1], u[2], at)]
             D == 1 .. Len(moves)
             Body(iter) == [s \in SUBSET D |->
                IF s = {} THEN g ELSE Moves(iter[s \ {Max(s)}], moves[Max(s)], at)]
             loop == CHOOSE iter : iter = Body(iter)
             folded == FoldLeft(LAMBDA h, move : Moves(h, move, at), g, moves)
  <1>1. /\ DOMAIN moves = D /\ Len(moves) \in Nat
        /\ \A i \in D : moves[i] \in MoveOf
    OBVIOUS
  <1>2. ASSUME NEW h \in Graphs, NEW move \in MoveOf
        PROVE  /\ step[<<h, move>>] = Moves(h, move, at)
               /\ step[<<h, move>>] \in Graphs
    BY MovesFollows
  <1>3. IsLoop(Graphs, MoveOf, step, g, moves)
    <2>1. step \in [Graphs \X MoveOf -> Graphs]
      BY <1>2
    <2> QED
      BY <2>1 DEF IsLoop
  <1>4. folded = loop[D]
    BY <1>1 DEF FoldLeft, MapThenFoldSet, Max
  <1>5. \A s \in SUBSET D : s # {} => Max(s) \in D /\ s \ {Max(s)} \in SUBSET D
    BY <1>1, MaxIsMember
  <1> HIDE DEF step, D, folded
  <1>6. \E iter : iter = Body(iter)
    <2>0. PICK iter : StaysIn(iter, Graphs, step, g, moves)
      BY <1>3, FoldExists
    <2>1. /\ iter \in [SUBSET D -> Graphs]
          /\ iter[{}] = g
          /\ \A s \in SUBSET D :
                s # {} => iter[s] = step[<<iter[s \ {Max(s)}], moves[Max(s)]>>]
      BY <2>0 DEF StaysIn, D
    <2>2. ASSUME NEW s \in SUBSET D
          PROVE  iter[s] = Body(iter)[s]
      <3>1. CASE s = {}
        BY <2>1, <3>1
      <3>2. CASE s # {}
        BY <1>1, <1>2, <1>5, <2>1, <3>2
      <3> QED
        BY <3>1, <3>2
    <2> QED
      BY <2>1, <2>2
  <1>7. loop = Body(loop)
    BY <1>6
  <1> HIDE DEF loop
  <1>8. Unfolds(loop, Graphs, step, g, moves)
    <2>1. {} \in SUBSET D /\ loop[{}] = g
      BY <1>7
    <2>2. ASSUME NEW s \in SUBSET D, s # {}, loop[s \ {Max(s)}] \in Graphs
          PROVE  loop[s] = step[<<loop[s \ {Max(s)}], moves[Max(s)]>>]
      <3>1. Max(s) \in D /\ moves[Max(s)] \in MoveOf
        BY <1>1, <1>5, <2>2
      <3>2. loop[s] = Moves(loop[s \ {Max(s)}], moves[Max(s)], at)
        BY <1>7, <2>2
      <3> QED
        BY <1>2, <2>2, <3>1, <3>2
    <2> QED
      BY <2>1, <2>2 DEF Unfolds, D
  <1>9. PICK acc : Accumulates(acc, Graphs, step, g, moves) /\ acc[Len(moves)] = loop[1 .. Len(moves)]
    BY <1>3, <1>8, FoldSteps
  <1>10. AfterMoves(acc, g, moves, at)
    <2>1. /\ acc \in [0 .. Len(moves) -> Graphs] /\ acc[0] = g
          /\ \A i \in D : acc[i] = step[<<acc[i - 1], moves[i]>>]
      BY <1>9 DEF Accumulates, D
    <2>2. \A i \in D : i - 1 \in 0 .. Len(moves)
      BY <1>1 DEF D
    <2> QED
      BY <1>1, <1>2, <2>1, <2>2 DEF AfterMoves, D
  <1> QED
    BY <1>4, <1>9, <1>10 DEF D, folded

\* The same for what a scene hands on.
AfterHands(acc, g, hands, at) ==
    /\ acc \in [0 .. Len(hands) -> Graphs] /\ acc[0] = g
    /\ \A i \in 1 .. Len(hands) : acc[i] = Hands(acc[i - 1], hands[i], at)

LEMMA HandsLoop ==
    ASSUME NEW g \in Graphs, NEW at \in 1 .. NumScenes, NEW hands \in Seq(HandOf)
    PROVE  \E acc : /\ AfterHands(acc, g, hands, at)
                    /\ FoldLeft(LAMBDA h, hand : Hands(h, hand, at), g, hands)
                          = acc[Len(hands)]
PROOF
  <1> DEFINE step == [u \in Graphs \X HandOf |-> Hands(u[1], u[2], at)]
             D == 1 .. Len(hands)
             Body(iter) == [s \in SUBSET D |->
                IF s = {} THEN g ELSE Hands(iter[s \ {Max(s)}], hands[Max(s)], at)]
             loop == CHOOSE iter : iter = Body(iter)
             folded == FoldLeft(LAMBDA h, hand : Hands(h, hand, at), g, hands)
  <1>1. /\ DOMAIN hands = D /\ Len(hands) \in Nat
        /\ \A i \in D : hands[i] \in HandOf
    OBVIOUS
  <1>2. ASSUME NEW h \in Graphs, NEW hand \in HandOf
        PROVE  /\ step[<<h, hand>>] = Hands(h, hand, at)
               /\ step[<<h, hand>>] \in Graphs
    BY HandsFollows
  <1>3. IsLoop(Graphs, HandOf, step, g, hands)
    <2>1. step \in [Graphs \X HandOf -> Graphs]
      BY <1>2
    <2> QED
      BY <2>1 DEF IsLoop
  <1>4. folded = loop[D]
    BY <1>1 DEF FoldLeft, MapThenFoldSet, Max
  <1>5. \A s \in SUBSET D : s # {} => Max(s) \in D /\ s \ {Max(s)} \in SUBSET D
    BY <1>1, MaxIsMember
  <1> HIDE DEF step, D, folded
  <1>6. \E iter : iter = Body(iter)
    <2>0. PICK iter : StaysIn(iter, Graphs, step, g, hands)
      BY <1>3, FoldExists
    <2>1. /\ iter \in [SUBSET D -> Graphs]
          /\ iter[{}] = g
          /\ \A s \in SUBSET D :
                s # {} => iter[s] = step[<<iter[s \ {Max(s)}], hands[Max(s)]>>]
      BY <2>0 DEF StaysIn, D
    <2>2. ASSUME NEW s \in SUBSET D
          PROVE  iter[s] = Body(iter)[s]
      <3>1. CASE s = {}
        BY <2>1, <3>1
      <3>2. CASE s # {}
        BY <1>1, <1>2, <1>5, <2>1, <3>2
      <3> QED
        BY <3>1, <3>2
    <2> QED
      BY <2>1, <2>2
  <1>7. loop = Body(loop)
    BY <1>6
  <1> HIDE DEF loop
  <1>8. Unfolds(loop, Graphs, step, g, hands)
    <2>1. {} \in SUBSET D /\ loop[{}] = g
      BY <1>7
    <2>2. ASSUME NEW s \in SUBSET D, s # {}, loop[s \ {Max(s)}] \in Graphs
          PROVE  loop[s] = step[<<loop[s \ {Max(s)}], hands[Max(s)]>>]
      <3>1. Max(s) \in D /\ hands[Max(s)] \in HandOf
        BY <1>1, <1>5, <2>2
      <3>2. loop[s] = Hands(loop[s \ {Max(s)}], hands[Max(s)], at)
        BY <1>7, <2>2
      <3> QED
        BY <1>2, <2>2, <3>1, <3>2
    <2> QED
      BY <2>1, <2>2 DEF Unfolds, D
  <1>9. PICK acc : Accumulates(acc, Graphs, step, g, hands) /\ acc[Len(hands)] = loop[1 .. Len(hands)]
    BY <1>3, <1>8, FoldSteps
  <1>10. AfterHands(acc, g, hands, at)
    <2>1. /\ acc \in [0 .. Len(hands) -> Graphs] /\ acc[0] = g
          /\ \A i \in D : acc[i] = step[<<acc[i - 1], hands[i]>>]
      BY <1>9 DEF Accumulates, D
    <2>2. \A i \in D : i - 1 \in 0 .. Len(hands)
      BY <1>1 DEF D
    <2> QED
      BY <1>1, <1>2, <2>1, <2>2 DEF AfterHands, D
  <1> QED
    BY <1>4, <1>9, <1>10 DEF D, folded

\* What the model tells of a scene, with the edges that are to end chosen.
Delta ==
    [said : SUBSET AllFacts, ended : SUBSET Edges,
     moves : Seq(MoveOf), hands : Seq(HandOf), forgotten : SUBSET AllFacts]

LEMMA DeltaType ==
    ASSUME NEW g \in Graphs, NEW told \in Tellings, NEW at,
           NEW delta \in Deltas(g, told, at)
    PROVE  /\ delta \in Delta
           /\ delta.moves = told.moves /\ delta.hands = told.hands /\ delta.said \subseteq told.said
PROOF
  <1>1. /\ told.said \in SUBSET AllFacts /\ told.forgotten \in SUBSET AllFacts
        /\ told.moves \in Seq(MoveOf) /\ told.hands \in Seq(HandOf)
    BY EntitiesAssumption, TellingsAssumption, BoundsAssumption DEF MoveOf, HandOf
  <1>2. PICK ended \in Ended(g, told.over, at) :
           delta = [said |-> {fact \in told.said : HasSheets(fact)}, ended |-> ended,
                    moves |-> told.moves, hands |-> told.hands, forgotten |-> told.forgotten]
    BY DEF Deltas
  <1>3. ended \in SUBSET Edges
    <2>1. DOMAIN g \subseteq Edges
      BY GraphForm
    <2>2. \A e \in ended : e \in DOMAIN g
      BY DEF Ended, Standing
    <2> QED
      BY <2>1, <2>2
  <1> QED
    BY <1>1, <1>2, <1>3 DEF Delta

\* The fold, one step after the other.
Asserted(g, delta, at) ==
    Ends(Adds(g, {Edge(at, fact, "model") : fact \in delta.said}), delta.ended, at)

LEMMA AssertedFollows ==
    ASSUME NEW g \in Graphs, NEW at \in 1 .. NumScenes, NEW delta \in Delta
    PROVE  Asserted(g, delta, at) \in Graphs /\ Follows(g, Asserted(g, delta, at), at)
PROOF
  <1> DEFINE new == {Edge(at, fact, "model") : fact \in delta.said}
             more == Adds(g, new)
  <1>1. new \in SUBSET Edges /\ \A e \in new : e.scene = at
    <2>1. \A fact \in delta.said : fact \in AllFacts
      BY DEF Delta
    <2> QED
      BY <2>1, NewEdge
  <1> HIDE DEF new
  <1>2. more \in Graphs /\ Follows(g, more, at)
    BY <1>1, AddsFollows
  <1> HIDE DEF more
  <1>3. /\ Ends(more, delta.ended, at) \in Graphs
        /\ Follows(more, Ends(more, delta.ended, at), at)
    BY <1>2, EndsFollows
  <1>4. DOMAIN g \subseteq Edges
    BY GraphForm
  <1> QED
    BY <1>2, <1>3, <1>4, FollowsOn DEF Asserted, more, new

LEMMA FoldIs ==
    ASSUME NEW g \in Graphs, NEW at \in 1 .. NumScenes, NEW delta \in Delta
    PROVE  \E moved, handed :
              /\ AfterMoves(moved, Asserted(g, delta, at), delta.moves, at)
              /\ AfterHands(handed, moved[Len(delta.moves)], delta.hands, at)
              /\ Fold(g, delta, at) =
                    Forgets(handed[Len(delta.hands)], delta.forgotten, at)
PROOF
  <1> DEFINE start == Asserted(g, delta, at)
             f1 == FoldLeft(LAMBDA h, move : Moves(h, move, at), start, delta.moves)
             f2 == FoldLeft(LAMBDA h, hand : Hands(h, hand, at), f1, delta.hands)
  <1>1. delta.moves \in Seq(MoveOf) /\ delta.hands \in Seq(HandOf)
    BY DEF Delta
  <1>2. start \in Graphs
    BY AssertedFollows
  <1>3. Fold(g, delta, at) = Forgets(f2, delta.forgotten, at)
    BY DEF Fold, Asserted
  <1> HIDE DEF start
  <1>4. PICK moved : AfterMoves(moved, start, delta.moves, at) /\ f1 = moved[Len(delta.moves)]
    BY <1>1, <1>2, MovesLoop
  <1> HIDE DEF f1
  <1>5. f1 \in Graphs
    BY <1>1, <1>4 DEF AfterMoves
  <1>6. PICK handed : AfterHands(handed, f1, delta.hands, at) /\ f2 = handed[Len(delta.hands)]
    BY <1>1, <1>5, HandsLoop
  <1> HIDE DEF f2
  <1> QED
    BY <1>3, <1>4, <1>6 DEF start

LEMMA AfterMovesFollows ==
    ASSUME NEW g \in Graphs, NEW at \in 1 .. NumScenes,
           NEW moves \in Seq(MoveOf), NEW acc, AfterMoves(acc, g, moves, at)
    PROVE  \A i \in 0 .. Len(moves) : acc[i] \in Graphs /\ Follows(g, acc[i], at)
PROOF
  <1> DEFINE Good == {i \in 0 .. Len(moves) : Follows(g, acc[i], at)}
  <1>1. /\ Len(moves) \in Nat /\ \A i \in 0 .. Len(moves) : acc[i] \in Graphs
        /\ acc[0] = g /\ DOMAIN g \subseteq Edges
    BY GraphForm DEF AfterMoves
  <1>2. 0 \in Good
    BY <1>1 DEF Follows
  <1>3. ASSUME NEW i \in 0 .. Len(moves), i \in Good, i < Len(moves)
        PROVE  i + 1 \in Good
    <2>1. i + 1 \in 1 .. Len(moves) /\ (i + 1) - 1 = i /\ i + 1 \in 0 .. Len(moves)
      BY <1>1, <1>3
    <2>2. acc[i + 1] = Moves(acc[i], moves[i + 1], at) /\ moves[i + 1] \in MoveOf
      BY <2>1 DEF AfterMoves
    <2>3. Follows(acc[i], acc[i + 1], at)
      BY <1>1, <2>2, MovesFollows
    <2> QED
      BY <1>1, <1>3, <2>1, <2>3, FollowsOn
  <1> HIDE DEF Good
  <1>4. 0 .. Len(moves) \subseteq Good
    BY <1>1, <1>2, <1>3, InductionTo
  <1> QED
    BY <1>1, <1>4 DEF Good

LEMMA AfterHandsFollows ==
    ASSUME NEW g \in Graphs, NEW at \in 1 .. NumScenes,
           NEW hands \in Seq(HandOf), NEW acc, AfterHands(acc, g, hands, at)
    PROVE  \A i \in 0 .. Len(hands) : acc[i] \in Graphs /\ Follows(g, acc[i], at)
PROOF
  <1> DEFINE Good == {i \in 0 .. Len(hands) : Follows(g, acc[i], at)}
  <1>1. /\ Len(hands) \in Nat /\ \A i \in 0 .. Len(hands) : acc[i] \in Graphs
        /\ acc[0] = g /\ DOMAIN g \subseteq Edges
    BY GraphForm DEF AfterHands
  <1>2. 0 \in Good
    BY <1>1 DEF Follows
  <1>3. ASSUME NEW i \in 0 .. Len(hands), i \in Good, i < Len(hands)
        PROVE  i + 1 \in Good
    <2>1. i + 1 \in 1 .. Len(hands) /\ (i + 1) - 1 = i /\ i + 1 \in 0 .. Len(hands)
      BY <1>1, <1>3
    <2>2. acc[i + 1] = Hands(acc[i], hands[i + 1], at) /\ hands[i + 1] \in HandOf
      BY <2>1 DEF AfterHands
    <2>3. Follows(acc[i], acc[i + 1], at)
      BY <1>1, <2>2, HandsFollows
    <2> QED
      BY <1>1, <1>3, <2>1, <2>3, FollowsOn
  <1> HIDE DEF Good
  <1>4. 0 .. Len(hands) \subseteq Good
    BY <1>1, <1>2, <1>3, InductionTo
  <1> QED
    BY <1>1, <1>4 DEF Good

\* The whole fold adds edges of its own scene, and ends earlier ones at it.
LEMMA FoldFollows ==
    ASSUME NEW g \in Graphs, NEW at \in 1 .. NumScenes, NEW delta \in Delta
    PROVE  Fold(g, delta, at) \in Graphs /\ Follows(g, Fold(g, delta, at), at)
PROOF
  <1> DEFINE start == Asserted(g, delta, at)
             m == Len(delta.moves)
             n == Len(delta.hands)
  <1>1. /\ delta.moves \in Seq(MoveOf) /\ delta.hands \in Seq(HandOf)
        /\ m \in 0 .. m /\ n \in 0 .. n /\ DOMAIN g \subseteq Edges
    BY GraphForm DEF Delta
  <1>2. start \in Graphs /\ Follows(g, start, at)
    BY AssertedFollows
  <1>3. PICK moved, handed :
           /\ AfterMoves(moved, start, delta.moves, at)
           /\ AfterHands(handed, moved[m], delta.hands, at)
           /\ Fold(g, delta, at) = Forgets(handed[n], delta.forgotten, at)
    BY FoldIs
  <1> HIDE DEF start, m, n
  <1>4. moved[m] \in Graphs /\ Follows(start, moved[m], at)
    BY <1>1, <1>2, <1>3, AfterMovesFollows DEF m
  <1>5. handed[n] \in Graphs /\ Follows(moved[m], handed[n], at)
    BY <1>1, <1>3, <1>4, AfterHandsFollows DEF n
  <1>6. Fold(g, delta, at) \in Graphs /\ Follows(handed[n], Fold(g, delta, at), at)
    BY <1>3, <1>5, EndsFollows DEF Forgets
  <1>7. DOMAIN start \subseteq Edges /\ DOMAIN moved[m] \subseteq Edges
    BY <1>2, <1>4, GraphForm
  <1>8. Follows(g, moved[m], at)
    BY <1>1, <1>2, <1>4, FollowsOn
  <1>9. Follows(g, handed[n], at)
    BY <1>1, <1>5, <1>8, FollowsOn
  <1> QED
    BY <1>1, <1>6, <1>9, FollowsOn
-----------------------------------------------------------------------------
\* What a stage reports, and the types.

\* A graph in which no edge ends before it begins.
IsSound(g) == g \in Graphs /\ IsGraph(g)

LEMMA EdgeType ==
    /\ NumScenes \in Nat /\ NumScenes > 0 /\ Nil \notin Nat
    /\ \A e \in Edges : e.scene \in 0 .. NumScenes /\ e.fact \in AllFacts
PROOF
  <1>1. \A e \in Edges : e.scene \in 0 .. NumScenes /\ e.fact \in AllFacts
    BY DEF Edges
  <1> QED
    BY <1>1, EntitiesAssumption, TellingsAssumption, BoundsAssumption

LEMMA FollowsSound ==
    ASSUME NEW g, IsSound(g), NEW at \in 1 .. NumScenes,
           NEW h \in Graphs, Follows(g, h, at)
    PROVE  IsSound(h)
PROOF
  <1>1. DOMAIN h \subseteq Edges
    BY GraphForm
  <1>2. ASSUME NEW e \in DOMAIN h
        PROVE  h[e] = Nil \/ h[e] \in e.scene + 1 .. NumScenes
    <2>1. e.scene \in Nat /\ NumScenes \in Nat /\ at \in Nat /\ at <= NumScenes
      BY <1>1, EdgeType
    <2>2. CASE e \in DOMAIN g
      BY <2>1, <2>2 DEF Follows, IsSound, IsGraph
    <2>3. CASE e \notin DOMAIN g
      BY <2>3 DEF Follows
    <2> QED
      BY <2>2, <2>3
  <1> QED
    BY <1>1, <1>2 DEF IsSound, IsGraph

\* Two intervals of story time that are not empty overlap just if there is a moment in both.
LEMMA VerdictIsRight ==
    ASSUME NEW g, IsSound(g)
    PROVE  Verdict(g) = "reported" <=> \E time \in 0 .. NumScenes : IsTwofold(g, time)
PROOF
  <1>1. \A e \in DOMAIN g : /\ e.scene \in 0 .. NumScenes
                            /\ g[e] = Nil \/ (g[e] \in Nat /\ e.scene < g[e])
    <2> SUFFICES ASSUME NEW e \in DOMAIN g
                 PROVE  /\ e.scene \in 0 .. NumScenes
                        /\ g[e] = Nil \/ (g[e] \in Nat /\ e.scene < g[e])
      OBVIOUS
    <2>1. e.scene \in 0 .. NumScenes /\ NumScenes \in Nat
      BY EdgeType DEF IsSound, IsGraph
    <2>2. g[e] = Nil \/ g[e] \in e.scene + 1 .. NumScenes
      BY DEF IsSound, IsGraph
    <2> QED
      BY <2>1, <2>2
  <1>2. NumScenes \in Nat /\ Nil \notin Nat
    BY EdgeType
  <1>3. Verdict(g) = "reported" <=> \E d, e \in DOMAIN g : Contradicts(g, d, e)
    BY DEF Verdict
  <1>4. ASSUME NEW d \in DOMAIN g, NEW e \in DOMAIN g
        PROVE  Overlap(g, d, e) <=>
                  \E time \in 0 .. NumScenes : IsValidAt(g, d, time) /\ IsValidAt(g, e, time)
    <2>1. ASSUME Overlap(g, d, e)
          PROVE  \E time \in 0 .. NumScenes : IsValidAt(g, d, time) /\ IsValidAt(g, e, time)
      <3>1. CASE d.scene <= e.scene
        <4>1. IsValidAt(g, d, e.scene) /\ IsValidAt(g, e, e.scene)
          BY <1>1, <1>2, <2>1, <3>1 DEF Overlap, IsValidAt
        <4> QED
          BY <1>1, <4>1
      <3>2. CASE ~ (d.scene <= e.scene)
        <4>1. IsValidAt(g, d, d.scene) /\ IsValidAt(g, e, d.scene)
          BY <1>1, <1>2, <2>1, <3>2 DEF Overlap, IsValidAt
        <4> QED
          BY <1>1, <4>1
      <3> QED
        BY <3>1, <3>2
    <2>2. ASSUME NEW time \in 0 .. NumScenes, IsValidAt(g, d, time), IsValidAt(g, e, time)
          PROVE  Overlap(g, d, e)
      BY <1>1, <1>2, <2>2 DEF Overlap, IsValidAt
    <2> QED
      BY <2>1, <2>2
  <1>5. (\E d, e \in DOMAIN g : Contradicts(g, d, e))
           <=> \E time \in 0 .. NumScenes : IsTwofold(g, time)
    BY <1>4, Zenon DEF Contradicts, IsTwofold
  <1> QED
    BY <1>3, <1>5

StageStates ==
    [pc : {"idle", "telling", "checking", "done", "failed", "refused"}, scene : 0 .. NumScenes + 1,
     graph : Graphs, aborted : BOOLEAN, verdict : {"none", "clear", "reported"}]

\* A stage at rest or in the middle of its scenes.
IsStage(r) ==
    /\ r \in StageStates /\ IsSound(r.graph)
    /\ r.pc = "telling" => r.scene \in 1 .. NumScenes
    /\ r.pc = "done" => r.verdict = Verdict(r.graph)

WorldInv ==
    /\ IsSound(db)
    /\ stage = [s \in Stages |-> stage[s]] /\ \A s \in Stages : IsStage(stage[s])
    /\ budget \in [starts : 0 .. MaxTellings, crashes : 0 .. MaxTears]
    /\ lapses \subseteq {"again", "torn", "said", "twice"}

\* The invariant is inductive without a premise: what is stored and what each stage has in
\* memory are separate parts of it.
LEMMA WorldInvReports ==
    WorldInv => TwoPlacesAreReported
PROOF
  <1> SUFFICES ASSUME WorldInv PROVE TwoPlacesAreReported
    OBVIOUS
  <1>1. WorldTypeOK
    <2>1. ASSUME NEW s \in Stages
          PROVE  /\ stage[s].pc \in {"idle", "telling", "checking", "done", "failed", "refused"}
                 /\ stage[s].scene \in 0 .. NumScenes + 1 /\ IsGraph(stage[s].graph)
                 /\ stage[s].aborted \in BOOLEAN /\ stage[s].verdict \in {"none", "clear", "reported"}
      BY DEF WorldInv, IsStage, IsSound, StageStates
    <2> QED
      BY <2>1 DEF WorldTypeOK, WorldInv, IsSound
  <1>2. ASSUME NEW s \in Stages, stage[s].pc = "done"
        PROVE  stage[s].verdict = "reported" <=>
                  \E time \in 0 .. NumScenes : IsTwofold(stage[s].graph, time)
    <2>1. IsSound(stage[s].graph) /\ stage[s].verdict = Verdict(stage[s].graph)
      BY <1>2 DEF WorldInv, IsStage
    <2> QED
      BY <2>1, VerdictIsRight
  <1> QED
    BY <1>1, <1>2 DEF TwoPlacesAreReported

LEMMA IdleIsStage ==
    IsStage(IdleStage)
PROOF
  <1>1. DOMAIN (IdleStage.graph) = {} /\ IdleStage.graph = [e \in {} |-> IdleStage.graph[e]]
    BY DEF IdleStage
  <1>2. IdleStage.graph \in Graphs /\ IsGraph(IdleStage.graph)
    BY <1>1, GraphForm DEF IsGraph
  <1>3. /\ IdleStage.pc = "idle" /\ IdleStage.scene = 0 /\ 0 \in 0 .. NumScenes + 1
        /\ IdleStage.aborted = FALSE /\ IdleStage.verdict = "none"
        /\ IdleStage = [pc |-> "idle", scene |-> 0, graph |-> IdleStage.graph,
                         aborted |-> FALSE, verdict |-> "none"]
    BY EdgeType DEF IdleStage
  <1>4. IdleStage \in StageStates
    BY <1>2, <1>3 DEF StageStates
  <1> QED
    BY <1>2, <1>3, <1>4 DEF IsStage, IsSound

LEMMA FirstIsSound ==
    ASSUME NEW facts \in Before
    PROVE  IsSound([e \in {Edge(0, fact, "model") : fact \in facts} |-> Nil])
PROOF
  <1> DEFINE edges == {Edge(0, fact, "model") : fact \in facts}
             g == [e \in edges |-> Nil]
  <1>1. edges \in SUBSET Edges
    <2>1. facts \subseteq AllFacts
      BY EntitiesAssumption, TellingsAssumption, BoundsAssumption
    <2>2. \A fact \in facts : Edge(0, fact, "model") \in Edges
      BY <2>1, EdgeType DEF Edge, Edges
    <2> QED
      BY <2>2
  <1> HIDE DEF edges
  <1>2. DOMAIN g = edges /\ g = [e \in DOMAIN g |-> g[e]] /\ \A e \in edges : g[e] = Nil
    OBVIOUS
  <1> HIDE DEF g
  <1>3. g \in Graphs /\ IsGraph(g)
    BY <1>1, <1>2, GraphForm DEF IsGraph
  <1> QED
    BY <1>3 DEF IsSound, g, edges
\* What is written, whatever is in the store: the new edges, and then the ends.
LEMMA WritesSound ==
    ASSUME IsSound(db), NEW g, IsSound(g), NEW at \in 1 .. NumScenes,
           NEW h \in Graphs, Follows(g, h, at)
    PROVE  /\ IsSound(Stored(Added(g, h)))
           /\ IsSound(Bounded(Stored(Added(g, h)), EndedIn(g, h), at))
PROOF
  <1> DEFINE torn == Stored(Added(g, h))
             bound == Bounded(torn, EndedIn(g, h), at)
  <1>1. /\ DOMAIN db \subseteq Edges /\ DOMAIN g \subseteq Edges
        /\ DOMAIN h \subseteq Edges
        /\ \A e \in DOMAIN db : /\ db[e] \in {Nil} \cup (0 .. NumScenes)
                                /\ db[e] = Nil \/ db[e] \in e.scene + 1 .. NumScenes
    BY GraphForm DEF IsSound, IsGraph
  <1>2. /\ DOMAIN torn = DOMAIN db \cup (DOMAIN h \ DOMAIN g) /\ torn = [e \in DOMAIN torn |-> torn[e]]
        /\ \A e \in DOMAIN torn : torn[e] = IF e \in DOMAIN db THEN db[e] ELSE Nil
    BY DEF Stored, Added, Adds
  <1> HIDE DEF torn
  <1>3. /\ DOMAIN torn \subseteq Edges
        /\ \A e \in DOMAIN torn : /\ torn[e] \in {Nil} \cup (0 .. NumScenes)
                                  /\ torn[e] = Nil \/ torn[e] \in e.scene + 1 .. NumScenes
    BY <1>1, <1>2
  <1>4. IsSound(torn)
    BY <1>2, <1>3, GraphForm DEF IsSound, IsGraph
  <1>5. \A e \in EndedIn(g, h) : e.scene < at /\ e \in Edges
    BY <1>1 DEF EndedIn, Follows
  <1>6. /\ DOMAIN bound = DOMAIN torn /\ bound = [e \in DOMAIN bound |-> bound[e]]
        /\ \A e \in DOMAIN bound : bound[e] = IF e \in EndedIn(g, h) THEN at ELSE torn[e]
    BY DEF Bounded
  <1> HIDE DEF bound
  <1>7. \A e \in EndedIn(g, h) : at \in e.scene + 1 .. NumScenes /\ at \in 0 .. NumScenes
    BY <1>5, EdgeType
  <1>8. \A e \in DOMAIN bound : /\ bound[e] \in {Nil} \cup (0 .. NumScenes)
                                /\ bound[e] = Nil \/ bound[e] \in e.scene + 1 .. NumScenes
    BY <1>3, <1>6, <1>7
  <1>9. IsSound(bound)
    BY <1>3, <1>6, <1>8, GraphForm DEF IsSound, IsGraph
  <1> QED
    BY <1>4, <1>9 DEF torn, bound

\* One stage moves on, the others stay where they are.
LEMMA OneStageMoves ==
    ASSUME WorldInv, NEW s \in Stages, NEW r, IsStage(r), stage' = [stage EXCEPT ![s] = r],
           IsSound(db)',
           (budget \in [starts : 0 .. MaxTellings, crashes : 0 .. MaxTears])',
           (lapses \subseteq {"again", "torn", "said", "twice"})'
    PROVE  WorldInv'
PROOF
  <1>1. stage' = [t \in Stages |-> stage'[t]]
    BY DEF WorldInv
  <1>2. \A t \in Stages : stage'[t] = IF t = s THEN r ELSE stage[t]
    BY DEF WorldInv
  <1> HIDE DEF IsStage
  <1>3. \A t \in Stages : IsStage(stage[t])
    BY DEF WorldInv
  <1>4. \A t \in Stages : IsStage(stage'[t])
    BY <1>2, <1>3
  <1> QED
    BY <1>1, <1>4 DEF WorldInv

LEMMA BeginKeepsTypes ==
    ASSUME WorldInv, NEW s \in Stages, BeginTelling(s)
    PROVE  WorldInv'
PROOF
  <1> DEFINE r == [IdleStage EXCEPT !.pc = "telling", !.scene = 1, !.graph = db]
  <1>1. IdleStage \in StageStates
    BY IdleIsStage DEF IsStage
  <1>2. /\ 1 \in 0 .. NumScenes + 1 /\ 1 \in 1 .. NumScenes
        /\ IsSound(db) /\ db \in Graphs
    BY EdgeType DEF WorldInv, IsSound
  <1>3. r.pc = "telling" /\ r.scene = 1 /\ r.graph = db /\ r \in StageStates
    BY <1>1, <1>2 DEF StageStates
  <1>4. IsStage(r)
    <2> HIDE DEF r
    <2> QED
      BY <1>2, <1>3 DEF IsStage
  <1>5. stage' = [stage EXCEPT ![s] = r] /\ db' = db
    BY DEF BeginTelling
  <1>6. budget' \in [starts : 0 .. MaxTellings, crashes : 0 .. MaxTears]
    BY EntitiesAssumption, TellingsAssumption, BoundsAssumption DEF BeginTelling, WorldInv
  <1>7. lapses' \subseteq {"again", "torn", "said", "twice"}
    BY DEF BeginTelling, WorldInv
  <1> HIDE DEF r
  <1>8. IsSound(db')
    BY <1>2, <1>5
  <1> QED
    BY <1>4, <1>5, <1>6, <1>7, <1>8, OneStageMoves
LEMMA AbortKeepsTypes ==
    ASSUME WorldInv, NEW s \in Stages, AbortTelling(s)
    PROVE  WorldInv'
PROOF
  <1> DEFINE r == [stage[s] EXCEPT !.aborted = TRUE]
  <1>1. IsStage(stage[s])
    BY DEF WorldInv
  <1>2. /\ r.pc = stage[s].pc /\ r.scene = stage[s].scene /\ r.graph = stage[s].graph
        /\ r.verdict = stage[s].verdict /\ r \in StageStates
    BY <1>1 DEF IsStage, StageStates
  <1>3. stage' = [stage EXCEPT ![s] = r]
    BY DEF AbortTelling
  <1> HIDE DEF r
  <1>4. IsStage(r)
    BY <1>1, <1>2 DEF IsStage
  <1>5. UNCHANGED <<db, budget, lapses>>
    BY DEF AbortTelling
  <1>6. IsSound(db)'
    BY <1>5 DEF WorldInv
  <1> QED
    BY <1>3, <1>4, <1>5, <1>6, OneStageMoves DEF WorldInv

LEMMA ModelFailsKeepsTypes ==
    ASSUME WorldInv, NEW s \in Stages, ModelFails(s)
    PROVE  WorldInv'
PROOF
  <1> DEFINE r == [stage[s] EXCEPT !.pc = "failed"]
  <1>1. IsStage(stage[s])
    BY DEF WorldInv
  <1>2. r.pc = "failed" /\ r.graph = stage[s].graph /\ r \in StageStates
    BY <1>1 DEF IsStage, StageStates
  <1>3. stage' = [stage EXCEPT ![s] = r]
    BY DEF ModelFails
  <1> HIDE DEF r
  <1>4. IsStage(r)
    BY <1>1, <1>2 DEF IsStage
  <1>5. UNCHANGED <<db, budget, lapses>>
    BY DEF ModelFails
  <1>6. IsSound(db)'
    BY <1>5 DEF WorldInv
  <1> QED
    BY <1>3, <1>4, <1>5, <1>6, OneStageMoves DEF WorldInv

LEMMA CheckKeepsTypes ==
    ASSUME WorldInv, NEW s \in Stages, CheckEpisodes(s)
    PROVE  WorldInv'
PROOF
  <1> DEFINE r == [stage[s] EXCEPT !.pc = "done", !.verdict = Verdict(stage[s].graph)]
  <1>1. IsStage(stage[s]) /\ Verdict(stage[s].graph) \in {"none", "clear", "reported"}
    BY DEF WorldInv, Verdict
  <1>2. /\ r.pc = "done" /\ r.graph = stage[s].graph /\ r.verdict = Verdict(stage[s].graph)
        /\ r \in StageStates
    BY <1>1 DEF IsStage, StageStates
  <1>3. stage' = [stage EXCEPT ![s] = r]
    BY DEF CheckEpisodes
  <1> HIDE DEF r
  <1>4. IsStage(r)
    BY <1>1, <1>2 DEF IsStage
  <1>5. UNCHANGED <<db, budget, lapses>>
    BY DEF CheckEpisodes
  <1>6. IsSound(db)'
    BY <1>5 DEF WorldInv
  <1> QED
    BY <1>3, <1>4, <1>5, <1>6, OneStageMoves DEF WorldInv

\* What is known of a scene that is told of.
LEMMA SceneIs ==
    ASSUME WorldInv, NEW s \in Stages, stage[s].pc = "telling",
           NEW told \in Tellings,
           NEW delta \in Deltas(stage[s].graph, told, stage[s].scene)
    PROVE  LET at == stage[s].scene
               g == stage[s].graph
               folded == Fold(g, delta, at)
           IN /\ at \in 1 .. NumScenes /\ IsSound(g) /\ delta \in Delta
              /\ folded \in Graphs /\ Follows(g, folded, at) /\ IsSound(folded)
PROOF
  <1>1. stage[s].scene \in 1 .. NumScenes /\ IsSound(stage[s].graph) /\ stage[s].graph \in Graphs
    BY DEF WorldInv, IsStage, IsSound
  <1>2. delta \in Delta
    BY <1>1, DeltaType
  <1>3. /\ Fold(stage[s].graph, delta, stage[s].scene) \in Graphs
        /\ Follows(stage[s].graph, Fold(stage[s].graph, delta, stage[s].scene), stage[s].scene)
    BY <1>1, <1>2, FoldFollows
  <1>4. IsSound(Fold(stage[s].graph, delta, stage[s].scene))
    BY <1>1, <1>3, FollowsSound
  <1> QED
    BY <1>1, <1>2, <1>3, <1>4

\* The two ways in which a scene that is told of ends.
IsLast(s) == stage[s].scene = NumScenes \/ stage[s].aborted

Folded(s, delta) == Fold(stage[s].graph, delta, stage[s].scene)

Refuses(s, r) ==
    r.pc = "refused" /\ r.graph = stage[s].graph /\ UNCHANGED <<db, lapses>>

Writes(s, told, delta, r) ==
    /\ r.graph = Folded(s, delta) /\ r.scene = stage[s].scene + 1
    /\ r.pc = (IF IsLast(s) THEN "checking" ELSE "telling")
    /\ db' = Bounded(Stored(Added(stage[s].graph, Folded(s, delta))),
                           EndedIn(stage[s].graph, Folded(s, delta)), stage[s].scene)
    /\ lapses' = lapses \cup LapsesOf(told)

LEMMA TellIs ==
    ASSUME WorldInv, NEW s \in Stages, NEW told \in Tellings,
           Tell(s, told)
    PROVE  /\ stage[s].pc = "telling" /\ budget' = budget
           /\ \E delta \in Deltas(stage[s].graph, told, stage[s].scene) : \E r \in StageStates :
                 /\ stage' = [stage EXCEPT ![s] = r]
                 /\ Refuses(s, r) \/ Writes(s, told, delta, r)
PROOF
  <1> DEFINE at == stage[s].scene
             g == stage[s].graph
             isLast == at = NumScenes \/ stage[s].aborted
             fold(delta) == Fold(g, delta, at)
  <1>1. stage[s].pc = "telling" /\ IsStage(stage[s]) /\ budget' = budget
    BY DEF Tell, WorldInv
  <1>2. PICK delta \in Deltas(g, told, at) :
           \/ /\ stage' = [stage EXCEPT ![s].pc = "refused"]
              /\ UNCHANGED <<db, lapses>>
           \/ /\ db' = Bounded(Stored(Added(g, fold(delta))),
                                     EndedIn(g, fold(delta)), at)
              /\ stage' = [stage EXCEPT
                     ![s].graph = fold(delta), ![s].scene = at + 1,
                     ![s].pc = IF isLast THEN "checking" ELSE "telling"]
              /\ lapses' = lapses \cup LapsesOf(told)
    BY DEF Tell
  <1> DEFINE folded == Fold(g, delta, at)
  <1>3. at \in 1 .. NumScenes /\ folded \in Graphs
    BY <1>1, SceneIs
  <1>5. CASE stage' = [stage EXCEPT ![s].pc = "refused"] /\ UNCHANGED <<db, lapses>>
    <2> DEFINE r == [stage[s] EXCEPT !.pc = "refused"]
    <2>1. r.pc = "refused" /\ r.graph = stage[s].graph /\ r \in StageStates
      BY <1>1 DEF IsStage, StageStates
    <2>2. stage' = [stage EXCEPT ![s] = r]
      BY <1>5
    <2> HIDE DEF r
    <2>3. Refuses(s, r)
      BY <1>5, <2>1 DEF Refuses
    <2> QED
      BY <1>1, <2>1, <2>2, <2>3
  <1>6. CASE /\ db' = Bounded(Stored(Added(g, folded)),
                                    EndedIn(g, folded), at)
             /\ stage' = [stage EXCEPT
                    ![s].graph = folded, ![s].scene = at + 1,
                    ![s].pc = IF isLast THEN "checking" ELSE "telling"]
             /\ lapses' = lapses \cup LapsesOf(told)
    <2> DEFINE pc == IF isLast THEN "checking" ELSE "telling"
               r == [stage[s] EXCEPT !.graph = folded, !.scene = at + 1, !.pc = pc]
    <2> HIDE DEF folded
    <2>1. stage' = [stage EXCEPT ![s] = r]
      <3>1. stage' = [stage EXCEPT ![s].graph = folded, ![s].scene = at + 1,
                                   ![s].pc = pc]
        BY <1>6
      <3> HIDE DEF pc
      <3>2. stage = [t \in Stages |-> stage[t]]
        BY DEF WorldInv
      <3>3. stage'[s] = r /\ stage' = [t \in Stages |-> stage'[t]]
        BY <3>1, <3>2
      <3>4. \A t \in Stages : t # s => stage'[t] = stage[t]
        BY <3>1, <3>2
      <3> HIDE DEF r
      <3> QED
        BY <3>2, <3>3, <3>4
    <2>2. /\ r.pc = pc /\ r.scene = at + 1 /\ r.graph = folded
          /\ r \in StageStates
      <3>1. at + 1 \in 0 .. NumScenes + 1 /\ stage[s] \in StageStates
        BY <1>1, <1>3, EdgeType DEF IsStage, StageStates
      <3>2. pc \in {"telling", "checking"}
        OBVIOUS
      <3> HIDE DEF pc, isLast
      <3> QED
        BY <1>3, <3>1, <3>2 DEF StageStates
    <2> HIDE DEF r
    <2>3. Writes(s, told, delta, r)
      BY <1>6, <2>2 DEF Writes, Folded, IsLast, folded
    <2> QED
      BY <1>1, <2>1, <2>2, <2>3
  <1> QED
    BY <1>2, <1>5, <1>6

LEMMA TellKeepsTypes ==
    ASSUME WorldInv, NEW s \in Stages, NEW told \in Tellings,
           Tell(s, told)
    PROVE  WorldInv'
PROOF
  <1> DEFINE at == stage[s].scene
             g == stage[s].graph
  <1>1. stage[s].pc = "telling" /\ IsStage(stage[s]) /\ budget' = budget
    BY TellIs DEF WorldInv
  <1>2. PICK delta \in Deltas(g, told, at), r \in StageStates :
           /\ stage' = [stage EXCEPT ![s] = r]
           /\ Refuses(s, r) \/ Writes(s, told, delta, r)
    BY TellIs
  <1> DEFINE folded == Folded(s, delta)
  <1>3. /\ at \in 1 .. NumScenes /\ IsSound(g)
        /\ folded \in Graphs /\ Follows(g, folded, at) /\ IsSound(folded)
    BY <1>1, SceneIs DEF Folded
  <1> HIDE DEF folded
  <1>4. (budget \in [starts : 0 .. MaxTellings, crashes : 0 .. MaxTears])'
    BY <1>1 DEF WorldInv
  <1>5. CASE Refuses(s, r)
    <2>1. IsStage(r) /\ IsSound(db)'
      BY <1>1, <1>5 DEF IsStage, WorldInv, Refuses
    <2>2. (lapses \subseteq {"again", "torn", "said", "twice"})'
      BY <1>5 DEF Refuses, WorldInv
    <2> QED
      BY <1>2, <1>4, <2>1, <2>2, OneStageMoves
  <1>6. CASE Writes(s, told, delta, r)
    <2>1. r.graph = folded /\ (r.pc = "telling" => r.scene \in 1 .. NumScenes)
      <3>1. r.pc = "telling" => at # NumScenes
        BY <1>6 DEF Writes, IsLast
      <3> QED
        BY <1>3, <1>6, <3>1, EdgeType DEF Writes, folded
    <2>2. r.pc # "done"
      BY <1>6 DEF Writes
    <2>3. IsStage(r)
      BY <1>2, <1>3, <2>1, <2>2 DEF IsStage
    <2>4. IsSound(db)'
      <3>1. IsSound(Bounded(Stored(Added(g, folded)), EndedIn(g, folded), at))
        BY <1>3, WritesSound DEF WorldInv
      <3> QED
        BY <1>6, <3>1 DEF Writes, folded
    <2>5. (lapses \subseteq {"again", "torn", "said", "twice"})'
      BY <1>6 DEF WorldInv, LapsesOf, Writes
    <2> QED
      BY <1>2, <1>4, <2>3, <2>4, <2>5, OneStageMoves
  <1> QED
    BY <1>2, <1>5, <1>6

LEMMA TearKeepsTypes ==
    ASSUME WorldInv, NEW s \in Stages, NEW told \in Tellings,
           Tear(s, told)
    PROVE  WorldInv'
PROOF
  <1> DEFINE at == stage[s].scene
             g == stage[s].graph
  <1>1. PICK delta \in Deltas(g, told, at) :
           db' = Stored(Added(g, Fold(g, delta, at)))
    BY DEF Tear
  <1>2. stage[s].pc = "telling"
    BY DEF Tear
  <1>3. /\ at \in 1 .. NumScenes /\ IsSound(g)
        /\ Fold(g, delta, at) \in Graphs /\ Follows(g, Fold(g, delta, at), at)
    BY <1>2, SceneIs
  <1>4. IsSound(db)'
    <2>1. IsSound(Stored(Added(g, Fold(g, delta, at))))
      BY <1>3, WritesSound DEF WorldInv
    <2> QED
      BY <1>1, <2>1
  <1>5. stage' = [t \in Stages |-> IdleStage] /\ IsStage(IdleStage)
    BY IdleIsStage DEF Tear
  <1>6. budget' \in [starts : 0 .. MaxTellings, crashes : 0 .. MaxTears]
    BY EntitiesAssumption, TellingsAssumption, BoundsAssumption DEF Tear, WorldInv
  <1>7. lapses' \subseteq {"again", "torn", "said", "twice"}
    BY DEF Tear, WorldInv, LapsesOf
  <1>8. stage' = [t \in Stages |-> stage'[t]] /\ \A t \in Stages : IsStage(stage'[t])
    BY <1>5
  <1> QED
    BY <1>4, <1>6, <1>7, <1>8 DEF WorldInv

LEMMA WorldInvStep ==
    WorldInv /\ [WorldNext]_worldVars => WorldInv'
PROOF
  <1> SUFFICES ASSUME WorldInv, [WorldNext]_worldVars PROVE WorldInv'
    OBVIOUS
  <1>1. ASSUME UNCHANGED worldVars PROVE WorldInv'
    <2>1. UNCHANGED <<db, stage, budget, lapses>>
      BY <1>1 DEF worldVars
    <2> QED
      BY <2>1 DEF WorldInv
  <1>2. ASSUME NEW s \in Stages,
               \/ BeginTelling(s) \/ AbortTelling(s) \/ ModelFails(s) \/ CheckEpisodes(s)
               \/ \E told \in Tellings : Tell(s, told) \/ Tear(s, told)
        PROVE  WorldInv'
    BY <1>2, BeginKeepsTypes, AbortKeepsTypes, ModelFailsKeepsTypes, CheckKeepsTypes,
       TellKeepsTypes, TearKeepsTypes
  <1> QED
    BY <1>1, <1>2 DEF WorldNext

LEMMA WorldInvInit ==
    WorldInit => WorldInv
PROOF
  <1> SUFFICES ASSUME WorldInit PROVE WorldInv
    OBVIOUS
  <1>1. IsSound(db)
    BY FirstIsSound DEF WorldInit
  <1>2. stage = [s \in Stages |-> IdleStage] /\ IsStage(IdleStage) /\ lapses = {}
    BY IdleIsStage DEF WorldInit
  <1>3. budget \in [starts : 0 .. MaxTellings, crashes : 0 .. MaxTears]
    BY EntitiesAssumption, TellingsAssumption, BoundsAssumption DEF WorldInit
  <1>4. stage = [s \in Stages |-> stage[s]] /\ \A s \in Stages : IsStage(stage[s])
    BY <1>2
  <1> QED
    BY <1>1, <1>2, <1>3, <1>4 DEF WorldInv

\* The types hold, no interval is empty, and a stage that comes to its end reports an error
\* just if somebody is in two places at some moment (TemporalIndex.findContradictions and the
\* world stage's verdict), for any number of stages that run in any order.
THEOREM TwoPlacesAreSeen ==
    WorldSpec => []TwoPlacesAreReported
PROOF
  <1>1. WorldInit => WorldInv
    BY WorldInvInit
  <1>2. WorldInv /\ [WorldNext]_worldVars => WorldInv'
    BY WorldInvStep
  <1>3. WorldInv => TwoPlacesAreReported
    BY WorldInvReports
  <1> QED
    BY <1>1, <1>2, <1>3, PTL DEF WorldSpec
-----------------------------------------------------------------------------
\* What a scene may change, as long as no other stage writes at the same time.

OneTells == \A s, t \in Stages : stage[s].pc = "telling" /\ stage[t].pc = "telling" => s = t

InMemory == \A s \in Stages : stage[s].pc = "telling" => stage[s].graph = db

\* With the store as the stage has it in memory, the two writes store what was folded; and
\* the first of them alone changes nothing before the scene either.
LEMMA WritesFollow ==
    ASSUME IsSound(db), NEW at \in 1 .. NumScenes,
           NEW h \in Graphs, Follows(db, h, at)
    PROVE  /\ Bounded(Stored(Added(db, h)), EndedIn(db, h), at) = h
           /\ Follows(db, Stored(Added(db, h)), at)
PROOF
  <1> DEFINE torn == Stored(Added(db, h))
             bound == Bounded(torn, EndedIn(db, h), at)
  <1>1. DOMAIN db \subseteq DOMAIN h /\ h = [e \in DOMAIN h |-> h[e]]
    BY GraphForm DEF Follows
  <1>2. /\ DOMAIN torn = DOMAIN h
        /\ \A e \in DOMAIN torn : torn[e] = IF e \in DOMAIN db THEN db[e] ELSE Nil
    BY <1>1 DEF Stored, Added, Adds
  <1> HIDE DEF torn
  <1>3. Follows(db, torn, at)
    BY <1>2 DEF Follows
  <1>4. /\ DOMAIN bound = DOMAIN h /\ bound = [e \in DOMAIN bound |-> bound[e]]
        /\ \A e \in DOMAIN bound : bound[e] = IF e \in EndedIn(db, h) THEN at ELSE torn[e]
    BY <1>2 DEF Bounded
  <1> HIDE DEF bound
  <1>5. ASSUME NEW e \in DOMAIN h
        PROVE  bound[e] = h[e]
    <2>1. CASE e \notin DOMAIN db
      BY <1>2, <1>4, <2>1 DEF Follows, EndedIn
    <2>2. CASE e \in DOMAIN db
      BY <1>2, <1>4, <2>2 DEF Follows, EndedIn
    <2> QED
      BY <2>1, <2>2
  <1> QED
    BY <1>1, <1>3, <1>4, <1>5 DEF torn, bound

LEMMA FollowsKeeps ==
    ASSUME NEW g, IsSound(g), NEW at \in 1 .. NumScenes, NEW h, Follows(g, h, at),
           NEW time \in 0 .. at - 1
    PROVE  {e \in DOMAIN g : IsValidAt(g, e, time)} = {e \in DOMAIN h : IsValidAt(h, e, time)}
PROOF
  <1>1. at \in Nat /\ time \in Nat /\ time < at /\ Nil \notin Nat /\ DOMAIN g \subseteq DOMAIN h
    BY EdgeType DEF Follows
  <1>2. ASSUME NEW e \in DOMAIN g
        PROVE  IsValidAt(g, e, time) <=> IsValidAt(h, e, time)
    <2>1. h[e] = g[e] \/ (g[e] = Nil /\ h[e] = at)
      BY DEF Follows
    <2> QED
      BY <1>1, <2>1 DEF IsValidAt
  <1>3. ASSUME NEW e \in DOMAIN h \ DOMAIN g
        PROVE  ~ IsValidAt(h, e, time)
    <2>1. e.scene = at
      BY DEF Follows
    <2> QED
      BY <1>1, <2>1 DEF IsValidAt
  <1> QED
    BY <1>1, <1>2, <1>3

LEMMA InMemoryStep ==
    ASSUME WorldInv, OneTells, InMemory, [WorldNext]_worldVars
    PROVE  /\ InMemory'
           /\ \A s \in Stages : stage[s].pc = "telling" => db' = db \/ Follows(db, db', stage[s].scene)
PROOF
  <1>0. \A s \in Stages : IsStage(stage[s])
    BY DEF WorldInv
  <1>1. stage = [s \in Stages |-> stage[s]]
    BY DEF WorldInv
  <1>2. CASE UNCHANGED worldVars
    BY <1>2 DEF worldVars, InMemory
  <1>3. ASSUME NEW s \in Stages, BeginTelling(s)
        PROVE  db' = db /\ InMemory'
    <2>1. db' = db /\ stage'[s].graph = db /\ \A t \in Stages : t # s => stage'[t] = stage[t]
      <3>1. stage' = [stage EXCEPT ![s] = [IdleStage EXCEPT !.pc = "telling", !.scene = 1, !.graph = db]]
        BY <1>3 DEF BeginTelling
      <3>2. [IdleStage EXCEPT !.pc = "telling", !.scene = 1, !.graph = db].graph = db
        BY DEF IdleStage
      <3> QED
        BY <1>1, <1>3, <3>1, <3>2 DEF BeginTelling
    <2> QED
      BY <2>1 DEF InMemory
  <1>4. ASSUME NEW s \in Stages, AbortTelling(s) \/ ModelFails(s) \/ CheckEpisodes(s)
        PROVE  db' = db /\ InMemory'
    <2>1. db' = db /\ \A t \in Stages : stage'[t].graph = stage[t].graph
      BY <1>0, <1>1, <1>4 DEF AbortTelling, ModelFails, CheckEpisodes, IsStage, StageStates
    <2>2. /\ stage'[s].pc = "telling" => stage[s].pc = "telling"
          /\ \A t \in Stages : t # s => stage'[t] = stage[t]
      BY <1>0, <1>1, <1>4 DEF AbortTelling, ModelFails, CheckEpisodes, IsStage, StageStates
    <2> QED
      BY <2>1, <2>2 DEF InMemory
  <1>5. ASSUME NEW s \in Stages, NEW told \in Tellings, Tell(s, told)
        PROVE  InMemory' /\ stage[s].pc = "telling" /\ (db' = db \/ Follows(db, db', stage[s].scene))
    <2>1. PICK delta \in Deltas(stage[s].graph, told, stage[s].scene), r \in StageStates :
             /\ stage' = [stage EXCEPT ![s] = r]
             /\ Refuses(s, r) \/ Writes(s, told, delta, r)
      BY <1>5, TellIs
    <2>2. stage[s].pc = "telling" /\ stage[s].graph = db
      BY <1>5, TellIs DEF InMemory
    <2>3. /\ stage'[s] = r
          /\ \A t \in Stages : t # s => stage'[t] = stage[t] /\ stage'[t].pc # "telling"
      BY <1>1, <2>1, <2>2 DEF OneTells
    <2>4. CASE Refuses(s, r)
      BY <2>2, <2>3, <2>4 DEF Refuses, InMemory
    <2>5. CASE Writes(s, told, delta, r)
      <3>1. /\ stage[s].scene \in 1 .. NumScenes /\ Folded(s, delta) \in Graphs
            /\ Follows(db, Folded(s, delta), stage[s].scene)
        BY <2>2, SceneIs DEF Folded
      <3>2. db' = Folded(s, delta) /\ stage'[s].graph = Folded(s, delta)
        BY <2>2, <2>3, <2>5, <3>1, WritesFollow DEF Writes, WorldInv
      <3> QED
        BY <2>2, <2>3, <3>1, <3>2 DEF InMemory
    <2> QED
      BY <2>1, <2>2, <2>4, <2>5
  <1>6. ASSUME NEW s \in Stages, NEW told \in Tellings, Tear(s, told)
        PROVE  InMemory' /\ stage[s].pc = "telling" /\ Follows(db, db', stage[s].scene)
    <2>1. stage[s].pc = "telling" /\ stage[s].graph = db
      BY <1>6 DEF Tear, InMemory
    <2>2. PICK delta \in Deltas(stage[s].graph, told, stage[s].scene) :
             db' = Stored(Added(stage[s].graph, Folded(s, delta)))
      BY <1>6 DEF Tear, Folded
    <2>3. /\ stage[s].scene \in 1 .. NumScenes /\ Folded(s, delta) \in Graphs
          /\ Follows(db, Folded(s, delta), stage[s].scene)
      BY <2>1, SceneIs DEF Folded
    <2>4. \A t \in Stages : stage'[t].pc = "idle"
      BY <1>6 DEF Tear, IdleStage
    <2> QED
      BY <2>1, <2>2, <2>3, <2>4, WritesFollow DEF InMemory, WorldInv
  <1>7. CASE WorldNext
    <2>1. PICK s \in Stages :
             \/ BeginTelling(s) \/ AbortTelling(s) \/ ModelFails(s) \/ CheckEpisodes(s)
             \/ \E told \in Tellings : Tell(s, told) \/ Tear(s, told)
      BY <1>7 DEF WorldNext
    <2>2. InMemory' /\ (db' = db \/ (stage[s].pc = "telling" /\ Follows(db, db', stage[s].scene)))
      BY <2>1, <1>3, <1>4, <1>5, <1>6
    <2> QED
      BY <2>2 DEF OneTells
  <1> QED
    BY <1>2, <1>7 DEF worldVars

\* The world stage bounds facts and deletes none, so that every moment before a scene stays as
\* it was (fold-state-delta.ts, graph.store.ts), wherever the two writes are cut off; as long
\* as the series' stages are told one after the other.
THEOREM EarlierTimesStay ==
    WorldSpec /\ []OneTells => HistoryIsKept
PROOF
  <1> DEFINE Kept ==
        \A s \in Stages :
           stage[s].pc = "telling" /\ db' # db =>
              \A time \in 0 .. stage[s].scene - 1 :
                  {e \in DOMAIN db : IsValidAt(db, e, time)}
                      = {e \in DOMAIN db' : IsValidAt(db', e, time)}
  <1>1. WorldInit => WorldInv /\ InMemory
    <2>1. WorldInit => InMemory
      BY DEF WorldInit, IdleStage, InMemory
    <2> QED
      BY <2>1, WorldInvInit
  <1>2. WorldInv /\ InMemory /\ OneTells /\ [WorldNext]_worldVars => (WorldInv /\ InMemory)'
    BY WorldInvStep, InMemoryStep
  <1>3. WorldInv /\ InMemory /\ OneTells /\ [WorldNext]_worldVars => [Kept]_worldVars
    <2> SUFFICES ASSUME WorldInv, InMemory, OneTells, [WorldNext]_worldVars,
                        NEW s \in Stages, stage[s].pc = "telling", db' # db,
                        NEW time \in 0 .. stage[s].scene - 1
                 PROVE  {e \in DOMAIN db : IsValidAt(db, e, time)}
                            = {e \in DOMAIN db' : IsValidAt(db', e, time)}
      OBVIOUS
    <2>1. Follows(db, db', stage[s].scene)
      BY InMemoryStep
    <2>2. IsSound(db) /\ stage[s].scene \in 1 .. NumScenes
      BY DEF WorldInv, IsStage
    <2> QED
      BY <2>1, <2>2, FollowsKeeps
  <1>4. HistoryIsKept <=> [][Kept]_worldVars
    BY DEF HistoryIsKept
  <1> HIDE DEF Kept
  <1> QED
    BY <1>1, <1>2, <1>3, <1>4, PTL DEF WorldSpec
\* With one stage, as in the run of the world, the premise holds.
LEMMA OneStageTells ==
    ASSUME \A s, t \in Stages : s = t
    PROVE  []OneTells
PROOF
  <1>1. OneTells
    BY DEF OneTells
  <1> QED
    BY <1>1, PTL

-----------------------------------------------------------------------------
\* A series told once, in order, whose scenes move people and hand things on.

\* Who is in a place, and what is carried: of these there is one fact at a time.
Owner(fact) == IF fact.type = "located-in" THEN fact.from ELSE fact.to

Rivals(f, h) ==
    /\ f.type = h.type /\ f.type \in {"located-in", "carries"}
    /\ Owner(f) = Owner(h) /\ f # h

NoRivals(g) == \A d, e \in DOMAIN g : Rivals(d.fact, e.fact) => ~ Overlap(g, d, e)

\* The story has not got to the scene.
Past(g, at) == \A e \in DOMAIN g : e.scene < at /\ (g[e] = Nil \/ g[e] < at)

\* The premise: what is known before the story puts nobody in two places.
BeforeIsConsistent == \A facts \in Before : \A f, h \in facts : ~ Rivals(f, h)

LEMMA NoRivalsOnePlace ==
    ASSUME NEW g, IsSound(g), NoRivals(g)
    PROVE  OnePlace(g)
PROOF
  <1>1. ASSUME NEW time \in 0 .. NumScenes, IsTwofold(g, time)
        PROVE  FALSE
    <2>1. PICK d \in DOMAIN g, e \in DOMAIN g :
             /\ d.fact.type = "located-in" /\ e.fact.type = "located-in"
             /\ d.fact.from = e.fact.from /\ d.fact.to # e.fact.to
             /\ IsValidAt(g, d, time) /\ IsValidAt(g, e, time)
      BY <1>1 DEF IsTwofold
    <2>2. Rivals(d.fact, e.fact)
      BY <2>1 DEF Rivals, Owner
    <2>3. \A b \in {d, e} : b.scene \in Nat /\ (g[b] = Nil \/ g[b] \in Nat)
      <3>1. d \in Edges /\ e \in Edges /\ NumScenes \in Nat
        BY EdgeType DEF IsSound, IsGraph
      <3>2. d.scene \in 0 .. NumScenes /\ e.scene \in 0 .. NumScenes
        BY <3>1, EdgeType
      <3>3. \A b \in {d, e} : g[b] = Nil \/ g[b] \in b.scene + 1 .. NumScenes
        BY DEF IsSound, IsGraph
      <3> QED
        BY <3>1, <3>2, <3>3
    <2>4. Overlap(g, d, e)
      BY <1>1, <2>1, <2>3, EdgeType DEF IsValidAt, Overlap
    <2> QED
      BY <2>2, <2>4 DEF NoRivals
  <1>2. ASSUME NEW d \in DOMAIN g, NEW e \in DOMAIN g,
               d.fact.type = "carries", e.fact.type = "carries", d.fact.to = e.fact.to,
               d.fact.from # e.fact.from
        PROVE  ~ Overlap(g, d, e)
    BY <1>2 DEF NoRivals, Rivals, Owner
  <1> QED
    BY <1>1, <1>2 DEF OnePlace

LEMMA EndsNoRivals ==
    ASSUME NEW g \in Graphs, NEW at \in 1 .. NumScenes, NEW edges, NoRivals(g)
    PROVE  NoRivals(Ends(g, edges, at))
PROOF
  <1> DEFINE h == Ends(g, edges, at)
  <1>1. /\ DOMAIN h = DOMAIN g
        /\ \A e \in DOMAIN g : h[e] = g[e] \/ g[e] = Nil
    BY DEF Ends
  <1> HIDE DEF h
  <1>2. ASSUME NEW d \in DOMAIN g, NEW e \in DOMAIN g, Overlap(h, d, e)
        PROVE  Overlap(g, d, e)
    BY <1>1, <1>2 DEF Overlap
  <1> QED
    BY <1>1, <1>2 DEF NoRivals, h

\* The people, or the things, that the scene itself has an edge of.
Fresh(g, at, type) == {Owner(e.fact) : e \in {e \in DOMAIN g : e.scene = at /\ e.fact.type = type}}

\* What the scene has no edge of yet can be taken from where it is, and put elsewhere.
LEMMA TakenOver ==
    ASSUME NEW at \in 1 .. NumScenes, NEW g, IsSound(g), Past(g, at),
           NEW f \in Graphs, Follows(g, f, at), NoRivals(f),
           NEW type \in {"located-in", "carries"}, NEW owner, owner \notin Fresh(f, at, type),
           NEW edges,
           \A e \in DOMAIN f : e.fact.type = type /\ Owner(e.fact) = owner /\ f[e] = Nil => e \in edges,
           NEW fact \in AllFacts, fact.type = type, Owner(fact) = owner
    PROVE  NoRivals(Adds(Ends(f, edges, at), {Edge(at, fact, "fold")}))
PROOF
  <1> DEFINE left == Ends(f, edges, at)
             new == Edge(at, fact, "fold")
             h == Adds(left, {new})
  <1>1. NoRivals(left)
    BY EndsNoRivals
  <1>2. new.scene = at /\ new.fact = fact
    BY DEF Edge
  <1>3. at \in Nat /\ Nil \notin Nat
    BY EdgeType
  <1>4. ASSUME NEW e \in DOMAIN f, e.fact.type = type, Owner(e.fact) = owner
        PROVE  left[e] # Nil /\ ~ (at < left[e])
    <2>1. e.scene # at
      BY <1>4 DEF Fresh
    <2>2. e \in DOMAIN g /\ e.scene < at
      BY <2>1 DEF Follows, Past
    <2>3. f[e] # Nil => f[e] \in Nat /\ (f[e] = at \/ f[e] < at)
      <3>1. g[e] # Nil => g[e] \in Nat
        <4>1. g[e] \in {Nil} \cup (0 .. NumScenes)
          BY <2>2, GraphForm DEF IsSound
        <4> QED
          BY <4>1, EdgeType
      <3> QED
        BY <1>3, <2>2, <3>1 DEF Follows, Past
    <2>4. left[e] = IF f[e] = Nil THEN at ELSE f[e]
      BY <1>4, <2>2 DEF Ends
    <2> QED
      BY <1>3, <2>3, <2>4
  <1>5. new \notin DOMAIN f
    BY <1>2 DEF Fresh
  <1>6. DOMAIN left = DOMAIN f
    BY DEF Ends
  <1> HIDE DEF left, new
  <1>7. /\ DOMAIN h = DOMAIN f \cup {new} /\ h[new] = Nil
        /\ \A e \in DOMAIN f : h[e] = left[e]
    BY <1>5, <1>6 DEF Adds
  <1> HIDE DEF h
  <1>8. ASSUME NEW e \in DOMAIN f, Rivals(new.fact, e.fact) \/ Rivals(e.fact, new.fact)
        PROVE  ~ Overlap(h, new, e) /\ ~ Overlap(h, e, new)
    <2>1. e.fact.type = type /\ Owner(e.fact) = owner
      BY <1>2, <1>8 DEF Rivals
    <2>2. h[e] # Nil /\ ~ (at < h[e])
      BY <1>4, <1>7, <2>1
    <2> QED
      BY <1>2, <2>2 DEF Overlap
  <1>9. ASSUME NEW d \in DOMAIN f, NEW e \in DOMAIN f, Rivals(d.fact, e.fact)
        PROVE  ~ Overlap(h, d, e)
    BY <1>1, <1>6, <1>7, <1>9 DEF NoRivals, Overlap
  <1>10. ~ Rivals(new.fact, new.fact)
    BY DEF Rivals
  <1> QED
    BY <1>7, <1>8, <1>9, <1>10 DEF NoRivals, h, new, left

LEMMA MovesNoRivals ==
    ASSUME NEW at \in 1 .. NumScenes, NEW g, IsSound(g), Past(g, at),
           NEW f \in Graphs, Follows(g, f, at), NoRivals(f),
           NEW move \in MoveOf, move.who \notin Fresh(f, at, "located-in")
    PROVE  /\ NoRivals(Moves(f, move, at))
           /\ Fresh(Moves(f, move, at), at, "located-in")
                 \subseteq Fresh(f, at, "located-in") \cup {move.who}
           /\ Fresh(Moves(f, move, at), at, "carries") \subseteq Fresh(f, at, "carries")
PROOF
  <1> DEFINE standing == {e \in Standing(f, at) :
                             e.fact.type = "located-in" /\ e.fact.from = move.who}
             left == Ends(f, standing, at)
             fact == InPlace(move.who, move.to)
             more == Adds(left, {Edge(at, fact, "fold")})
  <1>1. Moves(f, move, at) \in {f, left} \/ (move.to # Nil /\ Moves(f, move, at) = more)
    BY DEF Moves
  <1>2. NoRivals(left)
    BY EndsNoRivals
  <1>3. ASSUME move.to # Nil
        PROVE  NoRivals(more)
    <2>1. fact \in AllFacts /\ fact.type = "located-in" /\ Owner(fact) = move.who
      BY <1>3 DEF InPlace, AllFacts, MoveOf, Owner
    <2>2. ASSUME NEW e \in DOMAIN f, e.fact.type = "located-in", Owner(e.fact) = move.who, f[e] = Nil
          PROVE  e \in standing
      <3>1. e.scene <= at
        <4>1. e \in DOMAIN g => e.scene < at
          BY DEF Past
        <4>2. e \in Edges
          BY GraphForm
        <4>3. e.scene \in Nat /\ at \in Nat
          BY <4>2, EdgeType
        <4> QED
          BY <4>1, <4>3 DEF Follows
      <3> QED
        BY <2>2, <3>1 DEF Standing, Owner
    <2> HIDE DEF standing, fact
    <2> QED
      BY <2>1, <2>2, TakenOver
  <1>4. /\ DOMAIN left = DOMAIN f
        /\ DOMAIN more = DOMAIN f \cup {Edge(at, fact, "fold")}
        /\ Edge(at, fact, "fold").fact.type = "located-in"
        /\ Owner(Edge(at, fact, "fold").fact) = move.who
    BY DEF Ends, Adds, Edge, InPlace, Owner
  <1> HIDE DEF left, more
  <1> QED
    BY <1>1, <1>2, <1>3, <1>4 DEF Fresh

LEMMA HandsNoRivals ==
    ASSUME NEW at \in 1 .. NumScenes, NEW g, IsSound(g), Past(g, at),
           NEW f \in Graphs, Follows(g, f, at), NoRivals(f),
           NEW hand \in HandOf, hand.item \notin Fresh(f, at, "carries")
    PROVE  /\ NoRivals(Hands(f, hand, at))
           /\ Fresh(Hands(f, hand, at), at, "carries")
                 \subseteq Fresh(f, at, "carries") \cup {hand.item}
PROOF
  <1> DEFINE held == {e \in Standing(f, at) :
                         e.fact.type = "carries" /\ e.fact.to = hand.item}
             left == Ends(f, held, at)
             fact == Carries(hand.to, hand.item)
             more == Adds(left, {Edge(at, fact, "fold")})
  <1>1. Hands(f, hand, at) \in {f, left} \/ (hand.to # Nil /\ Hands(f, hand, at) = more)
    BY DEF Hands
  <1>2. NoRivals(left)
    BY EndsNoRivals
  <1>3. ASSUME hand.to # Nil
        PROVE  NoRivals(more)
    <2>1. fact \in AllFacts /\ fact.type = "carries" /\ Owner(fact) = hand.item
      BY <1>3 DEF Carries, AllFacts, HandOf, Owner
    <2>2. ASSUME NEW e \in DOMAIN f, e.fact.type = "carries", Owner(e.fact) = hand.item, f[e] = Nil
          PROVE  e \in held
      <3>1. e.scene <= at
        <4>1. e \in DOMAIN g => e.scene < at
          BY DEF Past
        <4>2. e \in Edges
          BY GraphForm
        <4>3. e.scene \in Nat /\ at \in Nat
          BY <4>2, EdgeType
        <4> QED
          BY <4>1, <4>3 DEF Follows
      <3> QED
        BY <2>2, <3>1 DEF Standing, Owner
    <2> HIDE DEF held, fact
    <2> QED
      BY <2>1, <2>2, TakenOver
  <1>4. /\ DOMAIN left = DOMAIN f
        /\ DOMAIN more = DOMAIN f \cup {Edge(at, fact, "fold")}
        /\ Edge(at, fact, "fold").fact.type = "carries"
        /\ Owner(Edge(at, fact, "fold").fact) = hand.item
    BY DEF Ends, Adds, Edge, Carries, Owner
  <1> HIDE DEF left, more
  <1> QED
    BY <1>1, <1>2, <1>3, <1>4 DEF Fresh
LEMMA MovesLoopNoRivals ==
    ASSUME NEW at \in 1 .. NumScenes, NEW g, IsSound(g), Past(g, at),
           NEW f \in Graphs, Follows(g, f, at), NoRivals(f),
           Fresh(f, at, "located-in") = {}, Fresh(f, at, "carries") = {},
           NEW moves \in Seq(MoveOf),
           \A i, j \in DOMAIN moves : i # j => moves[i].who # moves[j].who,
           NEW acc, AfterMoves(acc, f, moves, at)
    PROVE  NoRivals(acc[Len(moves)]) /\ Fresh(acc[Len(moves)], at, "carries") = {}
PROOF
  <1> DEFINE Good == {i \in 0 .. Len(moves) :
                        /\ NoRivals(acc[i]) /\ Fresh(acc[i], at, "carries") = {}
                        /\ Fresh(acc[i], at, "located-in") \subseteq {moves[j].who : j \in 1 .. i}}
  <1>1. /\ Len(moves) \in Nat /\ DOMAIN moves = 1 .. Len(moves) /\ acc[0] = f
        /\ \A i \in 0 .. Len(moves) : acc[i] \in Graphs
        /\ DOMAIN g \subseteq Edges
    BY GraphForm DEF AfterMoves, IsSound
  <1>2. 0 \in Good
    BY <1>1
  <1>3. ASSUME NEW i \in 0 .. Len(moves), i \in Good, i < Len(moves)
        PROVE  i + 1 \in Good
    <2>1. /\ i \in Nat /\ i + 1 \in 1 .. Len(moves) /\ (i + 1) - 1 = i /\ i + 1 \in 0 .. Len(moves)
          /\ \A j \in 1 .. i : j \in 1 .. i + 1 /\ j \in 1 .. Len(moves) /\ j # i + 1
          /\ i + 1 \in 1 .. i + 1
      BY <1>1, <1>3
    <2>2. acc[i + 1] = Moves(acc[i], moves[i + 1], at) /\ moves[i + 1] \in MoveOf
      BY <2>1 DEF AfterMoves
    <2>3. moves[i + 1].who \notin Fresh(acc[i], at, "located-in")
      BY <1>1, <1>3, <2>1
    <2>4. acc[i] \in Graphs /\ Follows(g, acc[i], at)
      <3>1. acc[i] \in Graphs /\ Follows(f, acc[i], at)
        BY AfterMovesFollows
      <3> QED
        BY <1>1, <3>1, FollowsOn
    <2>5. NoRivals(acc[i])
      BY <1>3
    <2>6. /\ NoRivals(acc[i + 1])
          /\ Fresh(acc[i + 1], at, "located-in")
                \subseteq Fresh(acc[i], at, "located-in") \cup {moves[i + 1].who}
          /\ Fresh(acc[i + 1], at, "carries") \subseteq Fresh(acc[i], at, "carries")
      BY <2>2, <2>3, <2>4, <2>5, MovesNoRivals
    <2>7. {moves[j].who : j \in 1 .. i} \cup {moves[i + 1].who} \subseteq {moves[j].who : j \in 1 .. i + 1}
      BY <2>1
    <2> QED
      BY <1>3, <2>1, <2>6, <2>7
  <1>4. Len(moves) \in Good
    <2> HIDE DEF Good
    <2>1. 0 .. Len(moves) \subseteq Good
      BY <1>1, <1>2, <1>3, InductionTo
    <2> QED
      BY <1>1, <2>1
  <1> QED
    BY <1>4

LEMMA HandsLoopNoRivals ==
    ASSUME NEW at \in 1 .. NumScenes, NEW g, IsSound(g), Past(g, at),
           NEW f \in Graphs, Follows(g, f, at), NoRivals(f), Fresh(f, at, "carries") = {},
           NEW hands \in Seq(HandOf),
           \A i, j \in DOMAIN hands : i # j => hands[i].item # hands[j].item,
           NEW acc, AfterHands(acc, f, hands, at)
    PROVE  NoRivals(acc[Len(hands)])
PROOF
  <1> DEFINE Good == {i \in 0 .. Len(hands) :
                        /\ NoRivals(acc[i])
                        /\ Fresh(acc[i], at, "carries") \subseteq {hands[j].item : j \in 1 .. i}}
  <1>1. /\ Len(hands) \in Nat /\ DOMAIN hands = 1 .. Len(hands) /\ acc[0] = f
        /\ \A i \in 0 .. Len(hands) : acc[i] \in Graphs
        /\ DOMAIN g \subseteq Edges
    BY GraphForm DEF AfterHands, IsSound
  <1>2. 0 \in Good
    BY <1>1
  <1>3. ASSUME NEW i \in 0 .. Len(hands), i \in Good, i < Len(hands)
        PROVE  i + 1 \in Good
    <2>1. /\ i \in Nat /\ i + 1 \in 1 .. Len(hands) /\ (i + 1) - 1 = i /\ i + 1 \in 0 .. Len(hands)
          /\ \A j \in 1 .. i : j \in 1 .. i + 1 /\ j \in 1 .. Len(hands) /\ j # i + 1
          /\ i + 1 \in 1 .. i + 1
      BY <1>1, <1>3
    <2>2. acc[i + 1] = Hands(acc[i], hands[i + 1], at) /\ hands[i + 1] \in HandOf
      BY <2>1 DEF AfterHands
    <2>3. hands[i + 1].item \notin Fresh(acc[i], at, "carries")
      BY <1>1, <1>3, <2>1
    <2>4. acc[i] \in Graphs /\ Follows(g, acc[i], at)
      <3>1. acc[i] \in Graphs /\ Follows(f, acc[i], at)
        BY AfterHandsFollows
      <3> QED
        BY <1>1, <3>1, FollowsOn
    <2>5. NoRivals(acc[i])
      BY <1>3
    <2>6. /\ NoRivals(acc[i + 1])
          /\ Fresh(acc[i + 1], at, "carries") \subseteq Fresh(acc[i], at, "carries") \cup {hands[i + 1].item}
      BY <2>2, <2>3, <2>4, <2>5, HandsNoRivals
    <2>7. {hands[j].item : j \in 1 .. i} \cup {hands[i + 1].item} \subseteq {hands[j].item : j \in 1 .. i + 1}
      BY <2>1
    <2> QED
      BY <1>3, <2>1, <2>6, <2>7
  <1>4. Len(hands) \in Good
    <2> HIDE DEF Good
    <2>1. 0 .. Len(hands) \subseteq Good
      BY <1>1, <1>2, <1>3, InductionTo
    <2> QED
      BY <1>1, <2>1
  <1> QED
    BY <1>4

\* A scene without a lapse, folded into a graph that is consistent.
LEMMA FoldNoRivals ==
    ASSUME NEW at \in 1 .. NumScenes, NEW g, IsSound(g), Past(g, at), NoRivals(g),
           NEW told \in Tellings, LapsesOf(told) = {},
           NEW delta \in Deltas(g, told, at)
    PROVE  NoRivals(Fold(g, delta, at))
PROOF
  <1> DEFINE start == Asserted(g, delta, at)
             m == Len(delta.moves)
             n == Len(delta.hands)
  <1>0. g \in Graphs /\ DOMAIN g \subseteq Edges
    BY GraphForm DEF IsSound
  <1>1. /\ delta \in Delta /\ delta.moves \in Seq(MoveOf) /\ delta.hands \in Seq(HandOf)
        /\ m \in 0 .. m /\ n \in 0 .. n
    BY <1>0, DeltaType DEF Delta
  <1>2. /\ \A i, j \in DOMAIN delta.moves : i # j => delta.moves[i].who # delta.moves[j].who
        /\ \A i, j \in DOMAIN delta.hands : i # j => delta.hands[i].item # delta.hands[j].item
        /\ \A fact \in delta.said : fact.type = "knows"
    <2>1. ~ Repeats(told) /\ \A fact \in told.said : fact.type = "knows"
      BY DEF LapsesOf
    <2>2. delta.moves = told.moves /\ delta.hands = told.hands /\ delta.said \subseteq told.said
      BY <1>0, DeltaType
    <2> QED
      BY <2>1, <2>2 DEF Repeats
  <1>3. start \in Graphs /\ Follows(g, start, at)
    BY <1>0, <1>1, AssertedFollows
  <1>4. /\ NoRivals(start)
        /\ Fresh(start, at, "located-in") = {} /\ Fresh(start, at, "carries") = {}
    <2> DEFINE new == {Edge(at, fact, "model") : fact \in delta.said}
               more == Adds(g, new)
    <2>1. \A e \in new : e.fact.type = "knows" /\ e.scene = at
      BY <1>2 DEF Edge
    <2>2. new \in SUBSET Edges
      <3>1. \A fact \in delta.said : fact \in AllFacts
        BY <1>1 DEF Delta
      <3> QED
        BY <3>1, NewEdge
    <2> HIDE DEF new
    <2>3. DOMAIN more = DOMAIN g \cup new /\ \A e \in DOMAIN g : more[e] = g[e]
      BY DEF Adds
    <2>4. more \in Graphs
      BY <1>0, <2>1, <2>2, AddsFollows
    <2> HIDE DEF more
    <2>5. NoRivals(more)
      <3>1. ASSUME NEW d \in DOMAIN more, NEW e \in DOMAIN more, Rivals(d.fact, e.fact)
            PROVE  ~ Overlap(more, d, e)
        <4>1. d \in DOMAIN g /\ e \in DOMAIN g
          BY <2>1, <2>3, <3>1 DEF Rivals
        <4> QED
          BY <2>3, <3>1, <4>1 DEF NoRivals, Overlap
      <3> QED
        BY <3>1 DEF NoRivals
    <2>6. start = Ends(more, delta.ended, at) /\ DOMAIN start = DOMAIN more
      BY DEF Asserted, more, new, Ends
    <2> HIDE DEF start
    <2>7. NoRivals(start)
      BY <2>4, <2>5, <2>6, EndsNoRivals
    <2>8. \A e \in DOMAIN start : e.scene = at => e.fact.type = "knows"
      BY <2>1, <2>3, <2>6 DEF Past
    <2> QED
      BY <2>7, <2>8 DEF Fresh
  <1>5. PICK moved, handed :
           /\ AfterMoves(moved, start, delta.moves, at)
           /\ AfterHands(handed, moved[m], delta.hands, at)
           /\ Fold(g, delta, at) = Forgets(handed[n], delta.forgotten, at)
    BY <1>0, <1>1, FoldIs
  <1> HIDE DEF start, m, n
  <1>6. moved[m] \in Graphs /\ Follows(g, moved[m], at)
    <2>1. moved[m] \in Graphs /\ Follows(start, moved[m], at)
      BY <1>1, <1>3, <1>5, AfterMovesFollows DEF m
    <2> QED
      BY <1>0, <1>3, <2>1, FollowsOn
  <1>7. NoRivals(moved[m]) /\ Fresh(moved[m], at, "carries") = {}
    BY <1>1, <1>2, <1>3, <1>4, <1>5, MovesLoopNoRivals DEF m
  <1>8. handed[n] \in Graphs
    BY <1>1, <1>5, <1>6, AfterHandsFollows DEF n
  <1>9. NoRivals(handed[n])
    BY <1>1, <1>2, <1>5, <1>6, <1>7, HandsLoopNoRivals DEF n
  <1> QED
    BY <1>5, <1>8, <1>9, EndsNoRivals DEF Forgets

Orderly ==
    lapses = {} =>
        /\ NoRivals(db)
        /\ \A s \in Stages : stage[s].pc = "telling" =>
              stage[s].graph = db /\ Past(db, stage[s].scene)
        /\ \A s, t \in Stages : stage[s].pc # "idle" /\ stage[t].pc # "idle" => s = t
        /\ budget.starts = MaxTellings => Past(db, 1) /\ \A s \in Stages : stage[s].pc = "idle"

LEMMA OrderlyInit ==
    ASSUME BeforeIsConsistent
    PROVE  WorldInit => Orderly
PROOF
  <1> SUFFICES ASSUME WorldInit PROVE Orderly
    OBVIOUS
  <1>1. PICK facts \in Before : db = [e \in {Edge(0, fact, "model") : fact \in facts} |-> Nil]
    BY DEF WorldInit
  <1>2. \A e \in DOMAIN db : e.scene = 0 /\ e.fact \in facts /\ db[e] = Nil
    BY <1>1 DEF Edge
  <1>3. NoRivals(db) /\ Past(db, 1)
    BY <1>2 DEF NoRivals, Past, BeforeIsConsistent
  <1>4. \A s \in Stages : stage[s].pc = "idle"
    BY DEF WorldInit, IdleStage
  <1> QED
    BY <1>3, <1>4 DEF Orderly

LEMMA OrderlyStep ==
    ASSUME WorldInv, Orderly, [WorldNext]_worldVars
    PROVE  Orderly'
PROOF
  <1>0. /\ \A s \in Stages : IsStage(stage[s])
        /\ stage = [s \in Stages |-> stage[s]]
        /\ budget \in [starts : 0 .. MaxTellings, crashes : 0 .. MaxTears]
        /\ MaxTellings \in Nat /\ IsSound(db)
    BY EntitiesAssumption, TellingsAssumption, BoundsAssumption DEF WorldInv
  <1>1. CASE UNCHANGED worldVars
    BY <1>1 DEF worldVars, Orderly
  <1>2. ASSUME NEW s \in Stages, BeginTelling(s), lapses' = {}
        PROVE  Orderly'
    <2>1. lapses = {} /\ budget.starts = MaxTellings /\ budget.starts > 0
      BY <1>2 DEF BeginTelling
    <2>2. NoRivals(db) /\ Past(db, 1) /\ \A t \in Stages : stage[t].pc = "idle"
      BY <2>1 DEF Orderly
    <2>3. budget'.starts # MaxTellings
      BY <1>0, <1>2, <2>1 DEF BeginTelling
    <2>4. /\ stage'[s].graph = db /\ stage'[s].scene = 1 /\ db' = db
          /\ \A t \in Stages : t # s => stage'[t] = stage[t]
      <3> DEFINE r == [IdleStage EXCEPT !.pc = "telling", !.scene = 1, !.graph = db]
      <3>1. r.graph = db /\ r.scene = 1
        BY DEF IdleStage
      <3>2. stage' = [stage EXCEPT ![s] = r] /\ db' = db
        BY <1>2 DEF BeginTelling
      <3> HIDE DEF r
      <3> QED
        BY <1>0, <3>1, <3>2
    <2> QED
      BY <2>2, <2>3, <2>4 DEF Orderly
  <1>3. ASSUME NEW s \in Stages, AbortTelling(s) \/ ModelFails(s) \/ CheckEpisodes(s),
               lapses' = {}
        PROVE  Orderly'
    <2>1. /\ UNCHANGED <<db, budget>> /\ lapses = {} /\ stage[s].pc # "idle"
          /\ stage'[s].pc = "telling" => stage[s].pc = "telling"
          /\ \A t \in Stages : stage'[t].graph = stage[t].graph /\ stage'[t].scene = stage[t].scene
          /\ \A t \in Stages : t # s => stage'[t] = stage[t]
      BY <1>0, <1>3 DEF AbortTelling, ModelFails, CheckEpisodes, IsStage, StageStates
    <2> QED
      BY <2>1 DEF Orderly
  <1>4. ASSUME NEW s \in Stages, NEW told \in Tellings, Tell(s, told), lapses' = {}
        PROVE  Orderly'
    <2>1. PICK delta \in Deltas(stage[s].graph, told, stage[s].scene), r \in StageStates :
             /\ stage' = [stage EXCEPT ![s] = r]
             /\ Refuses(s, r) \/ Writes(s, told, delta, r)
      BY <1>4, TellIs
    <2>2. stage[s].pc = "telling" /\ budget' = budget
      BY <1>4, TellIs
    <2>3. lapses = {} /\ (Writes(s, told, delta, r) => LapsesOf(told) = {})
      BY <1>4, <2>1 DEF Refuses, Writes
    <2>4. /\ stage'[s] = r /\ budget.starts # MaxTellings
          /\ \A t \in Stages : t # s => stage'[t] = stage[t] /\ stage'[t].pc = "idle"
      BY <1>0, <2>1, <2>2, <2>3 DEF Orderly
    <2>5. /\ stage[s].graph = db /\ Past(db, stage[s].scene) /\ NoRivals(db)
          /\ stage[s].scene \in 1 .. NumScenes
      BY <1>0, <2>2, <2>3 DEF Orderly, IsStage
    <2>6. CASE Refuses(s, r)
      BY <2>2, <2>4, <2>5, <2>6 DEF Orderly, Refuses
    <2>7. CASE Writes(s, told, delta, r)
      <3>1. /\ Folded(s, delta) \in Graphs
            /\ Follows(db, Folded(s, delta), stage[s].scene)
        BY <2>2, <2>5, SceneIs DEF Folded
      <3>2. db' = Folded(s, delta) /\ r.graph = Folded(s, delta) /\ r.scene = stage[s].scene + 1
        BY <1>0, <2>5, <2>7, <3>1, WritesFollow DEF Writes
      <3>3. NoRivals(Folded(s, delta))
        BY <1>0, <2>3, <2>5, <2>7, FoldNoRivals DEF Folded
      <3>4. Past(Folded(s, delta), stage[s].scene + 1)
        <4>1. ASSUME NEW e \in DOMAIN Folded(s, delta)
              PROVE  /\ e.scene < stage[s].scene + 1
                     /\ \/ Folded(s, delta)[e] = Nil
                        \/ Folded(s, delta)[e] < stage[s].scene + 1
          <5>1. /\ e.scene \in Nat /\ stage[s].scene \in Nat /\ DOMAIN db \subseteq Edges
                /\ Folded(s, delta)[e] = Nil \/ Folded(s, delta)[e] \in Nat
            <6>1. e \in Edges /\ Folded(s, delta)[e] \in {Nil} \cup (0 .. NumScenes)
              BY <3>1, GraphForm
            <6> QED
              BY <1>0, <2>5, <6>1, EdgeType, GraphForm DEF IsSound
          <5>2. CASE e \in DOMAIN db
            BY <2>5, <3>1, <5>1, <5>2 DEF Follows, Past
          <5>3. CASE e \notin DOMAIN db
            BY <3>1, <5>1, <5>3 DEF Follows
          <5> QED
            BY <5>2, <5>3
        <4> QED
          BY <4>1 DEF Past
      <3> QED
        BY <2>2, <2>4, <3>2, <3>3, <3>4 DEF Orderly
    <2> QED
      BY <2>1, <2>6, <2>7
  <1>5. ASSUME NEW s \in Stages, NEW told \in Tellings, Tear(s, told)
        PROVE  lapses' # {}
    BY <1>5 DEF Tear
  <1>6. CASE WorldNext
    <2>1. PICK s \in Stages :
             \/ BeginTelling(s) \/ AbortTelling(s) \/ ModelFails(s) \/ CheckEpisodes(s)
             \/ \E told \in Tellings : Tell(s, told) \/ Tear(s, told)
      BY <1>6 DEF WorldNext
    <2>2. CASE lapses' = {}
      BY <2>1, <2>2, <1>2, <1>3, <1>4, <1>5
    <2> QED
      BY <2>2 DEF Orderly
  <1> QED
    BY <1>1, <1>6 DEF worldVars

\* A series that is told once, in order and to its end, from a beginning that is consistent,
\* whose scenes report where people and things go and do so once for each, has everybody in
\* one place and every thing in one hand, at every moment (fold-state-delta.ts).
THEOREM OrderlyTellingIsKept ==
    ASSUME BeforeIsConsistent
    PROVE  WorldSpec => []OrderlyTellingIsConsistent
PROOF
  <1>1. WorldInit => WorldInv /\ Orderly
    BY WorldInvInit, OrderlyInit
  <1>2. WorldInv /\ Orderly /\ [WorldNext]_worldVars => (WorldInv /\ Orderly)'
    BY WorldInvStep, OrderlyStep
  <1>3. WorldInv /\ Orderly => OrderlyTellingIsConsistent
    BY NoRivalsOnePlace DEF WorldInv, Orderly, OrderlyTellingIsConsistent
  <1> QED
    BY <1>1, <1>2, <1>3, PTL DEF WorldSpec
=============================================================================
