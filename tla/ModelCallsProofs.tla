-------------------------- MODULE ModelCallsProofs --------------------------
(***************************************************************************)
(* Proofs about ModelCalls, for any models, prices, settings and bounds.   *)
(*                                                                         *)
(* Two invariants.  Inv says what a call has sent and quoted, and depends  *)
(* on no route.  CourseInv says where on its route a call is, and rests on *)
(* what the route computes: a filter, a sort and a deduplication, each of  *)
(* which keeps only what it may (FoldLemmas, and the first part here).     *)
(***************************************************************************)
EXTENDS ModelCalls, FoldLemmas, FiniteSetTheorems, SequenceTheorems

-----------------------------------------------------------------------------
\* The route: what its sort, its filters and its deduplication leave.

Sorted(policy, T) ==
    {models \in SetToSeqs(T) :
        \A i, j \in DOMAIN models : i < j => MayPrecede(policy, models[i], models[j])}

\* Models with a price can be sorted by it, either way.
LEMMA SortedExists ==
    ASSUME NEW policy, NEW S \in SUBSET Catalogue
    PROVE  Sorted(policy, S) # {}
PROOF
  <1> DEFINE before == {p \in S \X S : MayPrecede(policy, p[1], p[2])}
  <1>1. IsFiniteSet(S) /\ \A m \in S : Price[m] \in Nat
    BY CatalogueAssumption, FS_Subset
  <1>2. \A a, b \in S : <<a, b>> \in before <=> MayPrecede(policy, a, b)
    OBVIOUS
  <1> HIDE DEF before
  <1>3. IsOrderOf(before, S)
    BY <1>1, <1>2 DEF IsOrderOf, MayPrecede
  <1>4. PICK models : models \in SortedBy(before, S)
    BY <1>1, <1>3, CanBeSorted
  <1>5. models \in Sorted(policy, S)
    <2>1. models \in SetToSeqs(S) /\ \A i \in DOMAIN models : models[i] \in S
      BY <1>4 DEF SortedBy, SetToSeqs
    <2> QED
      BY <1>2, <1>4, <2>1 DEF SortedBy, Sorted
  <1> QED
    BY <1>5

LEMMA CatalogueIsSorted ==
    ASSUME NEW s \in Setting
    PROVE  FromCatalogue(s) \in Sorted(s.policy, Catalogue \cap s.capable)
PROOF
  <1>1. PICK models : models \in Sorted(s.policy, Catalogue \cap s.capable)
    BY SortedExists
  <1> QED
    BY <1>1 DEF FromCatalogue, Sorted

-----------------------------------------------------------------------------
\* What may be asked, in what order.

LEMMA CandidatesAreModels ==
    ASSUME NEW s \in Setting
    PROVE  Candidates(s) \in Seq(Models)
PROOF
  <1>1. Optional(s.stage) \in Seq(Models) /\ Optional(s.task) \in Seq(Models) /\ s.rule \in Seq(Models)
    BY DEF Setting, Optional
  <1>2. FromCatalogue(s) \in Seq(Models)
    <2>1. FromCatalogue(s) \in [1 .. Cardinality(Catalogue \cap s.capable) -> Models]
      BY CatalogueIsSorted, CatalogueAssumption DEF Sorted, SetToSeqs
    <2>2. Cardinality(Catalogue \cap s.capable) \in Nat
      BY CatalogueAssumption, FS_Subset, FS_CardinalityType
    <2>3. FromCatalogue(s) \in UNION {[1 .. n -> Models] : n \in Nat}
      BY <2>1, <2>2
    <2> QED
      BY <2>3, SeqDef, Zenon
  <1> QED
    BY <1>1, <1>2 DEF Candidates

MayAsk(s, m) ==
    /\ m \in s.capable
    /\ s.stage # NoModel /\ s.pinned => m = s.stage
    /\ ~IsPinned(s) => IsAffordable(s, m)

LEMMA ChainIsChosen ==
    ASSUME NEW s \in Setting
    PROVE  /\ Chain(s) \in Seq({m \in Models : MayAsk(s, m)})
           /\ Distinct(Chain(s))
PROOF
  <1>1. CASE IsPinned(s)
    <2>1. <<s.stage>> \in Seq({s.stage}) /\ Distinct(<<s.stage>>) /\ s.stage \in Models
      BY <1>1 DEF Distinct, IsPinned, Setting
    <2>2. Chain(s) \in Seq({s.stage} \cap s.capable) /\ Distinct(Chain(s))
      BY <1>1, <2>1, FilterKeeps DEF Chain
    <2>3. {s.stage} \cap s.capable \subseteq {m \in Models : MayAsk(s, m)}
      BY <1>1, <2>1 DEF MayAsk
    <2> QED
      BY <2>2, <2>3, SeqMonotonic
  <1>2. CASE ~IsPinned(s)
    <2> DEFINE able == {m \in s.capable : IsAffordable(s, m)}
               kept == Filter(Candidates(s), able)
    <2>1. kept \in Seq(Models \cap able)
      BY CandidatesAreModels, FilterKeeps
    <2>2. Dedupe(kept) \in Seq(Models \cap able) /\ Distinct(Dedupe(kept))
      <3> HIDE DEF kept
      <3> QED
        BY <2>1, DedupeKeeps
    <2>3. Chain(s) = Dedupe(kept)
      BY <1>2 DEF Chain
    <2>4. Models \cap able \subseteq {m \in Models : MayAsk(s, m)}
      BY <1>2 DEF MayAsk, IsPinned
    <2> QED
      BY <2>2, <2>3, <2>4, SeqMonotonic
  <1> QED
    BY <1>1, <1>2

\* The walk of a structured call: backend by backend, link by link.
Walk(s) ==
    /\ Backends(s) \in Seq(Seq(Models))
    /\ \A b \in DOMAIN Backends(s) :
          /\ 1 \in DOMAIN Backends(s)[b]
          /\ s.way = "routed" => b = 1 /\ Len(Backends(s)) = 1 /\ Backends(s)[b] = Chain(s)
          /\ s.way = "stage" => Len(Backends(s)[b]) = 1
          /\ \A l \in DOMAIN Backends(s)[b] :
                /\ MayAsk(s, Backends(s)[b][l])
                /\ s.way = "stage" => Backends(s)[b][l] \in s.structured
    /\ \A b, c \in DOMAIN Backends(s) :
          \A l \in DOMAIN Backends(s)[b], k \in DOMAIN Backends(s)[c] :
             Backends(s)[b][l] = Backends(s)[c][k] => b = c /\ l = k

LEMMA BackendsAreAWalk ==
    ASSUME NEW s \in Setting
    PROVE  Walk(s)
PROOF
  <1> DEFINE May == {m \in Models : MayAsk(s, m)}
             chain == Chain(s)
  <1>1. chain \in Seq(May) /\ Distinct(chain) /\ Len(chain) \in Nat /\ DOMAIN chain = 1 .. Len(chain)
    BY ChainIsChosen
  <1>2. \A l \in DOMAIN chain : chain[l] \in Models /\ MayAsk(s, chain[l])
    BY <1>1
  <1>3. chain \in Seq(Models)
    BY <1>1, SeqMonotonic
  <1>4. CASE s.way = "routed"
    <2>1. Backends(s) = IF chain = <<>> THEN <<>> ELSE <<chain>>
      BY <1>4 DEF Backends
    <2>2. CASE chain = <<>>
      BY <2>1, <2>2 DEF Walk
    <2>3. CASE chain # <<>>
      <3>1. 1 \in DOMAIN chain
        BY <1>1, <2>3
      <3>2. /\ Backends(s) = <<chain>> /\ Len(Backends(s)) = 1 /\ DOMAIN Backends(s) = {1}
            /\ Backends(s)[1] = chain
        BY <2>1, <2>3
      <3> HIDE DEF chain
      <3>3. Backends(s) \in Seq(Seq(Models))
        BY <1>3, <3>2
      <3>4. s.way # "stage"
        BY <1>4
      <3> QED
        BY <1>1, <1>2, <1>4, <3>1, <3>2, <3>3, <3>4 DEF Walk, Distinct, chain
    <2> QED
      BY <2>2, <2>3
  <1>5. CASE s.way = "stage"
    <2> DEFINE able == Filter(chain, s.structured)
    <2>1. able \in Seq(May \cap s.structured) /\ Distinct(able)
      <3> HIDE DEF chain
      <3> QED
        BY <1>1, FilterKeeps
    <2>2. Backends(s) = [i \in DOMAIN able |-> <<able[i]>>]
      BY <1>5 DEF Backends
    <2> HIDE DEF able
    <2>3. /\ Len(able) \in Nat /\ DOMAIN able = 1 .. Len(able)
          /\ \A i \in DOMAIN able : able[i] \in May /\ able[i] \in s.structured
      BY <2>1
    <2>4. \A i \in DOMAIN able : /\ Backends(s)[i] = <<able[i]>> /\ <<able[i]>> \in Seq(Models)
                                 /\ Len(<<able[i]>>) = 1 /\ DOMAIN <<able[i]>> = {1}
                                 /\ Backends(s)[i][1] = able[i]
      BY <2>2, <2>3
    <2>5. DOMAIN Backends(s) = DOMAIN able /\ Backends(s) \in Seq(Seq(Models))
      BY <2>2, <2>3, <2>4
    <2>6. s.way # "routed"
      BY <1>5
    <2>7. \A b, c \in DOMAIN able : able[b] = able[c] => b = c
      BY <2>1 DEF Distinct
    <2>8. \A b \in DOMAIN able, l \in {1} :
             MayAsk(s, Backends(s)[b][l]) /\ Backends(s)[b][l] \in s.structured
      BY <2>3, <2>4
    <2>9. \A b, c \in DOMAIN able : \A l, k \in {1} :
             Backends(s)[b][l] = Backends(s)[c][k] => b = c /\ l = k
      BY <2>4, <2>7
    <2>10. \A b \in DOMAIN able : DOMAIN Backends(s)[b] = {1} /\ Len(Backends(s)[b]) = 1
      BY <2>4
    <2> QED
      BY <2>5, <2>6, <2>8, <2>9, <2>10 DEF Walk
  <1>6. s.way = "routed" \/ s.way = "stage"
    BY DEF Setting
  <1> QED
    BY <1>4, <1>5, <1>6

-----------------------------------------------------------------------------
\* Where a structured call is, and what it has sent so far.

\* The requests that can have been sent before this turn, and all that can be sent.
Turns(s, c) ==
    IF s.way = "routed"
    THEN c.repair * (MaxAttempts * Len(Chain(s))) + (c.link - 1) * MaxAttempts + (c.attempt - 1)
    ELSE (c.b - 1) * (MaxRepairs + 1) + c.repair

\* The models the walk has left behind.
Behind(s, b, link) ==
    {Backends(s)[u[1]][u[2]] : u \in
        {w \in (1 .. b) \X Nat : /\ w[1] \in DOMAIN Backends(s) /\ w[2] \in DOMAIN Backends(s)[w[1]]
                                 /\ w[1] < b \/ w[2] < link}}

Placed(s, c) ==
    /\ c.pc \in {"asking", "waiting", "out"}
    /\ c.b \in DOMAIN Backends(s) /\ c.link \in DOMAIN Backends(s)[c.b]
    /\ c.repair \in 0 .. MaxRepairs /\ c.attempt \in 1 .. MaxAttempts
    /\ c.tries \in Nat /\ c.tries <= Turns(s, c) + (IF c.pc = "out" THEN 1 ELSE 0)
    /\ c.given \subseteq Behind(s, c.b, c.link)

\* The numbers, whatever the walk.
LEMMA PlaceNumbers ==
    ASSUME NEW s \in Setting, NEW b \in DOMAIN Backends(s), NEW l \in DOMAIN Backends(s)[b]
    PROVE  /\ b \in Nat /\ 1 <= b /\ b <= Len(Backends(s)) /\ Len(Backends(s)) \in Nat
           /\ l \in Nat /\ 1 <= l /\ l <= Len(Backends(s)[b]) /\ Len(Backends(s)[b]) \in Nat
           /\ s.way = "routed" =>
                 /\ b = 1 /\ Len(Backends(s)) = 1
                 /\ Len(Backends(s)[b]) = Len(Chain(s)) /\ Len(Chain(s)) \in Nat
           /\ s.way = "stage" => l = 1 /\ Len(Backends(s)[b]) = 1
PROOF
  <1>1. Walk(s)
    BY BackendsAreAWalk
  <1>2. Backends(s) \in Seq(Seq(Models)) /\ Backends(s)[b] \in Seq(Models)
    BY <1>1 DEF Walk
  <1>3. /\ s.way = "routed" => b = 1 /\ Len(Backends(s)) = 1 /\ Backends(s)[b] = Chain(s)
        /\ s.way = "stage" => Len(Backends(s)[b]) = 1
    BY <1>1 DEF Walk
  <1> QED
    BY <1>2, <1>3

\* A product grows with its factor.
LEMMA Grows ==
    ASSUME NEW i \in Nat, NEW j \in Nat, NEW d \in Nat, i < j
    PROVE  i * d \in Nat /\ j * d \in Nat /\ i * d + d <= j * d /\ (i + 1) * d = i * d + d
PROOF
  <1>1. PICK e \in Nat : j = (i + 1) + e
    <2>1. j - (i + 1) \in Nat /\ j = (i + 1) + (j - (i + 1))
      OBVIOUS
    <2> QED
      BY <2>1
  <1>2. j * d = (i + 1) * d + e * d /\ (i + 1) * d = i * d + d
    BY <1>1
  <1>3. i * d \in Nat /\ e * d \in Nat
    OBVIOUS
  <1> QED
    BY <1>2, <1>3

\* No turn is beyond what can be sent.
LEMMA TurnsAreBounded ==
    ASSUME NEW s \in Setting, NEW c, Placed(s, c)
    PROVE  Turns(s, c) \in Nat /\ Turns(s, c) + 1 <= Most(s) /\ Most(s) \in Nat
PROOF
  <1>1. /\ MaxRepairs \in Nat /\ MaxAttempts \in Nat \ {0}
        /\ c.repair \in Nat /\ c.repair <= MaxRepairs
        /\ c.attempt \in Nat /\ 1 <= c.attempt /\ c.attempt <= MaxAttempts
    BY BoundsAssumption DEF Placed
  <1>2. /\ c.b \in Nat /\ 1 <= c.b /\ c.b <= Len(Backends(s)) /\ Len(Backends(s)) \in Nat
        /\ c.link \in Nat /\ 1 <= c.link /\ c.link <= Len(Backends(s)[c.b])
        /\ s.way = "routed" => Len(Backends(s)[c.b]) = Len(Chain(s)) /\ Len(Chain(s)) \in Nat
    BY PlaceNumbers DEF Placed
  <1>3. CASE s.way = "routed"
    <2> DEFINE n == Len(Chain(s))
               all == MaxAttempts * n
               before == (c.link - 1) * MaxAttempts
    <2>1. n \in Nat /\ c.link - 1 \in Nat /\ c.link - 1 < n
      BY <1>2, <1>3
    <2> HIDE DEF n
    <2>2. /\ before \in Nat /\ before + MaxAttempts <= n * MaxAttempts
          /\ n * MaxAttempts = all /\ all \in Nat
      BY <1>1, <2>1, Grows
    <2> HIDE DEF before, all
    <2>3. /\ c.repair * all \in Nat /\ c.repair * all + all <= (MaxRepairs + 1) * all
          /\ (MaxRepairs + 1) * all \in Nat
      BY <1>1, <2>2, Grows
    <2>4. Turns(s, c) = c.repair * all + before + (c.attempt - 1)
      BY <1>3 DEF Turns, all, before, n
    <2>5. Most(s) = (MaxRepairs + 1) * all
      BY <1>3 DEF Most, all, n
    <2> DEFINE x == c.repair * all
               y == (MaxRepairs + 1) * all
               z == n * MaxAttempts
    <2> HIDE DEF x, y, z
    <2> QED
      BY <1>1, <2>2, <2>3, <2>4, <2>5 DEF x, y, z
  <1>4. CASE s.way # "routed"
    <2> DEFINE before == (c.b - 1) * (MaxRepairs + 1)
               all == (MaxRepairs + 1) * Len(Backends(s))
    <2>1. /\ before \in Nat /\ before + (MaxRepairs + 1) <= Len(Backends(s)) * (MaxRepairs + 1)
          /\ Len(Backends(s)) * (MaxRepairs + 1) = all /\ all \in Nat
      <3>1. c.b - 1 \in Nat /\ c.b - 1 < Len(Backends(s)) /\ MaxRepairs + 1 \in Nat
        BY <1>1, <1>2
      <3> QED
        BY <1>2, <3>1, Grows, SMTT(30)
    <2>2. Turns(s, c) = before + c.repair /\ Most(s) = all
      BY <1>4 DEF Turns, Most
    <2> HIDE DEF before, all
    <2> QED
      BY <1>1, <2>1, <2>2
  <1> QED
    BY <1>3, <1>4

\* The next attempt, the next link, the next repair and the next backend: each is a turn
\* that was not there before.
LEMMA NextAttemptTurns ==
    ASSUME NEW s \in Setting, NEW c, Placed(s, c), NEW d,
           d.pc \in {"asking", "waiting"}, d.tries = c.tries, s.way = "routed",
           d.b = c.b, d.link = c.link, d.repair = c.repair, d.given = c.given,
           d.attempt = c.attempt + 1, c.attempt < MaxAttempts
    PROVE  Placed(s, d)
PROOF
  <1>1. Turns(s, d) = Turns(s, c) + 1 /\ Turns(s, c) \in Nat
    <2>1. c.attempt \in Nat
      BY BoundsAssumption DEF Placed
    <2> DEFINE x == c.repair * (MaxAttempts * Len(Chain(s))) + (c.link - 1) * MaxAttempts
    <2>2. Turns(s, c) \in Nat /\ Turns(s, c) = x + (c.attempt - 1) /\ Turns(s, d) = x + ((c.attempt + 1) - 1)
      BY TurnsAreBounded DEF Turns
    <2>3. x \in Int
      <3>1. c.link \in Nat /\ Len(Chain(s)) \in Nat /\ c.repair \in Nat /\ MaxAttempts \in Nat
        BY PlaceNumbers, BoundsAssumption DEF Placed
      <3> QED
        BY <3>1
    <2> HIDE DEF x
    <2> QED
      BY <2>1, <2>2, <2>3
  <1>2. d.attempt \in 1 .. MaxAttempts
    BY BoundsAssumption DEF Placed
  <1> QED
    BY <1>1, <1>2 DEF Placed

LEMMA NextLinkTurns ==
    ASSUME NEW s \in Setting, NEW c, Placed(s, c), NEW d,
           d.pc = "asking", d.tries = c.tries, s.way = "routed",
           d.b = c.b, d.link = c.link + 1, d.repair = c.repair, d.attempt = 1,
           d.given = c.given \cup {Backends(s)[c.b][c.link]},
           c.link < Len(Backends(s)[c.b])
    PROVE  Placed(s, d)
PROOF
  <1>1. /\ c.link \in Nat /\ Len(Chain(s)) \in Nat /\ c.repair \in Nat /\ MaxAttempts \in Nat \ {0}
        /\ c.attempt \in Nat /\ 1 <= c.attempt /\ c.attempt <= MaxAttempts /\ 1 <= c.link
        /\ c.b \in Nat /\ 1 <= c.b
    BY PlaceNumbers, BoundsAssumption DEF Placed
  <1>2. Turns(s, c) + 1 <= Turns(s, d) /\ Turns(s, c) \in Nat /\ Turns(s, d) \in Nat
    <2> DEFINE x == c.repair * (MaxAttempts * Len(Chain(s)))
               y == (c.link - 1) * MaxAttempts
               z == c.link * MaxAttempts
    <2>1. Turns(s, c) \in Nat /\ Turns(s, c) = x + y + (c.attempt - 1)
      BY TurnsAreBounded DEF Turns
    <2>2. Turns(s, d) = x + z + 0
      BY <1>1 DEF Turns
    <2>3. z = y + MaxAttempts /\ y \in Nat
      <3>1. c.link - 1 \in Nat /\ c.link - 1 < c.link /\ (c.link - 1) + 1 = c.link
        BY <1>1
      <3> QED
        BY <1>1, <3>1, Grows, SMTT(30)
    <2>4. x \in Nat
      BY <1>1
    <2> HIDE DEF x, y, z
    <2> QED
      BY <1>1, <2>1, <2>2, <2>3, <2>4
  <1>3. d.link \in DOMAIN Backends(s)[c.b] /\ d.attempt \in 1 .. MaxAttempts
    <2>1. Backends(s)[c.b] \in Seq(Models)
      BY BackendsAreAWalk DEF Walk, Placed
    <2> QED
      BY <1>1, <2>1
  <1>4. d.given \subseteq Behind(s, c.b, c.link + 1)
    <2>1. Behind(s, c.b, c.link) \subseteq Behind(s, c.b, c.link + 1)
      BY <1>1 DEF Behind
    <2>2. Backends(s)[c.b][c.link] \in Behind(s, c.b, c.link + 1)
      <3> DEFINE u == <<c.b, c.link>>
      <3>1. /\ u \in (1 .. c.b) \X Nat /\ u[1] \in DOMAIN Backends(s)
            /\ u[2] \in DOMAIN Backends(s)[u[1]] /\ u[2] < c.link + 1
        BY <1>1 DEF Placed
      <3> QED
        BY <3>1 DEF Behind
    <2> QED
      BY <2>1, <2>2 DEF Placed
  <1> QED
    BY <1>2, <1>3, <1>4 DEF Placed

LEMMA NextRepairTurns ==
    ASSUME NEW s \in Setting, NEW c, Placed(s, c), NEW d,
           d.pc = "asking", d.tries = c.tries, d.b = c.b, d.link = 1,
           d.repair = c.repair + 1, d.attempt = 1, d.given = {},
           c.repair < MaxRepairs
    PROVE  Placed(s, d)
PROOF
  <1>1. /\ c.link \in Nat /\ c.repair \in Nat /\ MaxAttempts \in Nat \ {0} /\ MaxRepairs \in Nat
        /\ c.attempt \in Nat /\ 1 <= c.attempt /\ c.attempt <= MaxAttempts /\ 1 <= c.link
        /\ c.b \in Nat /\ 1 <= c.b
        /\ s.way = "routed" => Len(Chain(s)) \in Nat /\ c.link <= Len(Chain(s))
    BY PlaceNumbers, BoundsAssumption DEF Placed
  <1>2. Turns(s, c) + 1 <= Turns(s, d) /\ Turns(s, c) \in Nat /\ Turns(s, d) \in Nat
    <2>1. CASE s.way = "routed"
      <3> DEFINE n == Len(Chain(s))
                 all == MaxAttempts * n
                 y == (c.link - 1) * MaxAttempts
                 x == c.repair * all
      <3>1. Turns(s, c) \in Nat /\ Turns(s, c) = x + y + (c.attempt - 1)
        BY <2>1, TurnsAreBounded DEF Turns
      <3>2. Turns(s, d) = (c.repair + 1) * all + 0 * MaxAttempts + 0
        BY <2>1 DEF Turns
      <3>3. n \in Nat /\ c.link - 1 \in Nat /\ c.link - 1 < n
        BY <1>1, <2>1
      <3> HIDE DEF n
      <3>4. y \in Nat /\ y + MaxAttempts <= n * MaxAttempts /\ n * MaxAttempts = all /\ all \in Nat
        BY <1>1, <3>3, Grows, SMTT(30)
      <3> HIDE DEF y, all
      <3>5. x \in Nat /\ (c.repair + 1) * all = x + all
        <4> DEFINE repair == c.repair
        <4>1. repair \in Nat /\ repair + 1 \in Nat /\ repair < repair + 1
          BY <1>1
        <4> HIDE DEF repair
        <4>2. repair * all \in Nat /\ (repair + 1) * all = repair * all + all
          BY <3>4, <4>1, Grows
        <4> QED
          BY <4>2 DEF repair
      <3>6. Turns(s, d) = x + all
        BY <1>1, <3>2, <3>4, <3>5
      <3> DEFINE z == n * MaxAttempts
      <3> HIDE DEF x, z
      <3> QED
        BY <1>1, <3>1, <3>4, <3>5, <3>6 DEF z
    <2>2. CASE s.way # "routed"
      <3> DEFINE x == (c.b - 1) * (MaxRepairs + 1)
      <3>1. Turns(s, c) \in Nat /\ Turns(s, c) = x + c.repair /\ Turns(s, d) = x + (c.repair + 1)
        BY <2>2, TurnsAreBounded DEF Turns
      <3>2. x \in Int
        BY <1>1
      <3> HIDE DEF x
      <3> QED
        BY <1>1, <3>1, <3>2
    <2> QED
      BY <2>1, <2>2
  <1>3. 1 \in DOMAIN Backends(s)[c.b]
    BY BackendsAreAWalk DEF Walk, Placed
  <1> QED
    BY <1>1, <1>2, <1>3 DEF Placed

LEMMA NextBackendTurns ==
    ASSUME NEW s \in Setting, NEW c, Placed(s, c), NEW d,
           d.pc = "asking", d.tries = c.tries, d.b = c.b + 1, d.link = 1,
           d.repair = 0, d.attempt = 1, d.given = c.given \cup {Backends(s)[c.b][c.link]},
           c.b < Len(Backends(s))
    PROVE  Placed(s, d)
PROOF
  <1>1. /\ c.link \in Nat /\ c.repair \in Nat /\ MaxAttempts \in Nat \ {0} /\ MaxRepairs \in Nat
        /\ c.repair <= MaxRepairs
        /\ c.b \in Nat /\ 1 <= c.b /\ Len(Backends(s)) \in Nat
    BY PlaceNumbers, BoundsAssumption DEF Placed
  <1>2. s.way # "routed"
    BY <1>1, PlaceNumbers DEF Placed
  <1>3. Turns(s, c) + 1 <= Turns(s, d) /\ Turns(s, c) \in Nat /\ Turns(s, d) \in Nat
    <2> DEFINE x == (c.b - 1) * (MaxRepairs + 1)
    <2>1. Turns(s, c) \in Nat /\ Turns(s, c) = x + c.repair
      BY <1>2, TurnsAreBounded DEF Turns
    <2>2. Turns(s, d) = c.b * (MaxRepairs + 1) + 0
      BY <1>1, <1>2 DEF Turns
    <2>3. c.b * (MaxRepairs + 1) = x + (MaxRepairs + 1) /\ x \in Nat
      <3> DEFINE m == MaxRepairs + 1
      <3>1. c.b - 1 \in Nat /\ c.b - 1 < c.b /\ (c.b - 1) + 1 = c.b /\ m \in Nat
        BY <1>1
      <3> HIDE DEF m
      <3>2. c.b * m = (c.b - 1) * m + m /\ (c.b - 1) * m \in Nat
        BY <1>1, <3>1, Grows
      <3> QED
        BY <3>2 DEF m
    <2> HIDE DEF x
    <2> QED
      BY <1>1, <2>1, <2>2, <2>3
  <1>4. c.b + 1 \in DOMAIN Backends(s) /\ 1 \in DOMAIN Backends(s)[c.b + 1]
    <2>1. Backends(s) \in Seq(Seq(Models))
      BY BackendsAreAWalk DEF Walk
    <2>2. c.b + 1 \in DOMAIN Backends(s)
      BY <1>1, <2>1
    <2> QED
      BY <2>2, BackendsAreAWalk DEF Walk
  <1>5. d.given \subseteq Behind(s, c.b + 1, 1)
    <2>1. Behind(s, c.b, c.link) \subseteq Behind(s, c.b + 1, 1)
      BY <1>1 DEF Behind
    <2>2. Backends(s)[c.b][c.link] \in Behind(s, c.b + 1, 1)
      <3> DEFINE u == <<c.b, c.link>>
      <3>1. /\ u \in (1 .. c.b + 1) \X Nat /\ u[1] \in DOMAIN Backends(s)
            /\ u[2] \in DOMAIN Backends(s)[u[1]] /\ u[1] < c.b + 1
        BY <1>1 DEF Placed
      <3> QED
        BY <3>1 DEF Behind
    <2> QED
      BY <2>1, <2>2 DEF Placed
  <1> QED
    BY <1>1, <1>3, <1>4, <1>5 DEF Placed

LEMMA NextTurnIsPlaced ==
    ASSUME NEW s \in Setting, NEW c, Placed(s, c), c.b < Len(Backends(s)), s = setting, c = call
    PROVE  Placed(s, NextTurn(c, Backends(s)[c.b + 1]))
PROOF
  <1> DEFINE d == NextTurn(c, Backends(s)[c.b + 1])
  <1>1. /\ d.pc = "asking" /\ d.b = c.b + 1 /\ d.link = 1 /\ d.repair = 0 /\ d.attempt = 1
        /\ d.tries = c.tries /\ d.given = c.given \cup {Backends(s)[c.b][c.link]}
    BY DEF NextTurn, Opening, Asked
  <1> HIDE DEF d
  <1>2. Placed(s, d)
    BY <1>1, NextBackendTurns
  <1> QED
    BY <1>2 DEF d

LEMMA OpeningIsPlaced ==
    ASSUME NEW s \in Setting, Backends(s) # <<>>
    PROVE  Placed(s, Opening(Backends(s)[1], 1, 0))
PROOF
  <1> DEFINE d == Opening(Backends(s)[1], 1, 0)
  <1>1. /\ d.pc = "asking" /\ d.b = 1 /\ d.link = 1 /\ d.repair = 0 /\ d.attempt = 1
        /\ d.tries = 0 /\ d.given = {}
    BY DEF Opening
  <1>2. 1 \in DOMAIN Backends(s) /\ 1 \in DOMAIN Backends(s)[1]
    <2>1. Backends(s) \in Seq(Seq(Models))
      BY BackendsAreAWalk DEF Walk
    <2>2. 1 \in DOMAIN Backends(s)
      BY <2>1
    <2> QED
      BY <2>2, BackendsAreAWalk DEF Walk
  <1> HIDE DEF d
  <1>3. MaxRepairs \in Nat /\ MaxAttempts \in Nat \ {0}
    BY BoundsAssumption
  <1>4. Turns(s, d) \in Nat
    <2>1. s.way = "routed" => Len(Chain(s)) \in Nat
      BY <1>2, PlaceNumbers
    <2>2. s.way = "routed" => Turns(s, d) = 0 * (MaxAttempts * Len(Chain(s))) + 0 * MaxAttempts + 0
      BY <1>1 DEF Turns
    <2>3. s.way # "routed" => Turns(s, d) = 0 * (MaxRepairs + 1) + 0
      BY <1>1 DEF Turns
    <2> QED
      BY <1>3, <2>1, <2>2, <2>3
  <1>5. Placed(s, d)
    BY <1>1, <1>2, <1>3, <1>4 DEF Placed
  <1> QED
    BY <1>5 DEF d

-----------------------------------------------------------------------------
\* The stage and the wire.

Row == {"none", "estimate", "traces"}

\* While a stage is going on it has no row of traces yet; whatever was read is counted, for
\* a row that may come; and a request that leaves after a cancel is never begun, where
\* requests have the signal.
Counted ==
    /\ stage.used \in Nat /\ wire.read \in Nat
    /\ stage = [pc |-> stage.pc, left |-> stage.left, used |-> stage.used, row |-> stage.row]
    /\ wire = [read |-> wire.read, late |-> wire.late]
    /\ stage.used = wire.read
    /\ wire.late \in 0 .. 1 /\ (setting.signal => wire.late = 0)

\* A call in progress has all its fields.  One of a story stage stays at the only model of
\* its backend, and quotes no other.
Talking ==
    /\ call = [pc |-> call.pc, b |-> call.b, repair |-> call.repair, link |-> call.link,
               attempt |-> call.attempt, dialect |-> call.dialect, quoted |-> call.quoted,
               given |-> call.given, tries |-> call.tries]
    /\ setting.way = "stage" => call.link = 1 /\ call.quoted \in Seq({Asked})

Inv == Counted /\ (call = NoCall \/ Talking)

\* The pc of what is not a call is none of those that an action asks for.
LEMMA NoCallIsIdle == NoCall.pc = "none"
  BY DEF NoCall

LEMMA OpeningTalks ==
    ASSUME NEW backend, NEW b, NEW tries, call' = Opening(backend, b, tries),
           setting' = setting
    PROVE  Talking'
PROOF
  <1>1. /\ call'.link = 1 /\ call'.quoted = <<>>
        /\ call' = [pc |-> call'.pc, b |-> call'.b, repair |-> call'.repair,
                    link |-> call'.link, attempt |-> call'.attempt,
                    dialect |-> call'.dialect, quoted |-> call'.quoted,
                    given |-> call'.given, tries |-> call'.tries]
    BY DEF Opening
  <1>2. <<>> \in Seq({Asked'})
    OBVIOUS
  <1> QED
    BY <1>1, <1>2 DEF Talking

\* An error leaves what was counted alone; it goes on with the call, with another, or ends it.
LEMMA ErrsInv ==
    ASSUME Inv, call # NoCall, NEW kind, Errs(kind), setting' = setting
    PROVE  /\ stage'.used = stage.used
           /\ stage' = [pc |-> stage'.pc, left |-> stage'.left, used |-> stage'.used,
                        row |-> stage'.row]
           /\ call' = NoCall \/ Talking'
PROOF
  <1>1. Counted /\ Talking
    BY DEF Inv
  <1>2. CASE setting.way = "routed" /\ MayRetry(kind)
    <2>1. /\ call' = [call EXCEPT !.pc = "waiting", !.attempt = NextAttempt(@)]
          /\ UNCHANGED stage
      BY <1>2 DEF Errs
    <2> QED
      BY <1>1, <1>2, <2>1 DEF Counted, Talking
  <1>3. CASE /\ ~(setting.way = "routed" /\ MayRetry(kind))
             /\ setting.way = "routed" /\ FailsOver(kind)
             /\ call.link < Len(Backends(setting)[call.b])
    <2>1. /\ call' = [call EXCEPT !.pc = "asking", !.link = @ + 1, !.attempt = 1,
                                  !.given = @ \cup {Asked}]
          /\ UNCHANGED stage
      BY <1>3 DEF Errs
    <2> QED
      BY <1>1, <1>3, <2>1 DEF Counted, Talking
  <1>4. CASE Escalates(kind)
    <2>1. CASE call.b < Len(Backends(setting))
      <3>1. call' = NextTurn(call, Backends(setting)[call.b + 1]) /\ UNCHANGED stage
        BY <1>4, <2>1 DEF Escalates
      <3> DEFINE new == Opening(Backends(setting)[call.b + 1], call.b + 1, call.tries)
      <3>2. call' = [new EXCEPT !.given = call.given \cup {Asked}]
        BY <3>1 DEF NextTurn
      <3>3. /\ call'.link = 1 /\ call'.quoted = <<>>
            /\ call' = [pc |-> call'.pc, b |-> call'.b, repair |-> call'.repair,
                        link |-> call'.link, attempt |-> call'.attempt,
                        dialect |-> call'.dialect, quoted |-> call'.quoted,
                        given |-> call'.given, tries |-> call'.tries]
        BY <3>2 DEF Opening
      <3>4. <<>> \in Seq({Asked'})
        OBVIOUS
      <3> QED
        BY <1>1, <3>1, <3>3, <3>4 DEF Counted, Talking
    <2>2. CASE ~(call.b < Len(Backends(setting)))
      BY <1>1, <1>4, <2>2 DEF Escalates, Fails, Counted
    <2> QED
      BY <2>1, <2>2
  <1> QED
    BY <1>2, <1>3, <1>4 DEF Errs

-----------------------------------------------------------------------------
\* The actions.

LEMMA BeginInv ==
    ASSUME Inv, Begin \/ Refuse
    PROVE  Inv'
PROOF
  <1>1. UNCHANGED <<setting, wire>> /\ Counted'
    BY DEF Inv, Counted, Begin, Refuse
  <1>2. CASE UNCHANGED call
    BY <1>1, <1>2 DEF Inv, Talking, Asked
  <1>3. CASE call' = Opening(Backends(setting)[1], 1, 0)
    BY <1>1, <1>3, OpeningTalks DEF Inv
  <1> QED
    BY <1>1, <1>2, <1>3 DEF Begin, Refuse

LEMMA WaitInv ==
    ASSUME Inv, Wait
    PROVE  Inv'
PROOF
  <1>1. /\ call # NoCall /\ call' = [call EXCEPT !.pc = "asking"]
        /\ UNCHANGED <<setting, stage, wire>>
    BY NoCallIsIdle DEF Wait
  <1> QED
    BY <1>1 DEF Inv, Counted, Talking, Asked

LEMMA SendInv ==
    ASSUME Inv, Send
    PROVE  Inv'
PROOF
  <1>1. call # NoCall /\ UNCHANGED <<setting, cancelled>>
    BY NoCallIsIdle DEF Send
  <1>2. CASE (\E kind \in {"cancelled", "local", "unsupported"} : Errs(kind)) /\ UNCHANGED wire
    <2>1. /\ stage'.used = stage.used
          /\ stage' = [pc |-> stage'.pc, left |-> stage'.left, used |-> stage'.used,
                       row |-> stage'.row]
          /\ call' = NoCall \/ Talking'
      BY <1>1, <1>2, ErrsInv
    <2> QED
      BY <1>1, <1>2, <2>1 DEF Inv, Counted
  <1>3. CASE /\ ~(cancelled /\ setting.signal) /\ UNCHANGED stage
             /\ call' = [call EXCEPT !.pc = "out", !.tries = Min({@, Most(setting)}) + 1]
             /\ wire' = [wire EXCEPT !.late = IF cancelled THEN 1 ELSE @]
    <2>1. Counted'
      BY <1>1, <1>3 DEF Inv, Counted
    <2>2. Talking'
      BY <1>1, <1>3 DEF Inv, Talking, Asked
    <2> QED
      BY <2>1, <2>2 DEF Inv
  <1> QED
    BY <1>2, <1>3 DEF Send, IsStopped

LEMMA ErrorInv ==
    ASSUME Inv, TornDown \/ ErrorAnswers
    PROVE  Inv'
PROOF
  <1>1. /\ call # NoCall /\ UNCHANGED <<setting, wire>>
        /\ \E kind \in {"cancelled", "refused", "failed"} : Errs(kind)
    BY NoCallIsIdle DEF TornDown, ErrorAnswers
  <1>2. /\ stage'.used = stage.used
        /\ stage' = [pc |-> stage'.pc, left |-> stage'.left, used |-> stage'.used,
                     row |-> stage'.row]
        /\ call' = NoCall \/ Talking'
    BY <1>1, ErrsInv
  <1> QED
    BY <1>1, <1>2 DEF Inv, Counted

LEMMA AnswersInv ==
    ASSUME Inv, Answers
    PROVE  Inv'
PROOF
  <1>1. /\ call # NoCall /\ Counted /\ Talking /\ setting' = setting
        /\ wire' = [wire EXCEPT !.read = @ + 1]
    BY NoCallIsIdle DEF Answers, Inv
  <1>2. /\ wire'.read = wire.read + 1 /\ wire'.late = wire.late
        /\ wire' = [read |-> wire'.read, late |-> wire'.late]
    BY <1>1 DEF Counted
  <1>3. /\ stage'.used = stage.used + 1
        /\ stage' = [pc |-> stage'.pc, left |-> stage'.left, used |-> stage'.used,
                     row |-> stage'.row]
    BY <1>1 DEF Answers, Accepted, Unusable, Repairs, UsageOf, Counted
  <1>4. Counted'
    BY <1>1, <1>2, <1>3 DEF Counted
  <1>5. CASE Accepted
    <2>1. call' = NoCall \/ call' = Opening(Backends(setting)[1], 1, 0)
      BY <1>5 DEF Accepted
    <2> QED
      BY <1>1, <1>4, <2>1, OpeningTalks DEF Inv
  <1>6. CASE Unusable
    <2>1. CASE Repairs
      <3>1. call' = [call EXCEPT !.pc = "asking", !.repair = @ + 1, !.link = 1,
                                 !.attempt = 1, !.quoted = Append(@, Asked), !.given = {}]
        BY <2>1 DEF Repairs
      <3>2. /\ call'.b = call.b /\ call'.link = 1 /\ call'.quoted = Append(call.quoted, Asked)
            /\ call' = [pc |-> call'.pc, b |-> call'.b, repair |-> call'.repair,
                        link |-> call'.link, attempt |-> call'.attempt,
                        dialect |-> call'.dialect, quoted |-> call'.quoted,
                        given |-> call'.given, tries |-> call'.tries]
        BY <1>1, <3>1 DEF Talking
      <3>3. setting.way = "stage" => Asked' = Asked /\ call'.quoted \in Seq({Asked})
        BY <1>1, <3>2 DEF Talking, Asked
      <3>4. Talking'
        BY <1>1, <3>2, <3>3 DEF Talking
      <3> QED
        BY <1>4, <3>4 DEF Inv
    <2>2. CASE call' = NextTurn(call, Backends(setting)[call.b + 1])
      <3> DEFINE new == Opening(Backends(setting)[call.b + 1], call.b + 1, call.tries)
      <3>1. call' = [new EXCEPT !.given = call.given \cup {Asked}]
        BY <2>2 DEF NextTurn
      <3>2. /\ call'.link = 1 /\ call'.quoted = <<>>
            /\ call' = [pc |-> call'.pc, b |-> call'.b, repair |-> call'.repair,
                        link |-> call'.link, attempt |-> call'.attempt,
                        dialect |-> call'.dialect, quoted |-> call'.quoted,
                        given |-> call'.given, tries |-> call'.tries]
        BY <3>1 DEF Opening
      <3>3. <<>> \in Seq({Asked'})
        OBVIOUS
      <3> QED
        BY <1>4, <3>2, <3>3 DEF Inv, Talking
    <2>3. CASE call' = NoCall
      BY <1>4, <2>3 DEF Inv
    <2> QED
      BY <1>6, <2>1, <2>2, <2>3 DEF Unusable
  <1> QED
    BY <1>5, <1>6 DEF Answers

LEMMA BreaksOffInv ==
    ASSUME Inv, BreaksOff
    PROVE  Inv'
PROOF
  <1>1. UNCHANGED <<setting, wire>> /\ Counted'
    BY DEF Inv, Counted, BreaksOff
  <1>2. call' = NoCall \/ UNCHANGED call
    BY DEF BreaksOff
  <1> QED
    BY <1>1, <1>2 DEF Inv, Talking, Asked

LEMMA NextInv ==
    ASSUME Inv, [Next]_vars
    PROVE  Inv'
PROOF
  <1>1. CASE Cancel \/ UNCHANGED vars
    BY <1>1 DEF Cancel, vars, Inv, Counted, Talking, Asked
  <1> QED
    BY <1>1, BeginInv, WaitInv, SendInv, ErrorInv, AnswersInv, BreaksOffInv
       DEF Next, Work

LEMMA Invariance == Spec => []Inv
PROOF
  <1>1. Init => Inv
    BY DEF Init, Inv, Counted
  <1>2. Inv /\ [Next]_vars => Inv'
    BY NextInv
  <1> QED
    BY <1>1, <1>2, PTL DEF Spec

-----------------------------------------------------------------------------
\* The course of a stage: every call it makes is somewhere on the walk.

Going ==
    /\ setting \in Settings /\ cancelled \in BOOLEAN
    /\ stage.pc \in {"idle", "calling", "succeeded", "failed"}
    /\ stage.left \in 0 .. Calls /\ stage.row \in Row
    /\ stage.pc \in {"idle", "calling"} => stage.left \in 1 .. Calls
    /\ (stage.pc = "calling") <=> (call # NoCall)
    /\ call # NoCall => Placed(setting, call)

CourseInv == Inv /\ Going

\* A stage that goes on, and one that ends.
LEMMA GoesOn ==
    ASSUME Going, UNCHANGED <<setting, cancelled>>, stage'.pc = "calling",
           stage'.row = stage.row, stage'.left \in 1 .. Calls, call' # NoCall,
           Placed(setting, call')
    PROVE  Going'
  BY BoundsAssumption DEF Going

LEMMA Ends ==
    ASSUME Going, UNCHANGED <<setting, cancelled>>, stage'.pc \in {"succeeded", "failed"},
           stage'.row \in Row, stage'.left \in 0 .. Calls, call' = NoCall
    PROVE  Going'
  BY DEF Going

\* What is placed is a call.
LEMMA PlacedIsCall == \A s, c : Placed(s, c) => c # NoCall
  BY NoCallIsIdle DEF Placed

LEMMA ErrsGoing ==
    ASSUME CourseInv, call # NoCall, NEW kind, Errs(kind), UNCHANGED <<setting, cancelled>>
    PROVE  Going'
PROOF
  <1>1. /\ setting \in Setting /\ setting \in Settings /\ Placed(setting, call) /\ Talking /\ Counted
        /\ stage.pc = "calling" /\ stage.left \in 1 .. Calls
    BY SettingsAssumption DEF CourseInv, Going, Inv
  <1>2. CASE setting.way = "routed" /\ MayRetry(kind)
    <2>1. /\ call' = [call EXCEPT !.pc = "waiting", !.attempt = NextAttempt(@)]
          /\ UNCHANGED stage
      BY <1>2 DEF Errs
    <2>2. /\ call'.pc = "waiting" /\ call'.attempt = call.attempt + 1 /\ call'.b = call.b
          /\ call'.link = call.link /\ call'.repair = call.repair
          /\ call'.given = call.given /\ call'.tries = call.tries
      BY <1>1, <2>1 DEF Talking, NextAttempt
    <2>3. Placed(setting, call')
      BY <1>1, <1>2, <2>2, NextAttemptTurns DEF MayRetry
    <2> QED
      BY <1>1, <2>1, <2>3, GoesOn, PlacedIsCall DEF CourseInv
  <1>3. CASE /\ ~(setting.way = "routed" /\ MayRetry(kind))
             /\ setting.way = "routed" /\ FailsOver(kind)
             /\ call.link < Len(Backends(setting)[call.b])
    <2>1. /\ call' = [call EXCEPT !.pc = "asking", !.link = @ + 1, !.attempt = 1,
                                  !.given = @ \cup {Asked}]
          /\ UNCHANGED stage
      BY <1>3 DEF Errs
    <2>2. /\ call'.pc = "asking" /\ call'.attempt = 1 /\ call'.b = call.b
          /\ call'.link = call.link + 1 /\ call'.repair = call.repair
          /\ call'.given = call.given \cup {Backends(setting)[call.b][call.link]}
          /\ call'.tries = call.tries
      BY <1>1, <2>1 DEF Talking, Asked
    <2>3. Placed(setting, call')
      BY <1>1, <1>3, <2>2, NextLinkTurns
    <2> QED
      BY <1>1, <2>1, <2>3, GoesOn, PlacedIsCall DEF CourseInv
  <1>4. CASE Escalates(kind)
    <2>1. CASE call.b < Len(Backends(setting))
      <3>1. call' = NextTurn(call, Backends(setting)[call.b + 1]) /\ UNCHANGED stage
        BY <1>4, <2>1 DEF Escalates
      <3>2. Placed(setting, call')
        BY <1>1, <2>1, <3>1, NextTurnIsPlaced
      <3> QED
        BY <1>1, <3>1, <3>2, GoesOn, PlacedIsCall DEF CourseInv
    <2>2. CASE ~(call.b < Len(Backends(setting)))
      <3>1. /\ call' = NoCall /\ stage'.pc = "failed" /\ stage'.left = stage.left
            /\ stage'.row \in Row
        BY <1>1, <1>4, <2>2 DEF Escalates, Fails, Recorded, Counted, Row
      <3>2. stage'.left \in 0 .. Calls
        BY <3>1 DEF CourseInv, Going
      <3> QED
        BY <3>1, <3>2, Ends DEF CourseInv
    <2> QED
      BY <2>1, <2>2
  <1> QED
    BY <1>2, <1>3, <1>4 DEF Errs

LEMMA BeginGoing ==
    ASSUME CourseInv, Begin \/ Refuse
    PROVE  Going'
PROOF
  <1>1. /\ setting \in Setting /\ UNCHANGED <<setting, cancelled>>
        /\ stage.pc = "idle" /\ stage.left \in 1 .. Calls /\ stage.row \in Row
        /\ call = NoCall
        /\ stage = [pc |-> stage.pc, left |-> stage.left, used |-> stage.used, row |-> stage.row]
    BY SettingsAssumption DEF CourseInv, Going, Inv, Counted, Begin, Refuse
  <1>2. CASE stage' = [stage EXCEPT !.pc = "failed"] /\ UNCHANGED call
    <2>1. stage'.pc = "failed" /\ stage'.row = stage.row /\ stage'.left = stage.left
      BY <1>1, <1>2
    <2>2. stage'.left \in 0 .. Calls
      BY <2>1 DEF CourseInv, Going
    <2> QED
      BY <1>1, <1>2, <2>1, <2>2, Ends DEF CourseInv
  <1>3. CASE /\ Backends(setting) # <<>> /\ stage' = [stage EXCEPT !.pc = "calling"]
             /\ call' = Opening(Backends(setting)[1], 1, 0)
    <2>1. stage'.pc = "calling" /\ stage'.row = stage.row /\ stage'.left = stage.left
      BY <1>1, <1>3
    <2>2. Placed(setting, call')
      BY <1>1, <1>3, OpeningIsPlaced
    <2> QED
      BY <1>1, <2>1, <2>2, GoesOn, PlacedIsCall DEF CourseInv
  <1> QED
    BY <1>2, <1>3 DEF Begin, Refuse

LEMMA WaitGoing ==
    ASSUME CourseInv, Wait
    PROVE  Going'
PROOF
  <1>1. /\ call # NoCall /\ call' = [call EXCEPT !.pc = "asking"] /\ call.pc = "waiting"
        /\ UNCHANGED <<setting, cancelled, stage>>
    BY NoCallIsIdle DEF Wait
  <1>2. Placed(setting, call) /\ Talking /\ stage.pc = "calling" /\ stage.left \in 1 .. Calls
    BY <1>1 DEF CourseInv, Going, Inv
  <1>3. /\ call'.pc = "asking" /\ call'.attempt = call.attempt /\ call'.b = call.b
        /\ call'.link = call.link /\ call'.repair = call.repair
        /\ call'.given = call.given /\ call'.tries = call.tries
    BY <1>1, <1>2 DEF Talking
  <1>4. Placed(setting, call')
    BY <1>1, <1>2, <1>3 DEF Placed, Turns
  <1> QED
    BY <1>1, <1>2, <1>4, GoesOn, PlacedIsCall DEF CourseInv

LEMMA SendGoing ==
    ASSUME CourseInv, Send
    PROVE  Going'
PROOF
  <1>1. call # NoCall /\ call.pc = "asking" /\ UNCHANGED <<setting, cancelled>>
    BY NoCallIsIdle DEF Send
  <1>2. CASE \E kind \in {"cancelled", "local", "unsupported"} : Errs(kind)
    BY <1>1, <1>2, ErrsGoing
  <1>3. CASE /\ UNCHANGED stage
             /\ call' = [call EXCEPT !.pc = "out", !.tries = Min({@, Most(setting)}) + 1]
    <2>1. /\ Placed(setting, call) /\ Talking /\ stage.pc = "calling" /\ stage.left \in 1 .. Calls
          /\ setting \in Setting
      BY <1>1, SettingsAssumption DEF CourseInv, Going, Inv
    <2>2. Turns(setting, call) \in Nat /\ Turns(setting, call) + 1 <= Most(setting) /\ Most(setting) \in Nat
      BY <2>1, TurnsAreBounded
    <2>3. call.tries \in Nat /\ call.tries <= Turns(setting, call)
      BY <1>1, <2>1, <2>2 DEF Placed
    <2>4. Min({call.tries, Most(setting)}) = call.tries
      <3>1. \A x \in {call.tries, Most(setting)} : call.tries <= x
        BY <2>2, <2>3
      <3>2. /\ Min({call.tries, Most(setting)}) \in {call.tries, Most(setting)}
            /\ \A x \in {call.tries, Most(setting)} : Min({call.tries, Most(setting)}) <= x
        BY <3>1 DEF Min
      <3>3. Min({call.tries, Most(setting)}) <= call.tries
        BY <3>2
      <3> QED
        BY <2>2, <2>3, <3>2, <3>3
    <2>5. /\ call'.pc = "out" /\ call'.attempt = call.attempt /\ call'.b = call.b
          /\ call'.link = call.link /\ call'.repair = call.repair
          /\ call'.given = call.given /\ call'.tries = call.tries + 1
      BY <1>3, <2>1, <2>4 DEF Talking
    <2>6. Turns(setting, call') = Turns(setting, call)
      BY <2>5 DEF Turns
    <2>7. Placed(setting, call')
      BY <2>1, <2>2, <2>3, <2>5, <2>6 DEF Placed
    <2> QED
      BY <1>1, <1>3, <2>1, <2>7, GoesOn, PlacedIsCall DEF CourseInv
  <1> QED
    BY <1>2, <1>3 DEF Send

LEMMA AnswersGoing ==
    ASSUME CourseInv, Answers
    PROVE  Going'
PROOF
  <1>1. call # NoCall /\ call.pc = "out" /\ UNCHANGED <<setting, cancelled>>
    BY NoCallIsIdle DEF Answers
  <1>2. /\ setting \in Setting /\ Placed(setting, call) /\ Talking
        /\ stage.pc = "calling" /\ stage.left \in 1 .. Calls /\ stage.row \in Row
        /\ stage = [pc |-> stage.pc, left |-> stage.left, used |-> stage.used, row |-> stage.row]
    BY <1>1, SettingsAssumption DEF CourseInv, Going, Inv, Counted
  <1>3. Backends(setting) # <<>>
    BY <1>2 DEF Placed
  <1>4. CASE Accepted
    <2>1. CASE stage.left = 1
      <3>1. /\ stage'.pc = "succeeded" /\ stage'.left = 0 /\ stage'.row \in Row
            /\ call' = NoCall
        BY <1>2, <1>4, <2>1 DEF Accepted, Recorded, Row
      <3>2. stage'.left \in 0 .. Calls
        BY <3>1, BoundsAssumption
      <3> QED
        BY <1>1, <3>1, <3>2, Ends DEF CourseInv
    <2>2. CASE stage.left # 1
      <3>1. /\ stage'.pc = "calling" /\ stage'.left = stage.left - 1 /\ stage'.row = stage.row
            /\ call' = Opening(Backends(setting)[1], 1, 0)
        BY <1>2, <1>4, <2>2 DEF Accepted
      <3>2. stage'.left \in 1 .. Calls
        BY <1>2, <2>2, <3>1, BoundsAssumption
      <3>3. Placed(setting, call')
        BY <1>2, <1>3, <3>1, OpeningIsPlaced
      <3> QED
        BY <1>1, <3>1, <3>2, <3>3, GoesOn, PlacedIsCall DEF CourseInv
    <2> QED
      BY <2>1, <2>2
  <1>5. CASE Unusable
    <2>1. CASE call.repair < MaxRepairs
      <3>1. /\ stage'.pc = "calling" /\ stage'.left = stage.left /\ stage'.row = stage.row
            /\ call' = [call EXCEPT !.pc = "asking", !.repair = @ + 1, !.link = 1,
                                    !.attempt = 1, !.quoted = Append(@, Asked), !.given = {}]
        BY <1>2, <1>5, <2>1 DEF Unusable, Repairs
      <3>2. /\ call'.pc = "asking" /\ call'.attempt = 1 /\ call'.b = call.b
            /\ call'.link = 1 /\ call'.repair = call.repair + 1
            /\ call'.given = {} /\ call'.tries = call.tries
        BY <1>2, <3>1 DEF Talking
      <3>3. Placed(setting, call')
        BY <1>2, <2>1, <3>2, NextRepairTurns
      <3> QED
        BY <1>1, <1>2, <3>1, <3>3, GoesOn, PlacedIsCall DEF CourseInv
    <2>2. CASE ~(call.repair < MaxRepairs) /\ call.b < Len(Backends(setting))
      <3>1. /\ stage'.pc = "calling" /\ stage'.left = stage.left /\ stage'.row = stage.row
            /\ call' = NextTurn(call, Backends(setting)[call.b + 1])
        BY <1>2, <1>5, <2>2 DEF Unusable
      <3>2. Placed(setting, call')
        BY <1>2, <2>2, <3>1, NextTurnIsPlaced
      <3> QED
        BY <1>1, <1>2, <3>1, <3>2, GoesOn, PlacedIsCall DEF CourseInv
    <2>3. CASE ~(call.repair < MaxRepairs) /\ ~(call.b < Len(Backends(setting)))
      <3>1. /\ stage'.pc = "failed" /\ stage'.left = stage.left /\ stage'.row \in Row
            /\ call' = NoCall
        BY <1>2, <1>5, <2>3 DEF Unusable, Recorded, Row
      <3>2. stage'.left \in 0 .. Calls
        BY <1>2, <3>1, BoundsAssumption
      <3> QED
        BY <1>1, <3>1, <3>2, Ends DEF CourseInv
    <2> QED
      BY <2>1, <2>2, <2>3
  <1> QED
    BY <1>4, <1>5 DEF Answers

LEMMA BreaksOffGoing ==
    ASSUME CourseInv, BreaksOff
    PROVE  Going'
PROOF
  <1>1. call # NoCall /\ UNCHANGED <<setting, cancelled>>
    BY NoCallIsIdle DEF BreaksOff
  <1>2. /\ Placed(setting, call) /\ stage.pc = "calling" /\ stage.left \in 1 .. Calls
        /\ stage = [pc |-> stage.pc, left |-> stage.left, used |-> stage.used, row |-> stage.row]
    BY <1>1 DEF CourseInv, Going, Inv, Counted
  <1>3. ASSUME NEW left \in 1 .. stage.left - 1, stage' = [stage EXCEPT !.left = left],
               UNCHANGED call
        PROVE  Going'
    <2>1. stage'.pc = "calling" /\ stage'.row = stage.row /\ stage'.left = left
      BY <1>2, <1>3
    <2>2. stage'.left \in 1 .. Calls
      BY <1>2, <2>1, BoundsAssumption
    <2> QED
      BY <1>1, <1>2, <1>3, <2>1, <2>2, GoesOn DEF CourseInv
  <1>4. ASSUME stage' = [stage EXCEPT !.pc = "succeeded", !.left = 0, !.row = "traces"],
               call' = NoCall
        PROVE  Going'
    <2>1. stage'.pc = "succeeded" /\ stage'.row \in Row /\ stage'.left \in 0 .. Calls
      BY <1>2, <1>4, BoundsAssumption DEF Row
    <2> QED
      BY <1>1, <1>4, <2>1, Ends DEF CourseInv
  <1> QED
    BY <1>3, <1>4 DEF BreaksOff

LEMMA NextCourse == CourseInv /\ [Next]_vars => CourseInv'
PROOF
  <1> SUFFICES ASSUME CourseInv, [Next]_vars PROVE CourseInv'
    OBVIOUS
  <1>1. Inv'
    BY NextInv DEF CourseInv
  <1>2. ASSUME TornDown \/ ErrorAnswers PROVE Going'
    <2>1. /\ call # NoCall /\ UNCHANGED <<setting, cancelled>>
          /\ \E kind \in {"cancelled", "refused", "failed"} : Errs(kind)
      BY <1>2, NoCallIsIdle DEF TornDown, ErrorAnswers
    <2> QED
      BY <2>1, ErrsGoing
  <1>3. ASSUME Cancel \/ UNCHANGED vars PROVE Going'
    BY <1>3 DEF Cancel, vars, CourseInv, Going
  <1>4. Going'
    BY <1>2, <1>3, BeginGoing, WaitGoing, SendGoing, AnswersGoing, BreaksOffGoing
       DEF Next, Work
  <1> QED
    BY <1>1, <1>4 DEF CourseInv

LEMMA CourseInvariance == Spec => []CourseInv
PROOF
  <1>1. Init => CourseInv
    <2> SUFFICES ASSUME Init PROVE CourseInv
      OBVIOUS
    <2>1. Inv
      BY DEF Init, Inv, Counted
    <2>2. Calls \in 1 .. Calls /\ Calls \in 0 .. Calls
      BY BoundsAssumption
    <2>3. Going
      BY <2>2 DEF Init, Going, Row, NoCall
    <2> QED
      BY <2>1, <2>3 DEF CourseInv
  <1> QED
    BY <1>1, NextCourse, PTL DEF Spec

-----------------------------------------------------------------------------
\* The theorems.

\* A stage that succeeds has in its row every answer it read: those that were repaired and
\* those of models it left behind.
THEOREM RowsCountEverything == Spec => []RowCountsEveryAnswer
PROOF
  <1>1. Inv => RowCountsEveryAnswer
    BY DEF Inv, Counted, RowCountsEveryAnswer
  <1> QED
    BY <1>1, Invariance, PTL

\* A repair turn of a story stage quotes only the model that it is sent to.
THEOREM RepairsQuoteOne == Spec => []RepairsQuoteTheirModel
PROOF
  <1>1. Inv => RepairsQuoteTheirModel
    <2> SUFFICES ASSUME Inv, call # NoCall, setting.way = "stage"
                 PROVE  ToSet(call.quoted) \subseteq {Asked}
      BY DEF RepairsQuoteTheirModel
    <2>1. call.quoted \in Seq({Asked})
      BY DEF Inv, Talking
    <2> QED
      BY <2>1 DEF ToSet
  <1> QED
    BY <1>1, Invariance, PTL

\* A cancelled stage sends nothing more, where its calls have the signal.
THEOREM CancelledIsSilent == Spec => []CancelledStageIsSilent
PROOF
  <1>1. Inv => CancelledStageIsSilent
    BY DEF Inv, Counted, CancelledStageIsSilent
  <1> QED
    BY <1>1, Invariance, PTL

\* However answers and errors alternate, a structured call makes at most as many requests as
\* its backends, its repairs, its links and its attempts allow.
THEOREM RequestsStayBounded == Spec => []RequestsAreBounded
PROOF
  <1>1. CourseInv => RequestsAreBounded
    <2> SUFFICES ASSUME CourseInv PROVE RequestsAreBounded
      OBVIOUS
    <2>1. wire \in [read : Nat, late : 0 .. 1]
      BY DEF CourseInv, Inv, Counted
    <2>2. TypeOK
      BY <2>1 DEF CourseInv, Going, Placed, TypeOK, Row
    <2>3. ASSUME call # NoCall PROVE call.tries <= Most(setting)
      <3>1. setting \in Setting /\ Placed(setting, call)
        BY <2>3, SettingsAssumption DEF CourseInv, Going
      <3>2. /\ Turns(setting, call) \in Nat /\ Turns(setting, call) + 1 <= Most(setting)
            /\ Most(setting) \in Nat
        BY <3>1, TurnsAreBounded
      <3>3. call.tries \in Nat /\ call.tries <= Turns(setting, call) + 1
        BY <3>1, <3>2 DEF Placed
      <3> QED
        BY <3>2, <3>3
    <2> QED
      BY <2>2, <2>3 DEF RequestsAreBounded
  <1> QED
    BY <1>1, CourseInvariance, PTL

\* A pinned stage asks its model and no other; nobody asks one that cannot do the task, that
\* its rule finds too dear, or that this walk has given up on.
THEOREM OnlyTheChosenAreAsked == Spec => []OnlyChosenModelsAreAsked
PROOF
  <1>1. CourseInv => OnlyChosenModelsAreAsked
    <2> SUFFICES ASSUME CourseInv, call # NoCall
                 PROVE  /\ MayAsk(setting, Asked)
                        /\ setting.way = "stage" => Asked \in setting.structured
                        /\ Asked \notin call.given
      BY DEF OnlyChosenModelsAreAsked, MayAsk
    <2>1. setting \in Setting /\ Placed(setting, call)
      BY SettingsAssumption DEF CourseInv, Going
    <2>2. Walk(setting)
      BY <2>1, BackendsAreAWalk
    <2>3. /\ MayAsk(setting, Asked)
          /\ setting.way = "stage" => Asked \in setting.structured
      BY <2>1, <2>2 DEF Walk, Placed, Asked
    <2>4. Asked \notin Behind(setting, call.b, call.link)
      <3> SUFFICES ASSUME NEW u \in (1 .. call.b) \X Nat,
                          u[1] \in DOMAIN Backends(setting),
                          u[2] \in DOMAIN Backends(setting)[u[1]],
                          u[1] < call.b \/ u[2] < call.link,
                          Backends(setting)[u[1]][u[2]] = Backends(setting)[call.b][call.link]
                   PROVE  FALSE
        BY DEF Behind, Asked
      <3>1. call.b \in DOMAIN Backends(setting) /\ call.link \in DOMAIN Backends(setting)[call.b]
        BY <2>1 DEF Placed
      <3>2. u[1] = call.b /\ u[2] = call.link
        BY <2>2, <3>1 DEF Walk
      <3>3. call.b \in Nat /\ call.link \in Nat
        BY <2>1, <3>1, PlaceNumbers
      <3> QED
        BY <3>2, <3>3
    <2> QED
      BY <2>1, <2>3, <2>4 DEF Placed
  <1> QED
    BY <1>1, CourseInvariance, PTL

=============================================================================
