------------------------------ MODULE FoldLemmas ------------------------------
(***************************************************************************)
(* What a fold over a sequence computes: the modules write loops over a    *)
(* list as FoldLeft of SequencesExt.  An operator cannot be a parameter of *)
(* a lemma that the provers use, so the step of the fold is a function.    *)
(***************************************************************************)
EXTENDS Naturals, Lists, FiniteSetTheorems, SequenceTheorems, WellFoundedInduction, TLAPS

\* Induction up to n, for a set of numbers.
LEMMA InductionTo ==
    ASSUME NEW n \in Nat, NEW Good, 0 \in Good,
           \A i \in 0 .. n : i \in Good /\ i < n => i + 1 \in Good
    PROVE  0 .. n \subseteq Good
PROOF
  <1> DEFINE Less == OpToRel(<, Nat)
             Bad == {i \in 0 .. n : i \notin Good}
  <1> SUFFICES ASSUME Bad # {} PROVE FALSE
    OBVIOUS
  <1>1. Bad \subseteq Nat
    OBVIOUS
  <1>2. PICK least \in Bad : \A i \in Bad : ~ (<<i, least>> \in Less)
    BY <1>1, NatLessThanWellFounded, WFMin
  <1>3. \A i \in Bad : ~ (i < least)
    BY <1>1, <1>2 DEF OpToRel
  <1>4. least \in Nat \ {0} /\ least - 1 \in 0 .. n /\ least - 1 < n /\ (least - 1) + 1 = least
    OBVIOUS
  <1>5. least - 1 \in Good
    BY <1>3, <1>4
  <1> QED
    BY <1>4, <1>5

LEMMA MaxOfInterval ==
    ASSUME NEW k \in Nat, NEW s \in SUBSET (1 .. k + 1)
    PROVE  /\ k + 1 \in s => Max(s) = k + 1 /\ s \ {k + 1} \in SUBSET (1 .. k)
           /\ k + 1 \notin s => s \in SUBSET (1 .. k)
           /\ Max(1 .. k + 1) = k + 1 /\ (1 .. k + 1) \ {k + 1} = 1 .. k
PROOF
  <1>1. \A t \in SUBSET (1 .. k + 1) : k + 1 \in t => Max(t) = k + 1
    <2> SUFFICES ASSUME NEW t \in SUBSET (1 .. k + 1), k + 1 \in t
                 PROVE  Max(t) = k + 1
      OBVIOUS
    <2>1. \A y \in t : k + 1 >= y
      OBVIOUS
    <2>2. Max(t) \in t /\ \A y \in t : Max(t) >= y
      BY <2>1 DEF Max
    <2>3. Max(t) \in 1 .. k + 1 /\ Max(t) >= k + 1
      BY <2>2
    <2> QED
      BY <2>3
  <1>2. (1 .. k + 1) \ {k + 1} = 1 .. k
    OBVIOUS
  <1> QED
    BY <1>1, <1>2

LEMMA MaxIsMember ==
    ASSUME NEW n \in Nat, NEW s \in SUBSET (1 .. n), s # {}
    PROVE  Max(s) \in s /\ Max(s) \in 1 .. n /\ s \ {Max(s)} \in SUBSET (1 .. n)
PROOF
  <1> DEFINE Less == OpToRel(<, Nat)
             above == {n - x : x \in s}
  <1>1. above \subseteq Nat /\ above # {}
    OBVIOUS
  <1>2. PICK least \in above : \A y \in above : ~ (<<y, least>> \in Less)
    BY <1>1, NatLessThanWellFounded, WFMin
  <1>3. PICK x \in s : least = n - x
    BY <1>2
  <1>4. ASSUME NEW y \in s PROVE x >= y
    <2>1. n - y \in above /\ n - y \in Nat /\ least \in Nat
      BY <1>1
    <2>2. ~ (n - y < least)
      BY <1>2, <2>1 DEF OpToRel
    <2> QED
      BY <1>3, <2>1, <2>2
  <1>5. Max(s) \in s
    BY <1>3, <1>4 DEF Max
  <1> QED
    BY <1>5

\* A loop over a list of what is in E.  V is any set that its step does not leave, so that
\* it is an invariant of the loop.
IsLoop(V, E, step, base, seq) ==
    step \in [V \X E -> V] /\ base \in V /\ seq \in Seq(E)

\* What the loop leaves behind after each element: acc.
Accumulates(acc, V, step, base, seq) ==
    /\ acc \in [0 .. Len(seq) -> V]
    /\ acc[0] = base
    /\ \A i \in 1 .. Len(seq) : acc[i] = step[<<acc[i - 1], seq[i]>>]

\* The recursion over sets of places that FoldLeft stands for, as long as it stays in V.
Unfolds(iter, V, step, base, seq) ==
    /\ iter[{}] = base
    /\ \A s \in SUBSET (1 .. Len(seq)) :
          /\ s # {}
          /\ iter[s \ {Max(s)}] \in V
          => iter[s] = step[<<iter[s \ {Max(s)}], seq[Max(s)]>>]

LEMMA FoldSteps ==
    ASSUME NEW V, NEW E, NEW step, NEW base, NEW seq, IsLoop(V, E, step, base, seq),
           NEW iter, Unfolds(iter, V, step, base, seq)
    PROVE  \E acc : /\ Accumulates(acc, V, step, base, seq)
                    /\ acc[Len(seq)] = iter[1 .. Len(seq)]
PROOF
  <1> DEFINE n == Len(seq)
             acc == [i \in 0 .. n |-> iter[1 .. i]]
             Good == {i \in 0 .. n : iter[1 .. i] \in V}
  <1>0. step \in [V \X E -> V] /\ base \in V
    BY DEF IsLoop
  <1>1. n \in Nat /\ \A i \in 1 .. n : seq[i] \in E
    BY DEF IsLoop
  <1>2. acc[0] = base /\ 0 \in Good
    <2>1. 1 .. 0 = {}
      OBVIOUS
    <2> QED
      BY <2>1 DEF Unfolds
  <1>3. ASSUME NEW i \in 0 .. n, i < n, i \in Good
        PROVE  /\ iter[1 .. i + 1] = step[<<iter[1 .. i], seq[i + 1]>>]
               /\ i + 1 \in Good
    <2>0. /\ i \in Nat /\ i + 1 \in 1 .. n /\ 1 \in 1 .. i + 1
          /\ \A x \in 1 .. i + 1 : x \in 1 .. n
      <3> HIDE DEF n, Good
      <3> QED
        BY <1>1, <1>3
    <2>1. /\ i \in Nat /\ i + 1 \in 1 .. n /\ 1 .. i + 1 \in SUBSET (1 .. n)
          /\ 1 .. i + 1 \in SUBSET (1 .. i + 1) /\ 1 .. i + 1 # {}
      BY <2>0
    <2>2. Max(1 .. i + 1) = i + 1 /\ (1 .. i + 1) \ {i + 1} = 1 .. i
      BY <2>1, MaxOfInterval
    <2>3. iter[1 .. i + 1] = step[<<iter[1 .. i], seq[i + 1]>>]
      BY <1>3, <2>1, <2>2 DEF Unfolds
    <2>4. iter[1 .. i] \in V /\ seq[i + 1] \in E
      BY <1>1, <1>3, <2>1
    <2> QED
      BY <1>0, <1>1, <2>1, <2>3, <2>4
  <1> HIDE DEF n
  <1>4. 0 .. n \subseteq Good
    <2> HIDE DEF Good
    <2> QED
      BY <1>1, <1>2, <1>3, InductionTo
  <1>5. acc \in [0 .. n -> V]
    BY <1>4
  <1>6. ASSUME NEW i \in 1 .. n
        PROVE  acc[i] = step[<<acc[i - 1], seq[i]>>]
    <2>1. i - 1 \in 0 .. n /\ i - 1 < n /\ (i - 1) + 1 = i /\ i \in 0 .. n
      BY <1>1
    <2>2. iter[1 .. (i - 1) + 1] = step[<<iter[1 .. i - 1], seq[(i - 1) + 1]>>]
      BY <1>3, <1>4, <2>1
    <2> QED
      BY <2>1, <2>2
  <1>7. acc[n] = iter[1 .. n] /\ acc[0] = base
    BY <1>1, <1>2
  <1>8. Accumulates(acc, V, step, base, seq)
    <2> HIDE DEF acc
    <2> QED
      BY <1>5, <1>6, <1>7 DEF Accumulates, n
  <1> HIDE DEF acc
  <1> QED
    BY <1>7, <1>8 DEF n

\* There is such a recursion, and it stays in V.
StaysIn(iter, V, step, base, seq) ==
    /\ iter \in [SUBSET (1 .. Len(seq)) -> V]
    /\ iter[{}] = base
    /\ \A s \in SUBSET (1 .. Len(seq)) :
          s # {} => iter[s] = step[<<iter[s \ {Max(s)}], seq[Max(s)]>>]

LEMMA FoldExists ==
    ASSUME NEW V, NEW E, NEW step, NEW base, NEW seq, IsLoop(V, E, step, base, seq)
    PROVE  \E iter : StaysIn(iter, V, step, base, seq)
PROOF
  <1> DEFINE n == Len(seq)
             Law(iter, s) == s # {} => iter[s] = step[<<iter[s \ {Max(s)}], seq[Max(s)]>>]
             Good == {k \in 0 .. n : \E iter \in [SUBSET (1 .. k) -> V] :
                                      /\ iter[{}] = base
                                      /\ \A s \in SUBSET (1 .. k) : Law(iter, s)}
  <1>0. step \in [V \X E -> V] /\ base \in V
    BY DEF IsLoop
  <1>1. n \in Nat /\ \A i \in 1 .. n : seq[i] \in E
    BY DEF IsLoop
  <1>2. 0 \in Good
    <2> DEFINE iter == [s \in SUBSET (1 .. 0) |-> base]
    <2>1. 1 .. 0 = {} /\ SUBSET (1 .. 0) = {{}}
      OBVIOUS
    <2>2. iter \in [SUBSET (1 .. 0) -> V] /\ iter[{}] = base
      BY <1>0, <2>1
    <2>3. \A s \in SUBSET (1 .. 0) : Law(iter, s)
      BY <2>1
    <2> HIDE DEF iter, Law
    <2>4. 0 \in 0 .. n
      BY <1>1
    <2> HIDE DEF n
    <2> QED
      BY <2>2, <2>3, <2>4
  <1>3. ASSUME NEW k \in 0 .. n, k \in Good, k < n
        PROVE  k + 1 \in Good
    <2>1. PICK iter \in [SUBSET (1 .. k) -> V] : /\ iter[{}] = base
                                               /\ \A s \in SUBSET (1 .. k) : Law(iter, s)
      BY <1>3
    <2> DEFINE more == [s \in SUBSET (1 .. k + 1) |->
                          IF k + 1 \in s THEN step[<<iter[s \ {k + 1}], seq[k + 1]>>]
                          ELSE iter[s]]
    <2>2. k \in Nat /\ k + 1 \in 1 .. n /\ k + 1 \in 0 .. n /\ seq[k + 1] \in E
      BY <1>1, <1>3
    <2>3. ASSUME NEW s \in SUBSET (1 .. k + 1)
          PROVE  /\ k + 1 \in s => Max(s) = k + 1 /\ s \ {k + 1} \in SUBSET (1 .. k)
                 /\ k + 1 \notin s => s \in SUBSET (1 .. k)
      BY <2>2, MaxOfInterval
    <2>4. ASSUME NEW s \in SUBSET (1 .. k + 1)
          PROVE  more[s] \in V
      BY <1>0, <2>2, <2>3
    <2>5. \A s \in SUBSET (1 .. k) : s \in SUBSET (1 .. k + 1) /\ k + 1 \notin s /\ more[s] = iter[s]
      BY <2>2
    <2>6. ASSUME NEW s \in SUBSET (1 .. k + 1), s # {}
          PROVE  more[s] = step[<<more[s \ {Max(s)}], seq[Max(s)]>>]
      <3>1. CASE k + 1 \in s
        BY <2>3, <2>5, <3>1
      <3>2. CASE k + 1 \notin s
        <4>1. s \in SUBSET (1 .. k) /\ s \ {Max(s)} \in SUBSET (1 .. k)
          BY <2>3, <3>2
        <4>2. iter[s] = step[<<iter[s \ {Max(s)}], seq[Max(s)]>>]
          BY <2>1, <2>6, <4>1
        <4> QED
          BY <2>5, <4>1, <4>2
      <3> QED
        BY <3>1, <3>2
    <2>7. {} \in SUBSET (1 .. k) /\ more[{}] = base
      BY <2>1, <2>5
    <2>8. more \in [SUBSET (1 .. k + 1) -> V]
      BY <2>4
    <2> HIDE DEF more
    <2> QED
      BY <2>2, <2>6, <2>7, <2>8
  <1>4. n \in Good
    <2> HIDE DEF Good, n
    <2>1. 0 .. n \subseteq Good
      BY <1>1, <1>2, <1>3, InductionTo
    <2> QED
      BY <1>1, <2>1
  <1> QED
    BY <1>4 DEF StaysIn

-----------------------------------------------------------------------------
\* A set made a list, and a sorted one.

\* A list of what is in a finite set, each once, has all of it.
LEMMA ListsOfASet ==
    ASSUME NEW S, IsFiniteSet(S), NEW list \in SetToSeqs(S)
    PROVE  /\ list \in Seq(S) /\ Len(list) = Cardinality(S)
           /\ \A x \in S : \E i \in 1 .. Len(list) : list[i] = x
PROOF
  <1> DEFINE n == Cardinality(S)
  <1>1. n \in Nat /\ list \in [1 .. n -> S] /\ \A i, j \in 1 .. n : i # j => list[i] # list[j]
    BY FS_CardinalityType DEF SetToSeqs
  <1>2. IsFiniteSet(1 .. n) /\ Cardinality(1 .. n) = n
    BY <1>1, FS_Interval
  <1>3. list \in Injection(1 .. n, S)
    BY <1>1, Zenon DEF Injection, IsInjective
  <1>4. list \in Surjection(1 .. n, S)
    BY <1>2, <1>3, FS_Injection
  <1>5. list \in Seq(S) /\ Len(list) = n
    <2>1. list \in UNION {[1 .. m -> S] : m \in Nat}
      BY <1>1
    <2>2. list \in Seq(S)
      BY <2>1, SeqDef, Zenon
    <2> QED
      BY <1>1, <2>2
  <1> HIDE DEF n
  <1> QED
    BY <1>4, <1>5 DEF Surjection, n

\* An order that is not told which of two comes first by their values alone: a set of pairs.
IsOrderOf(before, S) ==
    /\ \A a, b \in S : <<a, b>> \in before \/ <<b, a>> \in before
    /\ \A a, b, c \in S : <<a, b>> \in before /\ <<b, c>> \in before => <<a, c>> \in before

SortedBy(before, S) ==
    {list \in SetToSeqs(S) : \A i, j \in DOMAIN list : i < j => <<list[i], list[j]>> \in before}

\* What has an order has a first one.
LEMMA FirstExists ==
    ASSUME NEW S, IsFiniteSet(S), NEW before, IsOrderOf(before, S), S # {}
    PROVE  \E m \in S : \A x \in S : <<m, x>> \in before
PROOF
  <1> DEFINE n == Cardinality(S)
             Good == {k \in 0 .. n : \A T \in SUBSET S :
                        Cardinality(T) = k /\ T # {} =>
                            \E m \in T : \A x \in T : <<m, x>> \in before}
  <1>1. n \in Nat
    BY FS_CardinalityType
  <1>2. 0 \in Good
    <2>1. \A T \in SUBSET S : Cardinality(T) = 0 => T = {}
      BY FS_Subset, FS_EmptySet
    <2> QED
      BY <1>1, <2>1
  <1>3. ASSUME NEW k \in 0 .. n, k \in Good, k < n
        PROVE  k + 1 \in Good
    <2> SUFFICES ASSUME NEW T \in SUBSET S, Cardinality(T) = k + 1, T # {}
                 PROVE  \E m \in T : \A x \in T : <<m, x>> \in before
      BY <1>1, <1>3
    <2>1. PICK a \in T : TRUE
      OBVIOUS
    <2>2. IsFiniteSet(T) /\ Cardinality(T \ {a}) = k
      <3>1. IsFiniteSet(T)
        BY FS_Subset
      <3>2. Cardinality(T \ {a}) = Cardinality(T) - 1
        BY <3>1, FS_RemoveElement
      <3> QED
        BY <1>1, <3>1, <3>2
    <2>3. \A x \in S : <<x, x>> \in before
      BY DEF IsOrderOf
    <2>4. CASE T \ {a} = {}
      BY <2>3, <2>4
    <2>5. CASE T \ {a} # {}
      <3>1. PICK m \in T \ {a} : \A x \in T \ {a} : <<m, x>> \in before
        BY <1>3, <2>2, <2>5
      <3>2. CASE <<m, a>> \in before
        BY <3>1, <3>2
      <3>3. CASE <<a, m>> \in before
        BY <2>3, <3>1, <3>3 DEF IsOrderOf
      <3> QED
        BY <3>1, <3>2, <3>3 DEF IsOrderOf
    <2> QED
      BY <2>4, <2>5
  <1> HIDE DEF Good
  <1>4. n \in Good
    BY <1>1, <1>2, <1>3, InductionTo
  <1> QED
    BY <1>4 DEF Good

LEMMA CanBeSorted ==
    ASSUME NEW S, IsFiniteSet(S), NEW before, IsOrderOf(before, S)
    PROVE  SortedBy(before, S) # {}
PROOF
  <1> DEFINE n == Cardinality(S)
             Good == {k \in 0 .. n : \A T \in SUBSET S :
                        Cardinality(T) = k => SortedBy(before, T) # {}}
  <1>1. n \in Nat
    BY FS_CardinalityType
  <1>2. 0 \in Good
    <2> SUFFICES ASSUME NEW T \in SUBSET S, Cardinality(T) = 0 PROVE SortedBy(before, T) # {}
      BY <1>1
    <2>1. T = {} /\ 1 .. 0 = {}
      BY FS_Subset, FS_EmptySet
    <2> DEFINE none == [i \in 1 .. 0 |-> 0]
    <2>2. none \in SortedBy(before, T)
      BY <2>1 DEF SortedBy, SetToSeqs
    <2> QED
      BY <2>2
  <1>3. ASSUME NEW k \in 0 .. n, k \in Good, k < n
        PROVE  k + 1 \in Good
    <2> SUFFICES ASSUME NEW T \in SUBSET S, Cardinality(T) = k + 1
                 PROVE  SortedBy(before, T) # {}
      BY <1>1, <1>3
    <2>1. IsFiniteSet(T) /\ T # {} /\ k \in Nat /\ IsOrderOf(before, T)
      <3>1. IsFiniteSet(T) /\ k \in Nat
        BY <1>1, FS_Subset
      <3>2. T # {}
        BY <3>1, FS_EmptySet
      <3> QED
        BY <3>1, <3>2 DEF IsOrderOf
    <2>2. PICK m \in T : \A x \in T : <<m, x>> \in before
      BY <2>1, FirstExists
    <2>3. Cardinality(T \ {m}) = k
      <3>1. Cardinality(T \ {m}) = Cardinality(T) - 1
        BY <2>1, FS_RemoveElement
      <3> QED
        BY <2>1, <3>1
    <2>4. PICK rest : rest \in SortedBy(before, T \ {m})
      BY <1>3, <2>3
    <2>5. /\ rest \in [1 .. k -> T \ {m}]
          /\ \A i, j \in 1 .. k : i # j => rest[i] # rest[j]
          /\ \A i, j \in 1 .. k : i < j => <<rest[i], rest[j]>> \in before
      BY <2>3, <2>4 DEF SortedBy, SetToSeqs
    <2> DEFINE all == [i \in 1 .. k + 1 |-> IF i = 1 THEN m ELSE rest[i - 1]]
    <2>6. \A i \in 1 .. k + 1 : i # 1 => i - 1 \in 1 .. k
      BY <2>1
    <2>7. all \in [1 .. k + 1 -> T]
      BY <2>5, <2>6
    <2>8. ASSUME NEW i \in 1 .. k + 1, NEW j \in 1 .. k + 1, i # j PROVE all[i] # all[j]
      <3>1. i # 1 /\ j # 1 => i - 1 # j - 1
        BY <2>8
      <3> QED
        BY <2>5, <2>6, <2>8, <3>1
    <2>9. ASSUME NEW i \in 1 .. k + 1, NEW j \in 1 .. k + 1, i < j
          PROVE  <<all[i], all[j]>> \in before
      <3>1. j # 1 /\ j - 1 \in 1 .. k /\ all[j] = rest[j - 1]
        BY <2>1, <2>9
      <3>2. CASE i = 1
        BY <2>2, <2>5, <3>1, <3>2
      <3>3. CASE i # 1
        <4>1. i - 1 \in 1 .. k /\ i - 1 < j - 1 /\ all[i] = rest[i - 1]
          BY <2>6, <2>9, <3>3
        <4> QED
          BY <2>5, <3>1, <4>1
      <3> QED
        BY <3>2, <3>3
    <2> HIDE DEF all
    <2>10. all \in SortedBy(before, T)
      BY <2>7, <2>8, <2>9 DEF SortedBy, SetToSeqs
    <2> QED
      BY <2>10
  <1> HIDE DEF Good
  <1>4. n \in Good
    BY <1>1, <1>2, <1>3, InductionTo
  <1> QED
    BY <1>4 DEF Good

-----------------------------------------------------------------------------
\* The loops of Lists.

Distinct(list) == \A i, j \in DOMAIN list : list[i] = list[j] => i = j

\* A filter keeps what it may keep, and doubles nothing.
LEMMA FilterKeeps ==
    ASSUME NEW S, NEW list \in Seq(S), NEW able
    PROVE  /\ Filter(list, able) \in Seq(S \cap able)
           /\ Distinct(list) => Distinct(Filter(list, able))
PROOF
  <1> DEFINE V == Seq(S \cap able)
             step == [u \in V \X S |-> IF u[2] \in able THEN Append(u[1], u[2]) ELSE u[1]]
             D == 1 .. Len(list)
             Body(iter) == [s \in SUBSET D |->
                IF s = {} THEN <<>>
                ELSE IF list[Max(s)] \in able
                     THEN Append(iter[s \ {Max(s)}], list[Max(s)])
                     ELSE iter[s \ {Max(s)}]]
             loop == CHOOSE iter : iter = Body(iter)
  <1>1. /\ <<>> \in V /\ DOMAIN list = D /\ Len(list) \in Nat
        /\ \A i \in D : list[i] \in S
    OBVIOUS
  <1>2. ASSUME NEW v \in V, NEW m \in S
        PROVE  /\ step[<<v, m>>] = IF m \in able THEN Append(v, m) ELSE v
               /\ step[<<v, m>>] \in V
    OBVIOUS
  <1>3. IsLoop(V, S, step, <<>>, list)
    BY DEF IsLoop
  <1>4. Filter(list, able) = loop[D]
    BY <1>1 DEF Filter, FoldLeft, MapThenFoldSet
  <1>5. \A s \in SUBSET D : s # {} => Max(s) \in D /\ s \ {Max(s)} \in SUBSET D
    BY <1>1, MaxIsMember
  <1> HIDE DEF step, V, D
  <1>6. \E iter : iter = Body(iter)
    <2>0. PICK iter : StaysIn(iter, V, step, <<>>, list)
      BY <1>3, FoldExists
    <2>1. /\ iter \in [SUBSET D -> V]
          /\ iter[{}] = <<>>
          /\ \A s \in SUBSET D :
                s # {} => iter[s] = step[<<iter[s \ {Max(s)}], list[Max(s)]>>]
      BY <2>0 DEF StaysIn, D
    <2>2. ASSUME NEW s \in SUBSET D
          PROVE  iter[s] = Body(iter)[s]
      <3>1. CASE s = {}
        BY <2>1, <3>1
      <3>2. CASE s # {}
        BY <1>1, <1>2, <1>5, <2>1, <3>2
      <3> QED
        BY <3>1, <3>2
    <2> QED
      BY <2>1, <2>2
  <1>7. loop = Body(loop)
    BY <1>6
  <1> HIDE DEF loop
  <1>8. Unfolds(loop, V, step, <<>>, list)
    <2>1. {} \in SUBSET D /\ loop[{}] = <<>>
      BY <1>7
    <2>2. ASSUME NEW s \in SUBSET D, s # {}, loop[s \ {Max(s)}] \in V
          PROVE  loop[s] = step[<<loop[s \ {Max(s)}], list[Max(s)]>>]
      BY <1>1, <1>2, <1>5, <1>7, <2>2
    <2> QED
      BY <2>1, <2>2 DEF Unfolds, D
  <1>9. PICK acc : Accumulates(acc, V, step, <<>>, list) /\ acc[Len(list)] = loop[1 .. Len(list)]
    BY <1>3, <1>8, FoldSteps
  <1>10. /\ acc \in [0 .. Len(list) -> V] /\ acc[0] = <<>>
         /\ \A i \in D : acc[i] = IF list[i] \in able THEN Append(acc[i - 1], list[i])
                                  ELSE acc[i - 1]
         /\ Filter(list, able) = acc[Len(list)]
    <2>1. /\ acc \in [0 .. Len(list) -> V] /\ acc[0] = <<>>
          /\ \A i \in D : acc[i] = step[<<acc[i - 1], list[i]>>]
      BY <1>9 DEF Accumulates, D
    <2>2. \A i \in D : i - 1 \in 0 .. Len(list)
      BY <1>1 DEF D
    <2> QED
      BY <1>1, <1>2, <1>4, <1>9, <2>1, <2>2 DEF D
  <1>11. ASSUME Distinct(list)
         PROVE  Distinct(acc[Len(list)])
    <2> DEFINE From(i) == \A a \in DOMAIN acc[i] : \E j \in 1 .. i : acc[i][a] = list[j]
               Good == {i \in 0 .. Len(list) : Distinct(acc[i]) /\ From(i)}
    <2>1. 0 \in Good
      BY <1>1, <1>10 DEF Distinct
    <2>2. ASSUME NEW i \in 0 .. Len(list), i \in Good, i < Len(list)
          PROVE  i + 1 \in Good
      <3>1. /\ i \in Nat /\ i + 1 \in D /\ (i + 1) - 1 = i /\ i + 1 \in 0 .. Len(list)
            /\ \A j \in 1 .. i : j \in D /\ j \in 1 .. i + 1 /\ j # i + 1
            /\ i + 1 \in 1 .. i + 1
        BY <1>1, <2>2 DEF D
      <3>2. acc[i] \in Seq(S \cap able)
        BY <1>10 DEF V
      <3>3. CASE list[i + 1] \notin able
        <4>1. acc[i + 1] = acc[i]
          BY <1>10, <3>1, <3>3
        <4> QED
          BY <2>2, <3>1, <4>1
      <3>4. CASE list[i + 1] \in able
        <4>1. acc[i + 1] = Append(acc[i], list[i + 1])
          BY <1>10, <3>1, <3>4
        <4>2. /\ Len(acc[i]) \in Nat /\ DOMAIN acc[i] = 1 .. Len(acc[i])
              /\ DOMAIN acc[i + 1] = 1 .. Len(acc[i]) + 1
              /\ acc[i + 1][Len(acc[i]) + 1] = list[i + 1]
              /\ \A a \in DOMAIN acc[i] : acc[i + 1][a] = acc[i][a]
          BY <3>2, <4>1
        <4>3. \A a \in DOMAIN acc[i] : acc[i][a] # list[i + 1]
          BY <1>1, <1>11, <2>2, <3>1 DEF Distinct
        <4>4. Distinct(acc[i + 1])
          BY <2>2, <4>2, <4>3, SMTT(30) DEF Distinct
        <4>5. From(i + 1)
          BY <2>2, <3>1, <4>2
        <4> QED
          BY <3>1, <4>4, <4>5
      <3> QED
        BY <3>3, <3>4
    <2> HIDE DEF Good
    <2>3. Len(list) \in Good
      <3>1. 0 .. Len(list) \subseteq Good
        BY <1>1, <2>1, <2>2, InductionTo
      <3> QED
        BY <1>1, <3>1
    <2> QED
      BY <2>3 DEF Good
  <1> QED
    BY <1>1, <1>10, <1>11 DEF V

\* A deduplication keeps only what was there, and each once.
LEMMA DedupeKeeps ==
    ASSUME NEW S, NEW list \in Seq(S)
    PROVE  Dedupe(list) \in Seq(S) /\ Distinct(Dedupe(list))
PROOF
  <1> DEFINE V == {q \in Seq(S) : Distinct(q)}
             step == [u \in V \X S |-> IF Contains(u[1], u[2]) THEN u[1] ELSE Append(u[1], u[2])]
             D == 1 .. Len(list)
             Body(iter) == [s \in SUBSET D |->
                IF s = {} THEN <<>>
                ELSE IF Contains(iter[s \ {Max(s)}], list[Max(s)])
                     THEN iter[s \ {Max(s)}]
                     ELSE Append(iter[s \ {Max(s)}], list[Max(s)])]
             loop == CHOOSE iter : iter = Body(iter)
  <1>1. /\ <<>> \in V /\ DOMAIN list = D /\ Len(list) \in Nat
        /\ \A i \in D : list[i] \in S
    BY DEF Distinct
  <1>2. ASSUME NEW v \in V, NEW m \in S
        PROVE  /\ step[<<v, m>>] = IF Contains(v, m) THEN v ELSE Append(v, m)
               /\ step[<<v, m>>] \in V
    <2>1. ASSUME ~Contains(v, m) PROVE Append(v, m) \in V
      <3>1. /\ v \in Seq(S) /\ Len(v) \in Nat /\ DOMAIN v = 1 .. Len(v)
            /\ Append(v, m) \in Seq(S) /\ DOMAIN Append(v, m) = 1 .. Len(v) + 1
            /\ Append(v, m)[Len(v) + 1] = m
            /\ \A a \in DOMAIN v : Append(v, m)[a] = v[a]
        OBVIOUS
      <3>2. \A a \in DOMAIN v : v[a] # m
        BY <2>1, <3>1 DEF Contains
      <3>3. Distinct(Append(v, m))
        BY <3>1, <3>2 DEF Distinct
      <3> QED
        BY <3>1, <3>3
    <2> QED
      BY <2>1
  <1>3. IsLoop(V, S, step, <<>>, list)
    <2>1. step \in [V \X S -> V]
      BY <1>2
    <2> QED
      BY <1>1, <2>1 DEF IsLoop
  <1>4. Dedupe(list) = loop[D]
    BY <1>1 DEF Dedupe, FoldLeft, MapThenFoldSet
  <1>5. \A s \in SUBSET D : s # {} => Max(s) \in D /\ s \ {Max(s)} \in SUBSET D
    BY <1>1, MaxIsMember
  <1> HIDE DEF step, V, D
  <1>6. \E iter : iter = Body(iter)
    <2>0. PICK iter : StaysIn(iter, V, step, <<>>, list)
      BY <1>3, FoldExists
    <2>1. /\ iter \in [SUBSET D -> V]
          /\ iter[{}] = <<>>
          /\ \A s \in SUBSET D :
                s # {} => iter[s] = step[<<iter[s \ {Max(s)}], list[Max(s)]>>]
      BY <2>0 DEF StaysIn, D
    <2>2. ASSUME NEW s \in SUBSET D
          PROVE  iter[s] = Body(iter)[s]
      <3>1. CASE s = {}
        BY <2>1, <3>1
      <3>2. CASE s # {}
        BY <1>1, <1>2, <1>5, <2>1, <3>2
      <3> QED
        BY <3>1, <3>2
    <2> QED
      BY <2>1, <2>2
  <1>7. loop = Body(loop)
    BY <1>6
  <1> HIDE DEF loop
  <1>8. Unfolds(loop, V, step, <<>>, list)
    <2>1. {} \in SUBSET D /\ loop[{}] = <<>>
      BY <1>7
    <2>2. ASSUME NEW s \in SUBSET D, s # {}, loop[s \ {Max(s)}] \in V
          PROVE  loop[s] = step[<<loop[s \ {Max(s)}], list[Max(s)]>>]
      BY <1>1, <1>2, <1>5, <1>7, <2>2, ZenonT(30)
    <2> QED
      BY <2>1, <2>2 DEF Unfolds, D
  <1>9. PICK acc : Accumulates(acc, V, step, <<>>, list) /\ acc[Len(list)] = loop[1 .. Len(list)]
    BY <1>3, <1>8, FoldSteps
  <1>10. Dedupe(list) \in V
    BY <1>1, <1>4, <1>9 DEF Accumulates, D
  <1> QED
    BY <1>10 DEF V

\* A list has finitely many elements.
LEMMA ListIsFinite ==
    ASSUME NEW S, NEW list \in Seq(S)
    PROVE  IsFiniteSet(ToSet(list)) /\ ToSet(list) \in SUBSET S
PROOF
  <1>1. list \in [1 .. Len(list) -> ToSet(list)] /\ Len(list) \in Nat /\ ToSet(list) \in SUBSET S
    BY DEF ToSet
  <1>2. \A x \in ToSet(list) : \E i \in 1 .. Len(list) : list[i] = x
    BY DEF ToSet
  <1>3. list \in Surjection(1 .. Len(list), ToSet(list))
    BY <1>1, <1>2, Zenon DEF Surjection
  <1> QED
    BY <1>1, <1>3, FS_Interval, FS_Surjection

=============================================================================
