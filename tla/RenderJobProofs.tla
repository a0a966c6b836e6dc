--------------------------- MODULE RenderJobProofs ---------------------------
(***************************************************************************)
(* Proofs about RenderJob, for any timeline, any order and any bounds.     *)
(*                                                                         *)
(* Ranges: the loops of FrameRanges are folds, see FoldLemmas.  A list     *)
(* that is normalised says the same frames in the fewest ranges, and what  *)
(* is left of a target is what is not done.                                *)
(*                                                                         *)
(* Shards: a slice of n frames is cut into pieces of n \div count frames,  *)
(* of which the first n % count have one frame more.                       *)
(*                                                                         *)
(* The job: Books keeps what is counted and completed within the target,   *)
(* whatever the workers do to each other.  Origins follows each frame from *)
(* the film it was drawn from to the checkpoint and to the workers that    *)
(* trust it, and Economy weighs what was drawn against what is done, saved *)
(* and lost; both need that a directory is one worker's at a time and that *)
(* no edit is taken back (Undisturbed).                                    *)
(***************************************************************************)
EXTENDS RenderJob, FoldLemmas

-----------------------------------------------------------------------------
\* Arithmetic.

LEMMA Remainder ==
    ASSUME NEW n \in Nat, NEW d \in Nat \ {0}, NEW q \in Nat, NEW r \in 0 .. d - 1,
           n = d * q + r
    PROVE  n % d = r
  OBVIOUS

LEMMA Division ==
    ASSUME NEW n \in Nat, NEW d \in Nat \ {0}
    PROVE  /\ n \div d \in Nat /\ n % d \in 0 .. d - 1
           /\ n = d * (n \div d) + (n % d)
PROOF
  <1> DEFINE q == n \div d
             p == d * q
             r == n - p
  <1>1. q \in Nat
    OBVIOUS
  <1>2. p \in Nat /\ p <= n
    BY <1>1
  <1>3. n - p < d
    <2>1. q \in Int /\ p \in Int /\ p = q * d
      BY <1>1
    <2> QED
      BY <2>1
  <1>4. r \in 0 .. d - 1 /\ n = p + r
    BY <1>2, <1>3
  <1>5. n % d = r
    <2> HIDE DEF q, r
    <2> QED
      BY <1>1, <1>4, Remainder
  <1>6. n % d \in 0 .. d - 1 /\ n = d * q + (n % d)
    <2> HIDE DEF q, r
    <2> QED
      BY <1>4, <1>5
  <1> QED
    BY <1>1, <1>6

LEMMA Product ==
    ASSUME NEW a \in Nat, NEW b \in Nat
    PROVE  a * b \in Nat
  OBVIOUS

LEMMA Distribution ==
    ASSUME NEW a \in Nat, NEW b \in Nat, NEW c \in Nat
    PROVE  a * (b + c) = a * b + a * c
  OBVIOUS

LEMMA Monotonic ==
    ASSUME NEW a \in Nat, NEW b \in Nat, NEW c \in Nat, b <= c
    PROVE  a * b <= a * c
PROOF
  <1>1. c - b \in Nat /\ c = b + (c - b)
    OBVIOUS
  <1>2. a * c = a * b + a * (c - b) /\ a * (c - b) \in Nat /\ a * b \in Nat /\ a * c \in Nat
    BY <1>1, Distribution, Product
  <1> QED
    BY <1>2

-----------------------------------------------------------------------------
\* A shard.  The slice is from f to t; Begins(i) is where shard i begins.

Base(n, d) == n \div d
Extra(n, d) == n % d

Begins(f, n, d, i) == f + Base(n, d) * i + Least(i, Extra(n, d))
Size(n, d, i) == Base(n, d) + IF i < Extra(n, d) THEN 1 ELSE 0

LEMMA ShardTypes ==
    ASSUME NEW f \in Nat, NEW n \in Nat, NEW d \in Nat \ {0}, NEW i \in Nat
    PROVE  /\ Base(n, d) \in Nat /\ Extra(n, d) \in 0 .. d - 1
           /\ n = d * Base(n, d) + Extra(n, d)
           /\ Begins(f, n, d, i) \in Nat /\ Size(n, d, i) \in Nat
           /\ Size(n, d, i) \in {Base(n, d), Base(n, d) + 1}
PROOF
  <1>1. /\ Base(n, d) \in Nat /\ Extra(n, d) \in 0 .. d - 1
        /\ n = d * Base(n, d) + Extra(n, d)
    BY Division DEF Base, Extra
  <1>2. Base(n, d) * i \in Nat
    BY <1>1, Product
  <1> QED
    BY <1>1, <1>2 DEF Begins, Size, Least

LEMMA ShardIsASlice ==
    ASSUME NEW f \in Nat, NEW t \in Nat, f <= t, NEW d \in Nat \ {0}, NEW i \in Nat
    PROVE  LET s == ShardRange(FrameRange(f, t), i, d)
           IN /\ s.from = Begins(f, t - f, d, i)
              /\ s.to = Begins(f, t - f, d, i) + Size(t - f, d, i)
PROOF
  <1> DEFINE n == t - f
             b == Base(n, d)
             s == ShardRange(FrameRange(f, t), i, d)
             m == IF i < Extra(n, d) THEN 1 ELSE 0
  <1>1. n \in Nat
    OBVIOUS
  <1>2. s.from = Begins(f, n, d, i) /\ s.to = Begins(f, n, d, i) + b + m
    BY DEF ShardRange, FrameRange, Begins, Base, Extra
  <1> HIDE DEF n
  <1>3. b \in Nat /\ Begins(f, n, d, i) \in Nat /\ m \in Nat
    BY <1>1, ShardTypes
  <1> HIDE DEF s, m, b
  <1>4. Begins(f, n, d, i) + b + m = Begins(f, n, d, i) + (b + m)
    BY <1>3
  <1>5. Size(n, d, i) = b + m
    BY DEF Size, b, m
  <1> QED
    BY <1>2, <1>4, <1>5 DEF n, s

\* A shard ends where the next one begins, and the last one where the slice ends.
LEMMA NextBegins ==
    ASSUME NEW f \in Nat, NEW n \in Nat, NEW d \in Nat \ {0}, NEW i \in Nat
    PROVE  Begins(f, n, d, i) + Size(n, d, i) = Begins(f, n, d, i + 1)
PROOF
  <1> DEFINE b == Base(n, d)
             e == Extra(n, d)
  <1>1. b \in Nat /\ e \in Nat
    BY ShardTypes
  <1>2. b * (i + 1) = b * i + b /\ b * i \in Nat
    BY <1>1, Distribution, Product
  <1>3. Least(i + 1, e) = Least(i, e) + IF i < e THEN 1 ELSE 0
    BY <1>1 DEF Least
  <1>4. Least(i, e) \in Nat
    BY <1>1 DEF Least
  <1> HIDE DEF b, e
  <1> QED
    BY <1>1, <1>2, <1>3, <1>4 DEF Begins, Size, b, e

LEMMA LaterBegins ==
    ASSUME NEW f \in Nat, NEW n \in Nat, NEW d \in Nat \ {0}, NEW i \in Nat, NEW j \in Nat,
           i <= j
    PROVE  Begins(f, n, d, i) <= Begins(f, n, d, j)
PROOF
  <1> DEFINE b == Base(n, d)
             e == Extra(n, d)
  <1>1. b \in Nat /\ e \in Nat
    BY ShardTypes
  <1>2. b * i <= b * j /\ b * i \in Nat /\ b * j \in Nat
    BY <1>1, Monotonic, Product
  <1>3. Least(i, e) <= Least(j, e) /\ Least(i, e) \in Nat /\ Least(j, e) \in Nat
    BY <1>1 DEF Least
  <1> HIDE DEF b, e
  <1> QED
    BY <1>2, <1>3 DEF Begins, b, e

LEMMA FirstAndLast ==
    ASSUME NEW f \in Nat, NEW n \in Nat, NEW d \in Nat \ {0}
    PROVE  Begins(f, n, d, 0) = f /\ Begins(f, n, d, d) = f + n
PROOF
  <1> DEFINE b == Base(n, d)
             e == Extra(n, d)
  <1>1. b \in Nat /\ e \in 0 .. d - 1 /\ n = d * b + e
    BY ShardTypes
  <1>2. b * 0 = 0 /\ b * d = d * b /\ b * d \in Nat
    BY <1>1
  <1>3. Least(0, e) = 0 /\ Least(d, e) = e
    BY <1>1 DEF Least
  <1> HIDE DEF b, e
  <1> QED
    BY <1>1, <1>2, <1>3 DEF Begins, b, e

\* The frame at offset o of the slice has its shard: by division, by the larger size while
\* there are frames to spare and by the smaller one after that.
LEMMA EveryFrameHasAShard ==
    ASSUME NEW f \in Nat, NEW n \in Nat, NEW d \in Nat \ {0}, NEW o \in 0 .. n - 1
    PROVE  \E i \in 0 .. d - 1 :
               Begins(f, n, d, i) <= f + o /\ f + o < Begins(f, n, d, i) + Size(n, d, i)
PROOF
  <1> DEFINE b    == Base(n, d)
             e    == Extra(n, d)
             long == (b + 1) * e
  <1>1. b \in Nat /\ e \in 0 .. d - 1 /\ e \in Nat /\ n = d * b + e /\ o \in Nat /\ o < n
    BY ShardTypes
  <1>2. long \in Nat /\ long = b * e + e /\ b * e \in Nat
    <2>1. (b + 1) * e = e * (b + 1) /\ e * (b + 1) = e * b + e * 1 /\ e * b = b * e
      BY <1>1, Distribution
    <2> QED
      BY <1>1, <2>1, Product
  <1>3. CASE o < long
    <2> DEFINE q == o \div (b + 1)
               r == o % (b + 1)
    <2>1. q \in Nat /\ r \in 0 .. b /\ o = (b + 1) * q + r
      <3> DEFINE c == b + 1
      <3>1. c \in Nat \ {0} /\ 0 .. c - 1 = 0 .. b
        BY <1>1
      <3> HIDE DEF c
      <3>2. o \div c \in Nat /\ o % c \in 0 .. c - 1 /\ o = c * (o \div c) + (o % c)
        BY <1>1, <3>1, Division
      <3> QED
        BY <3>1, <3>2 DEF c
    <2>2. q < e
      <3> HIDE DEF b, e, q, r
      <3>1. e <= q => long <= (b + 1) * q
        BY <1>1, <2>1, Monotonic
      <3>2. (b + 1) * q \in Nat
        BY <1>1, <2>1, Product
      <3> QED
        BY <1>1, <1>2, <1>3, <2>1, <3>1, <3>2
    <2>3. (b + 1) * q = b * q + q /\ b * q \in Nat
      <3> HIDE DEF b, e, q, r
      <3>1. (b + 1) * q = q * (b + 1) /\ q * (b + 1) = q * b + q * 1 /\ q * b = b * q
        BY <1>1, <2>1, Distribution
      <3> QED
        BY <1>1, <2>1, <3>1, Product
    <2>4. Begins(f, n, d, q) = f + b * q + q /\ Size(n, d, q) = b + 1
      <3>1. Least(q, e) = q
        BY <1>1, <2>1, <2>2 DEF Least
      <3> QED
        BY <1>1, <2>1, <2>2, <3>1 DEF Begins, Size
    <2> HIDE DEF b, e, q, r
    <2>5. q \in 0 .. d - 1
      BY <1>1, <2>1, <2>2
    <2>6. Begins(f, n, d, q) <= f + o /\ f + o < Begins(f, n, d, q) + Size(n, d, q)
      BY <1>1, <2>1, <2>3, <2>4
    <2> QED
      BY <2>5, <2>6
  <1>4. CASE long <= o
    <2> DEFINE o2 == o - long
               q  == o2 \div b
               r  == o2 % b
               i  == e + q
    <2>1. d - e \in Nat /\ d * b = b * e + b * (d - e) /\ b * (d - e) \in Nat
      <3>1. d - e \in Nat /\ d = e + (d - e) /\ d * b = b * d
        BY <1>1
      <3> QED
        BY <1>1, <3>1, Distribution, Product
    <2> HIDE DEF b, e, long
    <2>2. o2 \in Nat /\ o2 < b * (d - e)
      BY <1>1, <1>2, <1>4, <2>1
    <2>3. b # 0
      <3>1. 0 * (d - e) = 0
        BY <2>1
      <3> QED
        BY <1>1, <2>2, <3>1
    <2> HIDE DEF o2
    <2>4. q \in Nat /\ r \in 0 .. b - 1 /\ o2 = b * q + r
      BY <1>1, <2>2, <2>3, Division
    <2> HIDE DEF q, r
    <2>5. q < d - e
      <3>1. d - e <= q => b * (d - e) <= b * q
        BY <1>1, <2>1, <2>4, Monotonic
      <3>2. b * q \in Nat
        BY <1>1, <2>4, Product
      <3> QED
        BY <1>1, <2>1, <2>2, <2>4, <3>1, <3>2
    <2>6. i \in 0 .. d - 1 /\ ~(i < e) /\ i \in Nat
      BY <1>1, <2>1, <2>4, <2>5
    <2>7. b * i = b * e + b * q /\ b * q \in Nat
      BY <1>1, <2>4, Distribution, Product
    <2>8. Begins(f, n, d, i) = f + b * i + e /\ Size(n, d, i) = b
      <3>1. Least(i, e) = e
        BY <1>1, <2>6 DEF Least
      <3> HIDE DEF i
      <3> QED
        BY <1>1, <2>6, <3>1 DEF Begins, Size, b, e
    <2> HIDE DEF i
    <2>9. Begins(f, n, d, i) <= f + o /\ f + o < Begins(f, n, d, i) + Size(n, d, i)
      <3>1. o = b * e + e + (b * q + r)
        BY <1>1, <1>2, <2>2, <2>4, <2>7 DEF o2
      <3> QED
        BY <1>1, <1>2, <2>4, <2>6, <2>7, <2>8, <3>1
    <2> QED
      BY <2>6, <2>9
  <1> QED
    BY <1>1, <1>2, <1>3, <1>4

-----------------------------------------------------------------------------
\* The order.

Share(o, i) == FramesIn(ShardRange(o.slice, i, o.shard.count))

LEMMA Partition ==
    ASSUME NEW o \in OrdersThatStart
    PROVE  /\ UNION {Share(o, i) : i \in 0 .. o.shard.count - 1} = FramesIn(o.slice)
           /\ \A i, j \in 0 .. o.shard.count - 1 : i < j =>
                 /\ Share(o, i) \cap Share(o, j) = {}
                 /\ Cardinality(Share(o, i)) - Cardinality(Share(o, j)) \in {0, 1}
PROOF
  <1> DEFINE f == o.slice.from
             t == o.slice.to
             n == t - f
             d == o.shard.count
  <1>1. /\ f \in Nat /\ t \in Nat /\ f < t /\ o.slice = FrameRange(f, t)
        /\ FramesIn(o.slice) = f .. t - 1
    <2>1. o.slice \in Slices /\ FramesIn(o.slice) # {}
      BY DEF OrdersThatStart
    <2>2. NumFrames \in Nat
      BY NumFramesAssumption
    <2>3. PICK a \in Frames, z \in 1 .. NumFrames : o.slice = FrameRange(a, z)
      BY <2>1 DEF Slices
    <2>4. f = a /\ t = z /\ a \in Nat /\ z \in Nat
      BY <2>2, <2>3 DEF FrameRange, Frames
    <2> QED
      BY <2>1, <2>3, <2>4 DEF FramesIn
  <1>2. d \in Nat \ {0}
    <2>1. o.shard \in Shards \cup {Unsharded}
      BY DEF OrdersThatStart
    <2> QED
      BY <2>1, ShardCountsAssumption DEF Shards, Unsharded
  <1>3. n \in Nat /\ t = f + n
    BY <1>1
  <1>4. ASSUME NEW i \in 0 .. d - 1
        PROVE  Share(o, i) = Begins(f, n, d, i) .. (Begins(f, n, d, i) + Size(n, d, i)) - 1
    <2>1. o.slice = FrameRange(f, t) /\ f <= t /\ i \in Nat
      BY <1>1, <1>2
    <2> DEFINE s == ShardRange(FrameRange(f, t), i, d)
    <2>2. Share(o, i) = s.from .. s.to - 1
      BY <1>1 DEF Share, FramesIn
    <2> HIDE DEF f, t, d
    <2>3. s.from = Begins(f, n, d, i) /\ s.to = Begins(f, n, d, i) + Size(n, d, i)
      BY <1>1, <1>2, <2>1, ShardIsASlice
    <2> HIDE DEF s, n
    <2> QED
      BY <2>2, <2>3
  <1> HIDE DEF f, t, n, d
  <1>5. ASSUME NEW i \in 0 .. d - 1
        PROVE  /\ i \in Nat /\ Begins(f, n, d, i) \in Nat /\ Size(n, d, i) \in Nat
               /\ f <= Begins(f, n, d, i) /\ Begins(f, n, d, i) + Size(n, d, i) <= t
    <2>1. i \in Nat /\ i + 1 \in Nat /\ 0 <= i /\ i + 1 <= d /\ d \in Nat
      BY <1>2
    <2>2. Begins(f, n, d, i) \in Nat /\ Size(n, d, i) \in Nat
      BY <1>1, <1>2, <1>3, <2>1, ShardTypes
    <2>3. f <= Begins(f, n, d, i)
      <3>1. Begins(f, n, d, 0) = f /\ 0 \in Nat
        BY <1>1, <1>2, <1>3, FirstAndLast
      <3>2. Begins(f, n, d, 0) <= Begins(f, n, d, i)
        BY <1>1, <1>2, <1>3, <2>1, <3>1, LaterBegins
      <3> QED
        BY <3>1, <3>2
    <2>4. Begins(f, n, d, i + 1) <= t
      <3>1. Begins(f, n, d, d) = f + n
        BY <1>1, <1>2, <1>3, FirstAndLast
      <3>2. Begins(f, n, d, i + 1) <= Begins(f, n, d, d)
        BY <1>1, <1>2, <1>3, <2>1, LaterBegins
      <3> QED
        BY <1>3, <3>1, <3>2
    <2>5. Begins(f, n, d, i) + Size(n, d, i) = Begins(f, n, d, i + 1)
      BY <1>1, <1>2, <1>3, <2>1, NextBegins
    <2> QED
      BY <2>1, <2>2, <2>3, <2>4, <2>5
  <1>6. UNION {Share(o, i) : i \in 0 .. d - 1} = f .. t - 1
    <2>1. ASSUME NEW i \in 0 .. d - 1, NEW x \in Share(o, i)
          PROVE  x \in f .. t - 1
      BY <1>1, <1>4, <1>5
    <2>2. ASSUME NEW x \in f .. t - 1
          PROVE  \E i \in 0 .. d - 1 : x \in Share(o, i)
      <3> DEFINE off == x - f
      <3>1. off \in 0 .. n - 1 /\ x = f + off /\ x \in Nat
        BY <1>1, <1>3
      <3> HIDE DEF off
      <3>2. PICK i \in 0 .. d - 1 :
               Begins(f, n, d, i) <= f + off /\ f + off < Begins(f, n, d, i) + Size(n, d, i)
        BY <1>1, <1>2, <1>3, <3>1, EveryFrameHasAShard
      <3>3. x \in Begins(f, n, d, i) .. (Begins(f, n, d, i) + Size(n, d, i)) - 1
        BY <1>5, <3>1, <3>2
      <3> QED
        BY <1>4, <3>3
    <2> QED
      BY <2>1, <2>2
  <1>7. ASSUME NEW i \in 0 .. d - 1, NEW j \in 0 .. d - 1, i < j
        PROVE  /\ Share(o, i) \cap Share(o, j) = {}
               /\ Cardinality(Share(o, i)) - Cardinality(Share(o, j)) \in {0, 1}
    <2>1. Begins(f, n, d, i) + Size(n, d, i) <= Begins(f, n, d, j)
      <3>1. i \in Nat /\ j \in Nat /\ i + 1 \in Nat /\ i + 1 <= j
        BY <1>2, <1>7
      <3>2. Begins(f, n, d, i + 1) <= Begins(f, n, d, j)
        BY <1>1, <1>2, <1>3, <3>1, LaterBegins
      <3> QED
        BY <1>1, <1>2, <1>3, <3>1, <3>2, NextBegins
    <2>2. Share(o, i) \cap Share(o, j) = {}
      BY <1>4, <1>5, <2>1
    <2>3. ASSUME NEW k \in 0 .. d - 1
          PROVE  Cardinality(Share(o, k)) = Size(n, d, k)
      <3> DEFINE from == Begins(f, n, d, k)
                 last == (Begins(f, n, d, k) + Size(n, d, k)) - 1
      <3>1. from \in Int /\ last \in Int /\ (last - from) + 1 = Size(n, d, k)
            /\ (from > last => Size(n, d, k) = 0)
        BY <1>5
      <3>2. Share(o, k) = from .. last
        BY <1>4
      <3> HIDE DEF from, last
      <3>3. Cardinality(from .. last) = IF from > last THEN 0 ELSE last - from + 1
        BY <3>1, FS_Interval
      <3> QED
        BY <3>1, <3>2, <3>3
    <2>4. Size(n, d, i) - Size(n, d, j) \in {0, 1}
      <3>1. Base(n, d) \in Nat /\ Extra(n, d) \in Nat
        BY <1>1, <1>2, <1>3, <1>5, ShardTypes
      <3>2. j < Extra(n, d) => i < Extra(n, d)
        BY <1>5, <1>7, <3>1
      <3> QED
        BY <3>1, <3>2 DEF Size
    <2> QED
      BY <2>2, <2>3, <2>4
  <1> QED
    BY <1>1, <1>6, <1>7 DEF d

-----------------------------------------------------------------------------
\* Lists of ranges.

\* Ranges, empty ones and such as run backwards among them.
Stretch == [from : Nat, to : Nat]

LEMMA FrameRangeIsStretch ==
    ASSUME NEW a \in Nat, NEW b \in Nat
    PROVE  /\ FrameRange(a, b) \in Stretch
           /\ FrameRange(a, b).from = a /\ FrameRange(a, b).to = b
           /\ FramesIn(FrameRange(a, b)) = a .. b - 1
  BY DEF FrameRange, FramesIn, Stretch

LEMMA InFrames ==
    ASSUME NEW r \in Stretch
    PROVE  /\ r.from \in Nat /\ r.to \in Nat
           /\ \A f : f \in FramesIn(r) <=> f \in Nat /\ r.from <= f /\ f < r.to
  BY DEF FramesIn, Stretch

LEMMA InAllFrames ==
    ASSUME NEW list \in Seq(Stretch)
    PROVE  /\ \A i \in DOMAIN list : FramesIn(list[i]) \subseteq AllFramesIn(list)
           /\ \A f : f \in AllFramesIn(list) <=> \E i \in DOMAIN list : f \in FramesIn(list[i])
           /\ AllFramesIn(list) \subseteq Nat
PROOF
  <1>1. \A f : f \in AllFramesIn(list) <=> \E i \in DOMAIN list : f \in FramesIn(list[i])
    BY DEF AllFramesIn
  <1>2. \A i \in DOMAIN list : list[i] \in Stretch
    OBVIOUS
  <1> QED
    BY <1>1, <1>2, InFrames

LEMMA NoFrames == AllFramesIn(<<>>) = {} /\ IsCanonical(<<>>) /\ <<>> \in Seq(Stretch)
  BY DEF AllFramesIn, IsCanonical

\* One range more, at the end.
LEMMA FramesAppended ==
    ASSUME NEW list \in Seq(Stretch), NEW r \in Stretch
    PROVE  /\ Append(list, r) \in Seq(Stretch)
           /\ AllFramesIn(Append(list, r)) = AllFramesIn(list) \cup FramesIn(r)
PROOF
  <1> DEFINE more == Append(list, r)
  <1>1. /\ more \in Seq(Stretch) /\ DOMAIN list = 1 .. Len(list) /\ Len(list) \in Nat
        /\ DOMAIN more = 1 .. Len(list) + 1
        /\ more[Len(list) + 1] = r /\ \A i \in DOMAIN list : more[i] = list[i]
    OBVIOUS
  <1> HIDE DEF more
  <1>2. \A f : f \in AllFramesIn(more) <=> f \in AllFramesIn(list) \cup FramesIn(r)
    <2>1. \A f : f \in AllFramesIn(more) <=> \E i \in DOMAIN more : f \in FramesIn(more[i])
      BY <1>1, InAllFrames
    <2>2. \A f : f \in AllFramesIn(list) <=> \E i \in DOMAIN list : f \in FramesIn(list[i])
      BY InAllFrames
    <2>3. DOMAIN more = DOMAIN list \cup {Len(list) + 1}
      BY <1>1
    <2> QED
      BY <1>1, <2>1, <2>2, <2>3
  <1> QED
    BY <1>1, <1>2 DEF more

LEMMA LastApart ==
    ASSUME NEW list \in Seq(Stretch), list # <<>>
    PROVE  /\ Front(list) \in Seq(Stretch) /\ Last(list) \in Stretch
           /\ Len(Front(list)) = Len(list) - 1 /\ Len(list) \in Nat \ {0}
           /\ \A i \in 1 .. Len(list) - 1 : Front(list)[i] = list[i]
           /\ list = Append(Front(list), Last(list))
PROOF
  <1> DEFINE n == Len(list)
             front == SubSeq(list, 1, n - 1)
  <1>1. n \in Nat \ {0} /\ DOMAIN list = 1 .. n /\ n \in 1 .. n /\ list[n] \in Stretch
    OBVIOUS
  <1>2. /\ front \in Seq(Stretch) /\ Len(front) = n - 1
        /\ \A i \in 1 .. n - 1 : front[i] = list[i]
    BY SMTT(30)
  <1> HIDE DEF front
  <1>3. /\ Append(front, list[n]) \in Seq(Stretch) /\ Len(Append(front, list[n])) = n
        /\ Append(front, list[n])[n] = list[n]
        /\ \A i \in 1 .. n - 1 : Append(front, list[n])[i] = list[i]
    <2> HIDE DEF n
    <2>1. (n - 1) + 1 = n /\ n - 1 \in Nat
      BY <1>1
    <2>2. /\ Append(front, list[n]) \in Seq(Stretch) /\ Len(Append(front, list[n])) = (n - 1) + 1
          /\ Append(front, list[n])[(n - 1) + 1] = list[n]
          /\ \A i \in 1 .. n - 1 : Append(front, list[n])[i] = front[i]
      BY <1>1, <1>2
    <2> QED
      BY <1>2, <2>1, <2>2
  <1>4. Append(front, list[n]) = list
    <2> DEFINE more == Append(front, list[n])
    <2> HIDE DEF more
    <2>1. /\ more \in Seq(Stretch) /\ Len(more) = n /\ more[n] = list[n]
          /\ \A i \in 1 .. n - 1 : more[i] = list[i]
      BY <1>3 DEF more
    <2>2. \A i \in 1 .. n : more[i] = list[i]
      BY <1>1, <2>1
    <2>3. more = list
      BY <1>1, <2>1, <2>2
    <2> QED
      BY <2>3 DEF more
  <1>5. Front(list) = front /\ Last(list) = list[n]
    BY DEF Front, Last, front
  <1> QED
    BY <1>1, <1>2, <1>4, <1>5

LEMMA CanonicalAppended ==
    ASSUME NEW list \in Seq(Stretch), NEW r \in Stretch, IsCanonical(list), r.from < r.to,
           list # <<>> => Last(list).to < r.from
    PROVE  IsCanonical(Append(list, r))
PROOF
  <1> DEFINE more == Append(list, r)
             n == Len(list)
  <1>1. /\ DOMAIN list = 1 .. n /\ n \in Nat /\ DOMAIN more = 1 .. n + 1
        /\ more[n + 1] = r /\ \A i \in 1 .. n : more[i] = list[i]
        /\ list # <<>> <=> n # 0
    OBVIOUS
  <1>2. n # 0 => Last(list) = list[n]
    BY DEF Last
  <1> HIDE DEF more, n
  <1>3. ASSUME NEW i \in DOMAIN more
        PROVE  /\ more[i].from < more[i].to
               /\ i > 1 => more[i - 1].to < more[i].from
    <2>1. CASE i = n + 1
      <3>1. i > 1 => n \in 1 .. n /\ i - 1 = n /\ n # 0
        BY <1>1, <2>1
      <3> QED
        BY <1>1, <1>2, <2>1, <3>1
    <2>2. CASE i # n + 1
      <3>1. i \in 1 .. n /\ (i > 1 => i - 1 \in 1 .. n)
        BY <1>1, <2>2
      <3> QED
        BY <1>1, <3>1 DEF IsCanonical
    <2> QED
      BY <2>1, <2>2
  <1> QED
    BY <1>3 DEF IsCanonical, more

\* One range merged.
LEMMA MergeAdds ==
    ASSUME NEW merged \in Seq(Stretch), IsCanonical(merged),
           NEW r \in Stretch, r.from < r.to,
           merged # <<>> => Last(merged).from <= r.from
    PROVE  /\ Merge(merged, r) \in Seq(Stretch)
           /\ IsCanonical(Merge(merged, r))
           /\ AllFramesIn(Merge(merged, r)) = AllFramesIn(merged) \cup FramesIn(r)
           /\ Merge(merged, r) # <<>> /\ Last(Merge(merged, r)).from <= r.from
PROOF
  <1>0. r.from \in Nat /\ r.to \in Nat
    BY InFrames
  <1>1. CASE merged # <<>> /\ r.from <= Last(merged).to
    <2> DEFINE front == Front(merged)
               last == Last(merged)
               both == FrameRange(last.from, Greatest(last.to, r.to))
               n == Len(merged)
    <2>1. /\ front \in Seq(Stretch) /\ last \in Stretch /\ merged = Append(front, last)
          /\ n \in Nat \ {0} /\ Len(front) = n - 1
          /\ \A i \in 1 .. n - 1 : front[i] = merged[i]
      BY <1>1, LastApart
    <2>2. last.from \in Nat /\ last.to \in Nat /\ last = merged[n] /\ DOMAIN merged = 1 .. n
          /\ DOMAIN front = 1 .. n - 1
      BY <2>1, InFrames DEF Last
    <2> HIDE DEF front, last, n
    <2>3. /\ both \in Stretch /\ both.from = last.from /\ both.to = Greatest(last.to, r.to)
          /\ both.to \in Nat /\ FramesIn(both) = both.from .. both.to - 1
      <3>1. Greatest(last.to, r.to) \in Nat
        BY <1>0, <2>2 DEF Greatest
      <3> QED
        BY <2>2, <3>1, FrameRangeIsStretch
    <2>4. Merge(merged, r) = Append(front, both)
      BY <1>1 DEF Merge, front, last
    <2> HIDE DEF both
    <2>5. FramesIn(both) = FramesIn(last) \cup FramesIn(r)
      <3>1. \A f : f \in FramesIn(both) <=> f \in FramesIn(last) \cup FramesIn(r)
        <4>1. \A f : f \in FramesIn(both) <=> f \in Nat /\ both.from <= f /\ f < both.to
          BY <2>3, InFrames
        <4>2. \A f : f \in FramesIn(last) <=> f \in Nat /\ last.from <= f /\ f < last.to
          BY <2>1, InFrames
        <4>3. \A f : f \in FramesIn(r) <=> f \in Nat /\ r.from <= f /\ f < r.to
          BY InFrames
        <4>4. r.from <= last.to /\ last.from <= r.from
          BY <1>1 DEF last
        <4> QED
          BY <1>0, <2>2, <2>3, <4>1, <4>2, <4>3, <4>4 DEF Greatest
      <3> QED
        BY <3>1
    <2>6. AllFramesIn(Append(front, both)) = AllFramesIn(merged) \cup FramesIn(r)
      <3>1. AllFramesIn(Append(front, both)) = AllFramesIn(front) \cup FramesIn(both)
        BY <2>1, <2>3, FramesAppended
      <3>2. AllFramesIn(merged) = AllFramesIn(front) \cup FramesIn(last)
        BY <2>1, FramesAppended
      <3> QED
        BY <2>5, <3>1, <3>2
    <2>7. IsCanonical(front)
      <3>1. ASSUME NEW i \in DOMAIN front
            PROVE  front[i].from < front[i].to /\ (i > 1 => front[i - 1].to < front[i].from)
        <4>1. i \in 1 .. n - 1 /\ i \in DOMAIN merged /\ (i > 1 => i - 1 \in 1 .. n - 1)
          BY <2>1, <2>2
        <4> QED
          BY <2>1, <4>1 DEF IsCanonical
      <3> QED
        BY <3>1 DEF IsCanonical
    <2>8. front # <<>> => Last(front).to < both.from
      <3> SUFFICES ASSUME front # <<>> PROVE Last(front).to < both.from
        OBVIOUS
      <3>1. Len(front) # 0
        BY <2>1
      <3>2. n - 1 \in 1 .. n - 1 /\ n > 1 /\ n \in DOMAIN merged
        BY <2>1, <2>2, <3>1
      <3>3. Last(front) = merged[n - 1]
        BY <2>1, <3>2 DEF Last
      <3> QED
        BY <2>2, <2>3, <3>2, <3>3 DEF IsCanonical
    <2>9. both.from < both.to
      <3>1. last.from < last.to
        BY <2>1, <2>2 DEF IsCanonical
      <3> QED
        BY <1>0, <2>2, <2>3, <3>1 DEF Greatest
    <2>10. IsCanonical(Append(front, both))
      BY <2>1, <2>3, <2>7, <2>8, <2>9, CanonicalAppended
    <2>11. Append(front, both) # <<>> /\ Last(Append(front, both)) = both
           /\ Append(front, both) \in Seq(Stretch)
      BY <2>1, <2>3 DEF Last
    <2> QED
      BY <1>1, <2>3, <2>4, <2>6, <2>10, <2>11 DEF last
  <1>2. CASE ~(merged # <<>> /\ r.from <= Last(merged).to)
    <2>1. Merge(merged, r) = Append(merged, r)
      BY <1>2 DEF Merge
    <2>2. merged # <<>> => Last(merged).to < r.from
      <3> SUFFICES ASSUME merged # <<>> PROVE Last(merged).to < r.from
        OBVIOUS
      <3>1. Last(merged).to \in Nat
        BY LastApart, InFrames
      <3> QED
        BY <1>0, <1>2, <3>1
    <2>3. IsCanonical(Append(merged, r))
      BY <2>2, CanonicalAppended
    <2>4. Append(merged, r) # <<>> /\ Last(Append(merged, r)) = r
      <3>1. Len(merged) \in Nat /\ Len(Append(merged, r)) = Len(merged) + 1
            /\ Append(merged, r)[Len(merged) + 1] = r
        OBVIOUS
      <3> QED
        BY <3>1 DEF Last
    <2> QED
      BY <1>0, <2>1, <2>3, <2>4, FramesAppended
  <1> QED
    BY <1>1, <1>2

\* The loop of normaliseRanges, one range after the other.
LEMMA MergeStays ==
    ASSUME NEW merged \in Seq(Stretch), NEW r \in Stretch
    PROVE  Merge(merged, r) \in Seq(Stretch)
PROOF
  <1>1. CASE merged # <<>> /\ r.from <= Last(merged).to
    <2>1. Front(merged) \in Seq(Stretch) /\ Last(merged) \in Stretch
      BY <1>1, LastApart
    <2>2. FrameRange(Last(merged).from, Greatest(Last(merged).to, r.to)) \in Stretch
      <3>1. Last(merged).from \in Nat /\ Greatest(Last(merged).to, r.to) \in Nat
        BY <2>1, InFrames DEF Greatest
      <3> QED
        BY <3>1, FrameRangeIsStretch
    <2>3. Merge(merged, r) = Append(Front(merged),
                                FrameRange(Last(merged).from, Greatest(Last(merged).to, r.to)))
      BY <1>1 DEF Merge
    <2> QED
      BY <2>1, <2>2, <2>3
  <1>2. CASE ~(merged # <<>> /\ r.from <= Last(merged).to)
    BY <1>2 DEF Merge
  <1> QED
    BY <1>1, <1>2

LEMMA MergeLoop ==
    ASSUME NEW list \in Seq(Stretch)
    PROVE  \E acc : /\ acc \in [0 .. Len(list) -> Seq(Stretch)] /\ acc[0] = <<>>
                    /\ \A i \in 1 .. Len(list) : acc[i] = Merge(acc[i - 1], list[i])
                    /\ FoldLeft(Merge, <<>>, list) = acc[Len(list)]
PROOF
  <1> DEFINE V == Seq(Stretch)
             step == [u \in V \X Stretch |-> Merge(u[1], u[2])]
             D == 1 .. Len(list)
             Body(iter) == [s \in SUBSET D |->
                IF s = {} THEN <<>> ELSE Merge(iter[s \ {Max(s)}], list[Max(s)])]
             loop == CHOOSE iter : iter = Body(iter)
  <1>1. /\ <<>> \in V /\ DOMAIN list = D /\ Len(list) \in Nat
        /\ \A i \in D : list[i] \in Stretch
    OBVIOUS
  <1>2. ASSUME NEW v \in V, NEW r \in Stretch
        PROVE  step[<<v, r>>] = Merge(v, r) /\ step[<<v, r>>] \in V
    BY MergeStays
  <1>3. IsLoop(V, Stretch, step, <<>>, list)
    <2>1. step \in [V \X Stretch -> V]
      BY <1>2
    <2> QED
      BY <1>1, <2>1 DEF IsLoop
  <1>4. FoldLeft(Merge, <<>>, list) = loop[D]
    BY <1>1 DEF FoldLeft, MapThenFoldSet
  <1>5. \A s \in SUBSET D : s # {} => Max(s) \in D /\ s \ {Max(s)} \in SUBSET D
    BY <1>1, MaxIsMember
  <1> HIDE DEF step, V, D
  <1>6. \E iter : iter = Body(iter)
    <2>0. PICK iter : StaysIn(iter, V, step, <<>>, list)
      BY <1>3, FoldExists
    <2>1. /\ iter \in [SUBSET D -> V]
          /\ iter[{}] = <<>>
          /\ \A s \in SUBSET D :
                s # {} => iter[s] = step[<<iter[s \ {Max(s)}], list[Max(s)]>>]
      BY <2>0 DEF StaysIn, D
    <2>2. ASSUME NEW s \in SUBSET D
          PROVE  iter[s] = Body(iter)[s]
      <3>1. CASE s = {}
        BY <2>1, <3>1
      <3>2. CASE s # {}
        BY <1>1, <1>2, <1>5, <2>1, <3>2
      <3> QED
        BY <3>1, <3>2
    <2> QED
      BY <2>1, <2>2
  <1>7. loop = Body(loop)
    BY <1>6
  <1> HIDE DEF loop
  <1>8. Unfolds(loop, V, step, <<>>, list)
    <2>1. {} \in SUBSET D /\ loop[{}] = <<>>
      BY <1>7
    <2>2. ASSUME NEW s \in SUBSET D, s # {}, loop[s \ {Max(s)}] \in V
          PROVE  loop[s] = step[<<loop[s \ {Max(s)}], list[Max(s)]>>]
      BY <1>1, <1>2, <1>5, <1>7, <2>2, ZenonT(30)
    <2> QED
      BY <2>1, <2>2 DEF Unfolds, D
  <1>9. PICK acc : Accumulates(acc, V, step, <<>>, list) /\ acc[Len(list)] = loop[1 .. Len(list)]
    BY <1>3, <1>8, FoldSteps
  <1>10. /\ acc \in [0 .. Len(list) -> V] /\ acc[0] = <<>>
         /\ \A i \in D : acc[i] = step[<<acc[i - 1], list[i]>>]
    BY <1>9 DEF Accumulates, D
  <1>11. \A i \in D : acc[i] = Merge(acc[i - 1], list[i])
    <2>1. \A i \in D : i - 1 \in 0 .. Len(list)
      BY <1>1 DEF D
    <2> QED
      BY <1>1, <1>2, <1>10, <2>1
  <1> QED
    BY <1>4, <1>9, <1>10, <1>11 DEF V, D

LEMMA SortedRanges ==
    ASSUME NEW S \in SUBSET Stretch, IsFiniteSet(S)
    PROVE  /\ Sorted(S) \in Seq(S)
           /\ \A r \in S : \E i \in 1 .. Len(Sorted(S)) : Sorted(S)[i] = r
           /\ \A i, j \in 1 .. Len(Sorted(S)) : i < j => MayPrecede(Sorted(S)[i], Sorted(S)[j])
PROOF
  <1> DEFINE before == {p \in S \X S : MayPrecede(p[1], p[2])}
  <1>1. \A a, b \in S : <<a, b>> \in before <=> MayPrecede(a, b)
    OBVIOUS
  <1> HIDE DEF before
  <1>2. \A r \in S : r.from \in Nat /\ r.to \in Nat
    BY InFrames
  <1>3. IsOrderOf(before, S)
    BY <1>1, <1>2 DEF IsOrderOf, MayPrecede
  <1>4. PICK list : list \in SortedBy(before, S)
    BY <1>3, CanBeSorted
  <1>5. /\ list \in SetToSeqs(S)
        /\ \A i, j \in DOMAIN list : i < j => MayPrecede(list[i], list[j])
    <2>1. list \in SetToSeqs(S) /\ \A i \in DOMAIN list : list[i] \in S
      BY <1>4 DEF SortedBy, SetToSeqs
    <2> QED
      BY <1>1, <1>4, <2>1 DEF SortedBy
  <1>6. /\ Sorted(S) \in SetToSeqs(S)
        /\ \A i, j \in DOMAIN Sorted(S) : i < j => MayPrecede(Sorted(S)[i], Sorted(S)[j])
    BY <1>5 DEF Sorted
  <1> HIDE DEF before
  <1>7. Sorted(S) \in Seq(S) /\ \A r \in S : \E i \in 1 .. Len(Sorted(S)) : Sorted(S)[i] = r
    BY <1>6, ListsOfASet
  <1> QED
    BY <1>6, <1>7

\* What normaliseRanges returns: the same frames, sorted and apart.
LEMMA Normalised ==
    ASSUME NEW ranges \in SUBSET Stretch, IsFiniteSet(ranges)
    PROVE  /\ Normalise(ranges) \in Seq(Stretch)
           /\ IsCanonical(Normalise(ranges))
           /\ AllFramesIn(Normalise(ranges)) = UNION {FramesIn(r) : r \in ranges}
PROOF
  <1> DEFINE S == {r \in ranges : r.to > r.from}
             list == Sorted(S)
             n == Len(list)
  <1>1. S \in SUBSET Stretch /\ IsFiniteSet(S) /\ S \in SUBSET ranges
    BY FS_Subset
  <1>2. \A r \in ranges : r.from \in Nat /\ r.to \in Nat
    BY InFrames
  <1>3. /\ list \in Seq(S)
        /\ \A r \in S : \E i \in 1 .. n : list[i] = r
        /\ \A i, j \in 1 .. n : i < j => MayPrecede(list[i], list[j])
    <2> HIDE DEF S
    <2> QED
      BY <1>1, SortedRanges
  <1>4. list \in Seq(Stretch) /\ n \in Nat /\ DOMAIN list = 1 .. n
        /\ \A i \in 1 .. n : list[i] \in S /\ list[i] \in Stretch /\ list[i].from < list[i].to
    <2>1. n \in Nat /\ DOMAIN list = 1 .. n /\ \A i \in 1 .. n : list[i] \in S
      <3> HIDE DEF S, list
      <3> QED
        BY <1>3
    <2>2. \A r \in S : r \in Stretch /\ r.from < r.to
      BY <1>1, <1>2
    <2> HIDE DEF S, list
    <2> QED
      BY <1>1, <1>3, <2>1, <2>2
  <1> HIDE DEF list, n
  <1>5. PICK acc : /\ acc \in [0 .. n -> Seq(Stretch)] /\ acc[0] = <<>>
                   /\ \A i \in 1 .. n : acc[i] = Merge(acc[i - 1], list[i])
                   /\ FoldLeft(Merge, <<>>, list) = acc[n]
    BY <1>4, MergeLoop DEF n
  <1>6. Normalise(ranges) = acc[n]
    BY <1>5 DEF Normalise, list
  <1> DEFINE FramesTo(i) == UNION {FramesIn(list[j]) : j \in 1 .. i}
             Good == {i \in 0 .. n : /\ IsCanonical(acc[i])
                                     /\ AllFramesIn(acc[i]) = FramesTo(i)
                                     /\ acc[i] # <<>> => i \in 1 .. n /\ Last(acc[i]).from <= list[i].from}
  <1>7. 0 \in Good
    <2>1. 1 .. 0 = {} /\ 0 \in 0 .. n
      BY <1>4
    <2> QED
      BY <1>5, <2>1, NoFrames
  <1>8. ASSUME NEW i \in 0 .. n, i \in Good, i < n
        PROVE  i + 1 \in Good
    <2>1. i + 1 \in 1 .. n /\ i + 1 \in 0 .. n /\ (i + 1) - 1 = i /\ i \in Nat
      BY <1>4, <1>8
    <2>2. acc[i + 1] = Merge(acc[i], list[i + 1])
      BY <1>5, <2>1
    <2>3. list[i + 1] \in Stretch /\ list[i + 1].from < list[i + 1].to /\ acc[i] \in Seq(Stretch)
      BY <1>4, <1>5, <2>1
    <2>4. acc[i] # <<>> => Last(acc[i]).from <= list[i + 1].from
      <3> SUFFICES ASSUME acc[i] # <<>> PROVE Last(acc[i]).from <= list[i + 1].from
        OBVIOUS
      <3>1. i \in 1 .. n /\ i < i + 1 /\ Last(acc[i]).from <= list[i].from
        BY <1>8, <2>1
      <3>2. list[i].from <= list[i + 1].from
        <4>1. list[i] \in Stretch /\ list[i + 1] \in Stretch
          BY <1>4, <2>1, <3>1
        <4>2. MayPrecede(list[i], list[i + 1])
          BY <1>3, <2>1, <3>1 DEF n
        <4> QED
          BY <4>1, <4>2, InFrames DEF MayPrecede
      <3>3. Last(acc[i]).from \in Nat /\ list[i].from \in Nat /\ list[i + 1].from \in Nat
        BY <1>4, <2>1, <2>3, <3>1, LastApart, InFrames
      <3> QED
        BY <3>1, <3>2, <3>3
    <2>5. IsCanonical(acc[i])
      BY <1>8
    <2>6. /\ IsCanonical(acc[i + 1])
          /\ AllFramesIn(acc[i + 1]) = AllFramesIn(acc[i]) \cup FramesIn(list[i + 1])
          /\ Last(acc[i + 1]).from <= list[i + 1].from
      BY <2>2, <2>3, <2>4, <2>5, MergeAdds
    <2>7. FramesTo(i + 1) = FramesTo(i) \cup FramesIn(list[i + 1])
      <3>1. 1 .. i + 1 = (1 .. i) \cup {i + 1}
        BY <2>1
      <3> QED
        BY <3>1
    <2>8. AllFramesIn(acc[i]) = FramesTo(i)
      BY <1>8
    <2> HIDE DEF FramesTo
    <2> QED
      BY <2>1, <2>6, <2>7, <2>8
  <1> HIDE DEF Good
  <1>9. n \in Good
    <2>1. 0 .. n \subseteq Good
      BY <1>4, <1>7, <1>8, InductionTo
    <2> QED
      BY <1>4, <2>1
  <1>10. FramesTo(n) = UNION {FramesIn(r) : r \in ranges}
    <2>1. ASSUME NEW f, NEW r \in ranges, f \in FramesIn(r)
          PROVE  f \in FramesTo(n)
      <3>1. r \in S
        <4>1. r.from <= f /\ f < r.to /\ f \in Nat
          BY <2>1, InFrames
        <4> QED
          BY <1>2, <4>1
      <3> QED
        BY <1>3, <2>1, <3>1 DEF n
    <2>2. ASSUME NEW f, NEW i \in 1 .. n, f \in FramesIn(list[i])
          PROVE  f \in UNION {FramesIn(r) : r \in ranges}
      BY <1>1, <1>4, <2>2
    <2> QED
      BY <2>1, <2>2
  <1> HIDE DEF FramesTo
  <1> QED
    BY <1>4, <1>5, <1>6, <1>9, <1>10 DEF Good

\* The loop of subtractRanges.
Remaining == [left : Seq(Stretch), cursor : Nat]

LEMMA LeaveStays ==
    ASSUME NEW target \in Stretch, NEW acc \in Remaining, NEW r \in Stretch
    PROVE  Leave(acc, target, r) \in Remaining
PROOF
  <1>1. /\ r.from \in Nat /\ r.to \in Nat /\ target.to \in Nat
        /\ acc.left \in Seq(Stretch) /\ acc.cursor \in Nat
    BY InFrames DEF Remaining
  <1>2. Least(r.from, target.to) \in Nat /\ Past(acc.cursor, r) \in Nat
    BY <1>1 DEF Least, Past, Greatest
  <1>3. FrameRange(acc.cursor, Least(r.from, target.to)) \in Stretch
    BY <1>1, <1>2, FrameRangeIsStretch
  <1>4. Append(acc.left, FrameRange(acc.cursor, Least(r.from, target.to))) \in Seq(Stretch)
    BY <1>1, <1>3
  <1> QED
    BY <1>1, <1>2, <1>4 DEF Leave, Remaining

LEMMA LeaveLoop ==
    ASSUME NEW target \in Stretch, NEW list \in Seq(Stretch), NEW base \in Remaining
    PROVE  \E acc : /\ acc \in [0 .. Len(list) -> Remaining] /\ acc[0] = base
                    /\ \A i \in 1 .. Len(list) : acc[i] = Leave(acc[i - 1], target, list[i])
                    /\ FoldLeft(LAMBDA a, r : Leave(a, target, r), base, list) = acc[Len(list)]
PROOF
  <1> DEFINE V == Remaining
             step == [u \in V \X Stretch |-> Leave(u[1], target, u[2])]
             D == 1 .. Len(list)
             Body(iter) == [s \in SUBSET D |->
                IF s = {} THEN base ELSE Leave(iter[s \ {Max(s)}], target, list[Max(s)])]
             loop == CHOOSE iter : iter = Body(iter)
  <1>1. /\ base \in V /\ DOMAIN list = D /\ Len(list) \in Nat
        /\ \A i \in D : list[i] \in Stretch
    OBVIOUS
  <1>2. ASSUME NEW v \in V, NEW r \in Stretch
        PROVE  step[<<v, r>>] = Leave(v, target, r) /\ step[<<v, r>>] \in V
    BY LeaveStays
  <1>3. IsLoop(V, Stretch, step, base, list)
    <2>1. step \in [V \X Stretch -> V]
      BY <1>2
    <2> QED
      BY <1>1, <2>1 DEF IsLoop
  <1>4. FoldLeft(LAMBDA a, r : Leave(a, target, r), base, list) = loop[D]
    BY <1>1 DEF FoldLeft, MapThenFoldSet
  <1>5. \A s \in SUBSET D : s # {} => Max(s) \in D /\ s \ {Max(s)} \in SUBSET D
    BY <1>1, MaxIsMember
  <1> HIDE DEF step, V, D
  <1>6. \E iter : iter = Body(iter)
    <2>0. PICK iter : StaysIn(iter, V, step, base, list)
      BY <1>3, FoldExists
    <2>1. /\ iter \in [SUBSET D -> V]
          /\ iter[{}] = base
          /\ \A s \in SUBSET D :
                s # {} => iter[s] = step[<<iter[s \ {Max(s)}], list[Max(s)]>>]
      BY <2>0 DEF StaysIn, D
    <2>2. ASSUME NEW s \in SUBSET D
          PROVE  iter[s] = Body(iter)[s]
      <3>1. CASE s = {}
        BY <2>1, <3>1
      <3>2. CASE s # {}
        BY <1>1, <1>2, <1>5, <2>1, <3>2
      <3> QED
        BY <3>1, <3>2
    <2> QED
      BY <2>1, <2>2
  <1>7. loop = Body(loop)
    BY <1>6
  <1> HIDE DEF loop
  <1>8. Unfolds(loop, V, step, base, list)
    <2>1. {} \in SUBSET D /\ loop[{}] = base
      BY <1>7
    <2>2. ASSUME NEW s \in SUBSET D, s # {}, loop[s \ {Max(s)}] \in V
          PROVE  loop[s] = step[<<loop[s \ {Max(s)}], list[Max(s)]>>]
      BY <1>1, <1>2, <1>5, <1>7, <2>2, ZenonT(30)
    <2> QED
      BY <2>1, <2>2 DEF Unfolds, D
  <1>9. PICK acc : Accumulates(acc, V, step, base, list) /\ acc[Len(list)] = loop[1 .. Len(list)]
    BY <1>3, <1>8, FoldSteps
  <1>10. /\ acc \in [0 .. Len(list) -> V] /\ acc[0] = base
         /\ \A i \in D : acc[i] = step[<<acc[i - 1], list[i]>>]
    BY <1>9 DEF Accumulates, D
  <1>11. \A i \in D : acc[i] = Leave(acc[i - 1], target, list[i])
    <2>1. \A i \in D : i - 1 \in 0 .. Len(list)
      BY <1>1 DEF D
    <2> QED
      BY <1>1, <1>2, <1>10, <2>1
  <1> QED
    BY <1>4, <1>9, <1>10, <1>11 DEF V, D

\* Where the cursor is, and what is left before it, once some of the ranges have been gone over.
NoneEmpty(list) == \A i \in DOMAIN list : list[i].from < list[i].to

Gone(acc, target, list, i) ==
    /\ NoneEmpty(acc.left)
    /\ target.from <= acc.cursor
    /\ acc.cursor = target.from \/ (i > 0 /\ acc.cursor <= list[i].to)
    /\ \A j \in 1 .. i : list[j].to <= acc.cursor \/ target.to <= list[j].from
    /\ \A f : f \in AllFramesIn(acc.left) <=>
                 /\ f \in FramesIn(target) /\ f < acc.cursor
                 /\ \A j \in 1 .. i : f \notin FramesIn(list[j])

LEMMA NoneEmptyAppended ==
    ASSUME NEW list \in Seq(Stretch), NEW r \in Stretch, NoneEmpty(list), r.from < r.to
    PROVE  NoneEmpty(Append(list, r))
PROOF
  <1>1. \A i \in DOMAIN Append(list, r) :
            \/ i \in DOMAIN list /\ Append(list, r)[i] = list[i]
            \/ Append(list, r)[i] = r
    OBVIOUS
  <1> QED
    BY <1>1 DEF NoneEmpty

LEMMA LeaveGoesOn ==
    ASSUME NEW target \in Stretch, NEW list \in Seq(Stretch), IsCanonical(list),
           NEW i \in Nat, i + 1 \in 1 .. Len(list),
           NEW acc \in Remaining, Gone(acc, target, list, i)
    PROVE  Gone(Leave(acc, target, list[i + 1]), target, list, i + 1)
PROOF
  <1> DEFINE r == list[i + 1]
             next == Leave(acc, target, r)
             c == acc.cursor
  <1>1. /\ r \in Stretch /\ r.from \in Nat /\ r.to \in Nat /\ r.from < r.to
        /\ target.from \in Nat /\ target.to \in Nat /\ c \in Nat /\ acc.left \in Seq(Stretch)
        /\ DOMAIN list = 1 .. Len(list) /\ Len(list) \in Nat
    <2>1. r \in Stretch /\ DOMAIN list = 1 .. Len(list) /\ Len(list) \in Nat
      OBVIOUS
    <2>2. r.from < r.to
      BY <2>1 DEF IsCanonical
    <2> HIDE DEF r
    <2> QED
      BY <2>1, <2>2, InFrames DEF Remaining
  <1>2. /\ \A j \in 1 .. i : /\ j \in 1 .. Len(list) /\ list[j] \in Stretch
                             /\ list[j].from \in Nat /\ list[j].to \in Nat
        /\ 1 .. i + 1 = (1 .. i) \cup {i + 1}
        /\ i + 1 > 0
    <2>1. \A j \in 1 .. i : j \in 1 .. Len(list) /\ list[j] \in Stretch
      BY <1>1
    <2> QED
      BY <2>1, InFrames
  <1>3. c = target.from \/ (c <= r.from /\ c < r.to)
    <2> SUFFICES ASSUME c # target.from PROVE c <= r.from /\ c < r.to
      OBVIOUS
    <2>1. i > 0 /\ c <= list[i].to
      BY DEF Gone
    <2>2. i \in 1 .. i /\ i + 1 > 1 /\ (i + 1) - 1 = i
      BY <2>1
    <2>3. list[i].to < r.from /\ list[i].to \in Nat
      BY <1>1, <1>2, <2>2 DEF IsCanonical
    <2> HIDE DEF r, c
    <2> QED
      BY <1>1, <2>1, <2>3
  <1>4. /\ NoneEmpty(acc.left) /\ target.from <= c
        /\ \A j \in 1 .. i : list[j].to <= c \/ target.to <= list[j].from
        /\ \A f : f \in AllFramesIn(acc.left) <=>
                     /\ f \in FramesIn(target) /\ f < c
                     /\ \A j \in 1 .. i : f \notin FramesIn(list[j])
    BY DEF Gone
  <1>5. \A f : /\ f \in FramesIn(r) <=> f \in Nat /\ r.from <= f /\ f < r.to
               /\ f \in FramesIn(target) <=> f \in Nat /\ target.from <= f /\ f < target.to
               /\ \A j \in 1 .. i : f \in FramesIn(list[j]) <=>
                     f \in Nat /\ list[j].from <= f /\ f < list[j].to
    BY <1>1, <1>2, InFrames
  <1> HIDE DEF r, c, next
  <1>6. \A x : (\A j \in 1 .. i + 1 : x \notin FramesIn(list[j])) <=>
                  (\A j \in 1 .. i : x \notin FramesIn(list[j])) /\ x \notin FramesIn(r)
    BY <1>2 DEF r
  <1>7. CASE r.to <= c \/ r.from >= target.to
    <2>1. next = acc
      BY <1>7 DEF next, Leave, c
    <2>2. c = target.from \/ (i + 1 > 0 /\ c <= r.to)
      BY <1>1, <1>2, <1>3
    <2>3. \A j \in 1 .. i + 1 : list[j].to <= c \/ target.to <= list[j].from
      BY <1>1, <1>2, <1>4, <1>7 DEF r
    <2>4. \A f : f \in FramesIn(target) /\ f < c => f \notin FramesIn(r)
      BY <1>1, <1>3, <1>5, <1>7
    <2>5. \A f : f \in AllFramesIn(acc.left) <=>
                    /\ f \in FramesIn(target) /\ f < c
                    /\ \A j \in 1 .. i + 1 : f \notin FramesIn(list[j])
      BY <1>4, <1>6, <2>4
    <2> QED
      BY <1>4, <2>1, <2>2, <2>3, <2>5 DEF Gone, c, r, next
  <1>8. CASE ~(r.to <= c \/ r.from >= target.to)
    <2>1. Past(c, r) = r.to /\ Least(r.from, target.to) = r.from
      BY <1>1, <1>8 DEF Past, Greatest, Least
    <2>2. /\ next.cursor = r.to
          /\ next.left = IF r.from > c THEN Append(acc.left, FrameRange(c, r.from)) ELSE acc.left
      BY <1>8, <2>1 DEF next, Leave, c
    <2>3. \A j \in 1 .. i + 1 : list[j].to <= r.to \/ target.to <= list[j].from
      <3>1. \A j \in 1 .. i : list[j].to <= r.to \/ target.to <= list[j].from
        BY <1>1, <1>2, <1>4, <1>8
      <3> QED
        BY <1>1, <1>2, <3>1 DEF r
    <2>4. \A f : f \in FramesIn(target) /\ c <= f => \A j \in 1 .. i : f \notin FramesIn(list[j])
      <3> SUFFICES ASSUME NEW f, f \in FramesIn(target), c <= f, NEW j \in 1 .. i
                   PROVE  f \notin FramesIn(list[j])
        OBVIOUS
      <3>1. f \in Nat /\ f < target.to
        BY <1>5
      <3>2. list[j].to <= c \/ target.to <= list[j].from
        BY <1>4
      <3>3. list[j].from \in Nat /\ list[j].to \in Nat
        BY <1>2
      <3>4. f \in FramesIn(list[j]) => list[j].from <= f /\ f < list[j].to
        BY <1>5
      <3> QED
        BY <1>1, <3>1, <3>2, <3>3, <3>4
    <2>5. \A f : f \in AllFramesIn(next.left) <=>
                    \/ f \in AllFramesIn(acc.left)
                    \/ f \in Nat /\ c <= f /\ f < r.from
      <3>1. CASE r.from > c
        <4>1. FrameRange(c, r.from) \in Stretch /\ FramesIn(FrameRange(c, r.from)) = c .. r.from - 1
          BY <1>1, FrameRangeIsStretch
        <4>2. AllFramesIn(next.left) = AllFramesIn(acc.left) \cup (c .. r.from - 1)
          BY <1>1, <2>2, <3>1, <4>1, FramesAppended
        <4> QED
          BY <1>1, <4>2
      <3>2. CASE ~(r.from > c)
        BY <1>1, <2>2, <3>2
      <3> QED
        BY <3>1, <3>2
    <2>6. \A f : f \in AllFramesIn(next.left) <=>
                    /\ f \in FramesIn(target) /\ f < r.to
                    /\ \A j \in 1 .. i + 1 : f \notin FramesIn(list[j])
      <3> SUFFICES ASSUME NEW f
                   PROVE  f \in AllFramesIn(next.left) <=>
                            /\ f \in FramesIn(target) /\ f < r.to
                            /\ \A j \in 1 .. i : f \notin FramesIn(list[j])
                            /\ f \notin FramesIn(r)
        BY <1>6
      <3>1. f \in AllFramesIn(acc.left) <=> /\ f \in FramesIn(target) /\ f < c
                                            /\ \A j \in 1 .. i : f \notin FramesIn(list[j])
        BY <1>4
      <3>2. f \in FramesIn(target) /\ c <= f => \A j \in 1 .. i : f \notin FramesIn(list[j])
        BY <2>4
      <3>3. /\ f \in FramesIn(r) <=> f \in Nat /\ r.from <= f /\ f < r.to
            /\ f \in FramesIn(target) <=> f \in Nat /\ target.from <= f /\ f < target.to
        BY <1>5
      <3>4. f \in AllFramesIn(next.left) <=>
                f \in AllFramesIn(acc.left) \/ (f \in Nat /\ c <= f /\ f < r.from)
        BY <2>5
      <3> DEFINE apart == \A j \in 1 .. i : f \notin FramesIn(list[j])
      <3> HIDE DEF apart
      <3>5. /\ f \in AllFramesIn(acc.left) <=> f \in FramesIn(target) /\ f < c /\ apart
            /\ f \in FramesIn(target) /\ c <= f => apart
        BY <3>1, <3>2 DEF apart
      <3>6. f \in AllFramesIn(next.left) <=>
                f \in FramesIn(target) /\ f < r.to /\ apart /\ f \notin FramesIn(r)
        <4>1. CASE f \in Nat
          BY <1>1, <1>3, <1>4, <1>8, <3>3, <3>4, <3>5, <4>1
        <4>2. CASE f \notin Nat
          BY <3>3, <3>4, <3>5, <4>2
        <4> QED
          BY <4>1, <4>2
      <3> QED
        BY <3>6 DEF apart
    <2>7. NoneEmpty(next.left)
      <3>1. CASE r.from > c
        <4>1. FrameRange(c, r.from) \in Stretch /\ FrameRange(c, r.from).from < FrameRange(c, r.from).to
          BY <1>1, <3>1, FrameRangeIsStretch, ZenonT(30)
        <4>2. next.left = Append(acc.left, FrameRange(c, r.from))
          BY <2>2, <3>1
        <4>3. NoneEmpty(Append(acc.left, FrameRange(c, r.from)))
          BY <1>1, <1>4, <4>1, NoneEmptyAppended
        <4> QED
          BY <4>2, <4>3
      <3>2. CASE ~(r.from > c)
        BY <1>4, <2>2, <3>2
      <3> QED
        BY <3>1, <3>2
    <2>8. target.from <= r.to /\ r.to <= r.to
      BY <1>1, <1>4, <1>8
    <2> QED
      BY <1>2, <2>2, <2>3, <2>6, <2>7, <2>8 DEF Gone, next, r
  <1> QED
    BY <1>7, <1>8

\* What subtractRanges returns: the frames of the target that are not done, in pieces none
\* of which is empty.
LEMMA Subtracted ==
    ASSUME NEW target \in Stretch, NEW done \in Seq(Stretch)
    PROVE  /\ Subtract(target, done) \in Seq(Stretch)
           /\ NoneEmpty(Subtract(target, done))
           /\ AllFramesIn(Subtract(target, done)) = FramesIn(target) \ AllFramesIn(done)
PROOF
  <1> DEFINE list == Normalise(ToSet(done))
             base == [left |-> <<>>, cursor |-> target.from]
             n == Len(list)
  <1>1. target.from \in Nat /\ target.to \in Nat /\ base \in Remaining
    BY InFrames DEF Remaining
  <1>2. list \in Seq(Stretch) /\ IsCanonical(list) /\ AllFramesIn(list) = AllFramesIn(done)
    <2>1. ToSet(done) \in SUBSET Stretch
      BY DEF ToSet
    <2>2. IsFiniteSet(ToSet(done))
      <3>1. done \in [1 .. Len(done) -> ToSet(done)] /\ Len(done) \in Nat
        BY DEF ToSet
      <3>2. \A x \in ToSet(done) : \E i \in 1 .. Len(done) : done[i] = x
        BY DEF ToSet
      <3>3. done \in Surjection(1 .. Len(done), ToSet(done))
        BY <3>1, <3>2, Zenon DEF Surjection
      <3> QED
        BY <3>1, <3>3, FS_Interval, FS_Surjection
    <2>3. AllFramesIn(done) = UNION {FramesIn(r) : r \in ToSet(done)}
      BY DEF AllFramesIn, ToSet
    <2> QED
      BY <2>1, <2>2, <2>3, Normalised
  <1>3. n \in Nat /\ DOMAIN list = 1 .. n
    BY <1>2
  <1> HIDE DEF base
  <1>4. PICK acc : /\ acc \in [0 .. Len(list) -> Remaining] /\ acc[0] = base
                   /\ \A i \in 1 .. Len(list) : acc[i] = Leave(acc[i - 1], target, list[i])
                   /\ FoldLeft(LAMBDA a, r : Leave(a, target, r), base, list) = acc[Len(list)]
    BY <1>1, <1>2, LeaveLoop
  <1> DEFINE end == acc[n]
  <1>5. Subtract(target, done) = IF end.cursor < target.to
                                 THEN Append(end.left, FrameRange(end.cursor, target.to))
                                 ELSE end.left
    BY <1>4 DEF Subtract, base
  <1> HIDE DEF list
  <1> DEFINE Good == {i \in 0 .. n : Gone(acc[i], target, list, i)}
  <1>6. 0 \in Good
    <2>1. acc[0].left = <<>> /\ acc[0].cursor = target.from /\ 1 .. 0 = {} /\ 0 \in 0 .. n
      <3>1. acc[0] = base /\ base.left = <<>> /\ base.cursor = target.from
        BY <1>4 DEF base
      <3>2. 1 .. 0 = {} /\ 0 \in 0 .. n
        <4> HIDE DEF n
        <4> QED
          BY <1>3
      <3> QED
        BY <3>1, <3>2
    <2>2. \A f : f \in FramesIn(target) => f \in Nat /\ ~(f < target.from)
      <3>1. \A f : f \in FramesIn(target) => f \in Nat /\ target.from <= f
        BY InFrames
      <3> QED
        BY <1>1, <3>1
    <2>3. NoneEmpty(<<>>)
      BY DEF NoneEmpty
    <2> QED
      BY <1>1, <2>1, <2>2, <2>3, NoFrames DEF Gone
  <1>7. ASSUME NEW i \in 0 .. n, i \in Good, i < n
        PROVE  i + 1 \in Good
    <2>1. i \in Nat /\ i + 1 \in 1 .. n /\ (i + 1) - 1 = i /\ i + 1 \in 0 .. n
      BY <1>3, <1>7
    <2>2. acc[i + 1] = Leave(acc[i], target, list[i + 1]) /\ acc[i] \in Remaining
      BY <1>4, <2>1
    <2>3. Gone(acc[i], target, list, i)
      BY <1>7
    <2>4. Gone(acc[i + 1], target, list, i + 1)
      BY <1>2, <2>1, <2>2, <2>3, LeaveGoesOn
    <2> QED
      BY <2>1, <2>4
  <1>8. Gone(end, target, list, n)
    <2> HIDE DEF n
    <2>1. 0 .. n \subseteq Good
      <3> HIDE DEF Good
      <3> QED
        BY <1>3, <1>6, <1>7, InductionTo
    <2> QED
      BY <1>3, <2>1
  <1>9. end \in Remaining /\ end.left \in Seq(Stretch) /\ end.cursor \in Nat
    <2>1. acc \in [0 .. n -> Remaining]
      BY <1>4
    <2> HIDE DEF n
    <2>2. n \in 0 .. n
      BY <1>3
    <2>3. acc[n] \in Remaining
      BY <2>1, <2>2
    <2> QED
      BY <2>3 DEF Remaining
  <1> HIDE DEF end, n
  <1>10. \A f : /\ f \in FramesIn(target) <=> f \in Nat /\ target.from <= f /\ f < target.to
                /\ f \in AllFramesIn(done) <=> \E j \in 1 .. n : f \in FramesIn(list[j])
    BY <1>2, <1>3, InFrames, InAllFrames
  <1>11. CASE end.cursor < target.to
    <2> DEFINE rest == FrameRange(end.cursor, target.to)
    <2>1. rest \in Stretch /\ rest.from < rest.to /\ FramesIn(rest) = end.cursor .. target.to - 1
      BY <1>1, <1>9, <1>11, FrameRangeIsStretch
    <2>2. Subtract(target, done) = Append(end.left, rest)
      BY <1>5, <1>11
    <2> HIDE DEF rest
    <2>3. AllFramesIn(Append(end.left, rest)) = AllFramesIn(end.left) \cup (end.cursor .. target.to - 1)
      BY <1>9, <2>1, FramesAppended
    <2>4. \A f : f \in Nat /\ end.cursor <= f /\ f < target.to =>
                    \A j \in 1 .. n : f \notin FramesIn(list[j])
      <3> SUFFICES ASSUME NEW f \in Nat, end.cursor <= f, f < target.to, NEW j \in 1 .. n
                   PROVE  f \notin FramesIn(list[j])
        OBVIOUS
      <3>1. list[j] \in Stretch
        BY <1>2, <1>3
      <3>2. list[j].to <= end.cursor \/ target.to <= list[j].from
        BY <1>8 DEF Gone
      <3>3. /\ list[j].from \in Nat /\ list[j].to \in Nat
            /\ f \in FramesIn(list[j]) => list[j].from <= f /\ f < list[j].to
        BY <3>1, InFrames
      <3> QED
        BY <1>1, <1>9, <3>2, <3>3
    <2>5. \A f : f \in AllFramesIn(Append(end.left, rest)) <=>
                    f \in FramesIn(target) /\ f \notin AllFramesIn(done)
      <3> SUFFICES ASSUME NEW f
                   PROVE  f \in AllFramesIn(Append(end.left, rest)) <=>
                            f \in FramesIn(target) /\ f \notin AllFramesIn(done)
        OBVIOUS
      <3>1. f \in AllFramesIn(end.left) <=>
                f \in FramesIn(target) /\ f < end.cursor /\ f \notin AllFramesIn(done)
        BY <1>8, <1>10 DEF Gone
      <3>2. f \in Nat /\ end.cursor <= f /\ f < target.to => f \notin AllFramesIn(done)
        BY <1>10, <2>4
      <3>3. target.from <= end.cursor
        BY <1>8 DEF Gone
      <3>4. f \in end.cursor .. target.to - 1 <=> f \in Nat /\ end.cursor <= f /\ f < target.to
        BY <1>1, <1>9
      <3>5. f \in FramesIn(target) <=> f \in Nat /\ target.from <= f /\ f < target.to
        BY <1>10
      <3>6. CASE f \in Nat
        BY <1>1, <1>9, <2>3, <3>1, <3>2, <3>3, <3>4, <3>5, <3>6
      <3>7. CASE f \notin Nat
        BY <2>3, <3>1, <3>4, <3>5, <3>7
      <3> QED
        BY <3>6, <3>7
    <2>6. NoneEmpty(Append(end.left, rest))
      BY <1>8, <1>9, <2>1, NoneEmptyAppended DEF Gone
    <2> QED
      BY <1>9, <2>1, <2>2, <2>5, <2>6
  <1>12. CASE ~(end.cursor < target.to)
    <2>1. Subtract(target, done) = end.left
      BY <1>5, <1>12
    <2>2. \A f : f \in FramesIn(target) => f < end.cursor
      BY <1>1, <1>9, <1>10, <1>12
    <2>3. \A f : f \in AllFramesIn(end.left) <=> f \in FramesIn(target) /\ f \notin AllFramesIn(done)
      BY <1>8, <1>10, <2>2 DEF Gone
    <2> QED
      BY <1>8, <1>9, <2>1, <2>3 DEF Gone
  <1> QED
    BY <1>11, <1>12

-----------------------------------------------------------------------------
\* The target of an order, and what is owed of it.

\* The target of an order is part of the timeline.
LEMMA TargetFits ==
    ASSUME NEW o \in OrdersThatStart
    PROVE  /\ TargetOf(o) \in Stretch
           /\ FramesIn(TargetOf(o)) \subseteq Frames
           /\ IsFiniteSet(FramesIn(TargetOf(o)))
           /\ Cardinality(FramesIn(TargetOf(o))) <= NumFrames
PROOF
  <1> DEFINE d == o.shard.count
             i == o.shard.index
  <1>1. PICK f \in Frames, t \in 1 .. NumFrames : o.slice = FrameRange(f, t)
    BY DEF OrdersThatStart, Slices
  <1>2. /\ NumFrames \in Nat /\ f \in Nat /\ t \in Nat /\ f < t /\ t <= NumFrames
        /\ FramesIn(o.slice) = f .. t - 1
    <2>1. NumFrames \in Nat /\ f \in Nat /\ t \in Nat /\ t <= NumFrames
      BY NumFramesAssumption DEF Frames
    <2>2. FramesIn(o.slice) # {}
      BY DEF OrdersThatStart
    <2> QED
      BY <1>1, <2>1, <2>2 DEF FramesIn, FrameRange
  <1>3. d \in Nat \ {0} /\ i \in 0 .. d - 1
    <2>1. o.shard \in Shards \cup {Unsharded}
      BY DEF OrdersThatStart
    <2> QED
      BY <2>1, ShardCountsAssumption DEF Shards, Unsharded
  <1>4. TargetOf(o) \in Stretch
    <2>1. TargetOf(o) = ShardRange(FrameRange(f, t), i, d)
      BY <1>1 DEF TargetOf
    <2> DEFINE s == ShardRange(FrameRange(f, t), i, d)
               n == t - f
    <2>2. n \in Nat /\ i \in Nat
      BY <1>2, <1>3
    <2> HIDE DEF d, i
    <2>3. s.from = Begins(f, t - f, d, i) /\ s.to = Begins(f, t - f, d, i) + Size(t - f, d, i)
      BY <1>2, <1>3, <2>2, ShardIsASlice
    <2>4. s = FrameRange(s.from, s.to)
      BY DEF ShardRange, FrameRange
    <2> HIDE DEF n, s
    <2>5. Begins(f, n, d, i) \in Nat /\ Size(n, d, i) \in Nat
      BY <1>2, <1>3, <2>2, ShardTypes
    <2>6. s.from \in Nat /\ s.to \in Nat
      BY <2>3, <2>5 DEF n
    <2>7. s \in Stretch
      BY <2>4, <2>6, FrameRangeIsStretch
    <2> QED
      BY <2>1, <2>7 DEF s
  <1>5. FramesIn(TargetOf(o)) \subseteq f .. t - 1
    <2>1. UNION {Share(o, k) : k \in 0 .. d - 1} = FramesIn(o.slice)
      BY Partition
    <2>2. FramesIn(TargetOf(o)) = Share(o, i)
      BY DEF Share, TargetOf
    <2> QED
      BY <1>2, <1>3, <2>1, <2>2
  <1>6. f .. t - 1 \subseteq Frames
    BY <1>2 DEF Frames
  <1>7. IsFiniteSet(Frames) /\ Cardinality(Frames) = NumFrames
    <2>1. NumFrames \in Nat \ {0}
      BY NumFramesAssumption
    <2>2. Cardinality(0 .. NumFrames - 1) = IF 0 > NumFrames - 1 THEN 0 ELSE (NumFrames - 1) - 0 + 1
      BY <2>1, FS_Interval
    <2> QED
      BY <2>1, <2>2, FS_Interval DEF Frames
  <1>8. FramesIn(TargetOf(o)) \subseteq Frames
    BY <1>5, <1>6
  <1> QED
    BY <1>4, <1>7, <1>8, FS_Subset

\* A subset of the target's frames.
LEMMA PartOfTarget ==
    ASSUME NEW o \in OrdersThatStart, NEW part, part \subseteq FramesIn(TargetOf(o))
    PROVE  /\ part \subseteq Frames /\ IsFiniteSet(part)
           /\ Cardinality(part) \in Nat /\ Cardinality(part) <= Cardinality(FramesIn(TargetOf(o)))
           /\ Cardinality(part) <= NumFrames
PROOF
  <1>1. /\ FramesIn(TargetOf(o)) \subseteq Frames /\ IsFiniteSet(FramesIn(TargetOf(o)))
        /\ Cardinality(FramesIn(TargetOf(o))) <= NumFrames
    BY TargetFits
  <1>2. IsFiniteSet(part) /\ Cardinality(part) <= Cardinality(FramesIn(TargetOf(o)))
    BY <1>1, FS_Subset
  <1> QED
    BY <1>1, <1>2, FS_CardinalityType, NumFramesAssumption

\* What is owed is of the target and not done; nothing is owed once all of it is done.
LEMMA Owed ==
    ASSUME NEW target \in Stretch, NEW done \in Seq(Stretch)
    PROVE  /\ Subtract(target, done) # <<>> =>
                /\ Head(Subtract(target, done)).from \in FramesIn(target) \ AllFramesIn(done)
                /\ Head(Subtract(target, done)).from \in Nat
           /\ Subtract(target, done) = <<>> => FramesIn(target) \subseteq AllFramesIn(done)
PROOF
  <1> DEFINE left == Subtract(target, done)
  <1>1. /\ left \in Seq(Stretch) /\ NoneEmpty(left)
        /\ AllFramesIn(left) = FramesIn(target) \ AllFramesIn(done)
    BY Subtracted
  <1> HIDE DEF left
  <1>2. left = <<>> => FramesIn(target) \subseteq AllFramesIn(done)
    BY <1>1, NoFrames
  <1>3. ASSUME left # <<>>
        PROVE  Head(left).from \in AllFramesIn(left) /\ Head(left).from \in Nat
    <2>1. 1 \in DOMAIN left /\ Head(left) = left[1] /\ left[1] \in Stretch
      BY <1>1, <1>3
    <2>2. left[1].from < left[1].to /\ left[1].from \in Nat /\ left[1].to \in Nat
      BY <1>1, <2>1, InFrames DEF NoneEmpty
    <2>3. left[1].from \in FramesIn(left[1])
      BY <2>1, <2>2, InFrames
    <2> QED
      BY <1>1, <2>1, <2>2, <2>3, InAllFrames
  <1> QED
    BY <1>1, <1>2, <1>3 DEF left

LEMMA SingleFrame ==
    ASSUME NEW f \in Nat
    PROVE  FrameRange(f, f + 1) \in Stretch /\ FramesIn(FrameRange(f, f + 1)) = {f}
PROOF
  <1>1. f + 1 \in Nat /\ f .. (f + 1) - 1 = {f}
    OBVIOUS
  <1> QED
    BY <1>1, FrameRangeIsStretch

\* One frame more is done (withFrame).
LEMMA OneFrameMore ==
    ASSUME NEW done \in Seq(Stretch), NEW f \in Nat
    PROVE  /\ WithFrame(done, f) \in Seq(Stretch)
           /\ IsCanonical(WithFrame(done, f))
           /\ AllFramesIn(WithFrame(done, f)) = AllFramesIn(done) \cup {f}
PROOF
  <1> DEFINE more == ToSet(done) \cup {FrameRange(f, f + 1)}
  <1>1. more \in SUBSET Stretch /\ IsFiniteSet(more)
    <2>1. ToSet(done) \in SUBSET Stretch /\ IsFiniteSet(ToSet(done))
      BY ListIsFinite
    <2>2. FrameRange(f, f + 1) \in Stretch
      BY SingleFrame
    <2> QED
      BY <2>1, <2>2, FS_AddElement
  <1>2. UNION {FramesIn(r) : r \in more} = AllFramesIn(done) \cup {f}
    <2>1. \A x : x \in AllFramesIn(done) <=> \E r \in ToSet(done) : x \in FramesIn(r)
      BY DEF AllFramesIn, ToSet
    <2>2. FramesIn(FrameRange(f, f + 1)) = {f}
      BY SingleFrame
    <2>3. \A x : (\E r \in more : x \in FramesIn(r)) <=> x \in AllFramesIn(done) \/ x = f
      BY <2>1, <2>2
    <2> HIDE DEF more
    <2>4. \A x : x \in UNION {FramesIn(r) : r \in more} <=> \E r \in more : x \in FramesIn(r)
      OBVIOUS
    <2> QED
      BY <2>3, <2>4
  <1> HIDE DEF more
  <1>3. WithFrame(done, f) = Normalise(more)
    BY DEF WithFrame, more
  <1> QED
    BY <1>1, <1>2, <1>3, Normalised

\* Some frames, as ranges (#reconcile).
LEMMA FramesAsRanges ==
    ASSUME NEW part, part \subseteq Nat, IsFiniteSet(part)
    PROVE  LET ranges == Normalise({FrameRange(f, f + 1) : f \in part})
           IN ranges \in Seq(Stretch) /\ IsCanonical(ranges) /\ AllFramesIn(ranges) = part
PROOF
  <1> DEFINE single == [f \in part |-> FrameRange(f, f + 1)]
             ranges == {FrameRange(f, f + 1) : f \in part}
  <1>1. ranges \in SUBSET Stretch
    BY SingleFrame
  <1>2. IsFiniteSet(ranges)
    <2>1. single \in [part -> ranges] /\ \A r \in ranges : \E f \in part : single[f] = r
      OBVIOUS
    <2>2. single \in Surjection(part, ranges)
      BY <2>1, Zenon DEF Surjection
    <2> QED
      BY <2>2, FS_Surjection
  <1>3. UNION {FramesIn(r) : r \in ranges} = part
    <2>1. \A f \in part : FramesIn(FrameRange(f, f + 1)) = {f}
      BY SingleFrame
    <2>2. \A f \in part : FrameRange(f, f + 1) \in ranges
      OBVIOUS
    <2>3. \A r \in ranges : \E f \in part : FramesIn(r) = {f}
      BY <2>1
    <2> HIDE DEF ranges
    <2>4. \A f \in part : f \in UNION {FramesIn(r) : r \in ranges}
      BY <2>1, <2>2
    <2>5. \A f \in UNION {FramesIn(r) : r \in ranges} : f \in part
      BY <2>3
    <2> QED
      BY <2>4, <2>5
  <1> HIDE DEF ranges
  <1>4. /\ Normalise(ranges) \in Seq(Stretch) /\ IsCanonical(Normalise(ranges))
        /\ AllFramesIn(Normalise(ranges)) = part
    BY <1>1, <1>2, <1>3, Normalised
  <1> QED
    BY <1>4 DEF ranges

-----------------------------------------------------------------------------
\* What is counted and completed.

\* A worker's record j, under the order o: what it takes for completed is part of the
\* target and said in the fewest ranges, it has drawn no more than is completed, it has a
\* frame to write when it writes, and has all when it goes to encode.
Orderly(j, o) ==
    /\ IsCanonical(j.completed)
    /\ AllFramesIn(j.completed) \subseteq FramesIn(TargetOf(o))
    /\ j.pc \notin Ended => j.drawn <= Cardinality(AllFramesIn(j.completed))
    /\ j.pc \in {"loading", "listing"} => j.drawn = 0
    /\ j.pc = "loading" => j.completed = <<>>
    /\ j.pc = "writing" => Subtract(TargetOf(o), j.completed) # <<>>
    /\ j.pc = "encoding" \/ (j.pc = "saving" /\ j.next = "encoding") =>
           FramesIn(TargetOf(o)) \subseteq AllFramesIn(j.completed)
    /\ j.pc = "clearing" => o.by = "api"

\* A checkpoint claims nothing beyond the target.
OrderlyRecord(c, o) ==
    /\ c \in Record \cup {None, Torn}
    /\ c \in Record => IsCanonical(c.done) /\ AllFramesIn(c.done) \subseteq FramesIn(TargetOf(o))

Files == [Frames -> Film \cup {None, Torn}]

Spending == [starts : 0 .. MaxStarts, crashes : 0 .. MaxCrashes,
             edits : 0 .. MaxEdits, faults : 0 .. MaxFaults, drawn : Nat]

\* The inductive invariant for any number of workers: types, and every record in order.
Books ==
    /\ order \in OrdersThatStart
    /\ film \in Film
    /\ file \in Files
    /\ OrderlyRecord(checkpoint, order)
    /\ spent \in Spending
    /\ job \in [Workers -> Job]
    /\ \A w \in Workers : Orderly(job[w], order)

LEMMA JobType ==
    ASSUME NEW j \in Job
    PROVE  /\ j.pc \in Phase /\ j.film \in Film /\ j.completed \in Seq(Stretch)
           /\ j.drawn \in 0 .. NumFrames /\ j.next \in {"drawing", "encoding", "failed", "cancelled"}
           /\ j.encoded \in Seq(Film)
  BY DEF Job, Stretch

LEMMA InitBooks == Init => Books
PROOF
  <1> SUFFICES ASSUME Init PROVE Books
    OBVIOUS
  <1>1. order \in OrdersThatStart /\ film \in Film
    BY DEF Init
  <1>2. file \in Files
    BY DEF Init, Files
  <1>3. OrderlyRecord(checkpoint, order)
    <2>1. checkpoint \in {None, Torn}
      BY DEF Init
    <2> QED
      BY <2>1, NoFileAssumption DEF OrderlyRecord
  <1>4. spent \in Spending
    BY BoundsAssumption DEF Init, Spending
  <1>5. ASSUME NEW w \in Workers
        PROVE  job[w] \in Job /\ Orderly(job[w], order)
    <2>1. job[w] = [NewJob EXCEPT !.pc = "idle"]
      BY DEF Init
    <2>2. /\ job[w].pc = "idle" /\ job[w].film = film /\ job[w].completed = <<>>
          /\ job[w].drawn = 0 /\ job[w].next = "drawing" /\ job[w].encoded = <<>>
      BY <2>1 DEF NewJob
    <2>3. job[w] \in Job
      <3>1. 0 \in 0 .. NumFrames /\ <<>> \in Seq([from : Nat, to : Nat]) /\ <<>> \in Seq(Film)
        BY NumFramesAssumption
      <3> QED
        BY <1>1, <2>1, <3>1 DEF NewJob, Job, Phase, Ended
    <2> QED
      BY <2>2, <2>3, NoFrames DEF Orderly, Ended
  <1>6. job \in [Workers -> Job]
    BY <1>5 DEF Init
  <1> QED
    BY <1>1, <1>2, <1>3, <1>4, <1>5, <1>6 DEF Books

\* A step of one worker: its record becomes k.
LEMMA WorkerMoves ==
    ASSUME Books, NEW w \in Workers, NEW k, k \in Job, Orderly(k, order),
           job' = [job EXCEPT ![w] = k], order' = order, film' = film,
           file' \in Files, OrderlyRecord(checkpoint', order), spent' \in Spending
    PROVE  Books'
PROOF
  <1>1. job' \in [Workers -> Job]
    BY DEF Books
  <1>2. \A v \in Workers : Orderly(job'[v], order)
    BY DEF Books
  <1> QED
    BY <1>1, <1>2 DEF Books

\* Where only the place in the program changes.
LEMMA PlaceChanges ==
    ASSUME NEW j \in Job, NEW pc \in Phase, NEW o, Orderly(j, o),
           pc \in Ended \cup {"drawing"},
           j.pc \notin Ended
    PROVE  [j EXCEPT !.pc = pc] \in Job /\ Orderly([j EXCEPT !.pc = pc], o)
PROOF
  <1> DEFINE k == [j EXCEPT !.pc = pc]
  <1>1. /\ k \in Job /\ k.pc = pc /\ k.completed = j.completed /\ k.drawn = j.drawn /\ k.next = j.next
    BY DEF Job
  <1>2. pc \notin {"loading", "listing", "writing", "encoding", "saving", "clearing"}
    BY DEF Ended
  <1> HIDE DEF k
  <1>3. Orderly(k, o)
    BY <1>1, <1>2 DEF Orderly
  <1> QED
    BY <1>1, <1>3 DEF k

LEMMA FaultCounts ==
    ASSUME spent \in Spending, Fault
    PROVE  spent' \in Spending
  BY BoundsAssumption DEF Fault, Spending

LEMMA StartBooks ==
    ASSUME Books, NEW w \in Workers, Start(w)
    PROVE  Books'
PROOF
  <1>1. PICK k : k = NewJob
    OBVIOUS
  <1>2. k \in Job
    <2>1. 0 \in 0 .. NumFrames /\ <<>> \in Seq([from : Nat, to : Nat]) /\ <<>> \in Seq(Film)
      BY NumFramesAssumption
    <2> QED
      BY <1>1, <2>1 DEF Books, NewJob, Job, Phase
  <1>3. Orderly(k, order)
    <2>1. /\ k.pc = "loading" /\ k.completed = <<>> /\ k.drawn = 0 /\ k.next = "drawing"
      BY <1>1 DEF NewJob
    <2> QED
      <3>1. AllFramesIn(k.completed) = {} /\ IsCanonical(k.completed)
            /\ Cardinality(AllFramesIn(k.completed)) = 0
        BY <2>1, NoFrames, FS_EmptySet
      <3> QED
        BY <2>1, <3>1 DEF Orderly
  <1>4. spent' \in Spending
    BY BoundsAssumption DEF Books, Start, Spending
  <1> QED
    BY <1>1, <1>2, <1>3, <1>4, WorkerMoves DEF Start, Books

LEMMA LoadBooks ==
    ASSUME Books, NEW w \in Workers, LoadCheckpoint(w)
    PROVE  Books'
PROOF
  <1> DEFINE j == job[w]
  <1>1. /\ j \in Job /\ Orderly(j, order) /\ j.pc = "loading"
        /\ UNCHANGED <<order, film, file, checkpoint, spent>>
    BY DEF Books, LoadCheckpoint
  <1>2. "loading" \notin Ended
    BY DEF Ended
  <1>3. ASSUME NEW pc \in {"drawing", "failed"}, Goto(w, pc)
        PROVE  Books'
    <2>1. PICK k : k = [j EXCEPT !.pc = pc]
      OBVIOUS
    <2>2. k \in Job /\ Orderly(k, order)
      <3>1. pc \in Phase /\ pc \in Ended \cup {"drawing"}
        BY DEF Phase, Ended
      <3> HIDE DEF j
      <3> QED
        BY <1>1, <1>2, <2>1, <3>1, PlaceChanges
    <2>3. job' = [job EXCEPT ![w] = k]
      BY <1>3, <2>1 DEF Goto
    <2> QED
      BY <1>1, <2>2, <2>3, WorkerMoves DEF Books
  <1>4. CASE /\ checkpoint # Torn /\ IsResumable(w)
             /\ job' = [job EXCEPT ![w].pc = "listing", ![w].completed = checkpoint.done]
    <2>1. PICK k : k = [j EXCEPT !.pc = "listing", !.completed = checkpoint.done]
      OBVIOUS
    <2>2. checkpoint \in Record /\ IsCanonical(checkpoint.done)
          /\ AllFramesIn(checkpoint.done) \subseteq FramesIn(TargetOf(order))
          /\ checkpoint.done \in Seq([from : Nat, to : Nat])
      <3>1. checkpoint \in Record
        BY <1>4 DEF Books, OrderlyRecord, IsResumable
      <3> QED
        BY <3>1 DEF Books, OrderlyRecord, Record
    <2>3. /\ k \in Job /\ k.pc = "listing" /\ k.completed = checkpoint.done /\ k.drawn = j.drawn
      BY <1>1, <2>1, <2>2 DEF Job, Phase
    <2>4. Orderly(k, order)
      <3>1. j.drawn = 0
        BY <1>1 DEF Orderly
      <3>2. order \in OrdersThatStart
        BY DEF Books
      <3>3. 0 <= Cardinality(AllFramesIn(k.completed))
        BY <2>2, <2>3, <3>2, PartOfTarget
      <3> QED
        BY <2>2, <2>3, <3>1, <3>3 DEF Orderly
    <2>5. job' = [job EXCEPT ![w] = k]
      BY <1>4, <2>1
    <2> QED
      BY <1>1, <2>3, <2>4, <2>5, WorkerMoves DEF Books
  <1>5. \/ \E pc \in {"drawing", "failed"} : Goto(w, pc)
        \/ /\ checkpoint # Torn /\ IsResumable(w)
           /\ job' = [job EXCEPT ![w].pc = "listing", ![w].completed = checkpoint.done]
    BY DEF LoadCheckpoint
  <1> QED
    BY <1>3, <1>4, <1>5

LEMMA ReconcileBooks ==
    ASSUME Books, NEW w \in Workers, Reconcile(w)
    PROVE  Books'
PROOF
  <1> DEFINE j == job[w]
             part == Listed \cap AllFramesIn(j.completed)
             done == Normalise({FrameRange(f, f + 1) : f \in part})
  <1>1. /\ j \in Job /\ Orderly(j, order) /\ j.pc = "listing" /\ j.drawn = 0
        /\ order \in OrdersThatStart
        /\ UNCHANGED <<order, film, file, checkpoint, spent>>
    BY DEF Books, Reconcile, Orderly
  <1>2. part \subseteq FramesIn(TargetOf(order)) /\ part \subseteq Nat /\ IsFiniteSet(part)
        /\ 0 <= Cardinality(part)
    <2>1. part \subseteq FramesIn(TargetOf(order))
      BY <1>1 DEF Orderly
    <2>2. Frames \subseteq Nat
      BY NumFramesAssumption DEF Frames
    <2> HIDE DEF part
    <2>3. part \subseteq Frames /\ IsFiniteSet(part) /\ Cardinality(part) \in Nat
      BY <1>1, <2>1, PartOfTarget
    <2> QED
      BY <2>1, <2>2, <2>3
  <1>3. done \in Seq(Stretch) /\ IsCanonical(done) /\ AllFramesIn(done) = part
    <2> HIDE DEF part
    <2> QED
      BY <1>2, FramesAsRanges
  <1>4. PICK k : k = [j EXCEPT !.pc = "drawing", !.completed = done]
    OBVIOUS
  <1>5. job' = [job EXCEPT ![w] = k]
    BY <1>4 DEF Reconcile
  <1> HIDE DEF done, part
  <1>6. k \in Job /\ k.pc = "drawing" /\ k.completed = done /\ k.drawn = 0
    BY <1>1, <1>3, <1>4 DEF Job, Phase, Stretch
  <1>7. Orderly(k, order)
    BY <1>2, <1>3, <1>6 DEF Orderly
  <1> QED
    BY <1>1, <1>5, <1>6, <1>7, WorkerMoves DEF Books

\* From drawing to saving, for whatever reason.
LEMMA SaveThenBooks ==
    ASSUME Books, NEW w \in Workers, job[w].pc = "drawing",
           NEW next \in {"encoding", "failed", "cancelled"}, SaveThen(w, next),
           next = "encoding" => Pending(w) = <<>>,
           UNCHANGED <<order, film, file, checkpoint>>, spent' \in Spending
    PROVE  Books'
PROOF
  <1> DEFINE j == job[w]
  <1>1. j \in Job /\ Orderly(j, order) /\ j.pc = "drawing" /\ j.completed \in Seq(Stretch)
        /\ order \in OrdersThatStart
    BY JobType DEF Books
  <1>2. PICK k : k = [j EXCEPT !.pc = "saving", !.next = next]
    OBVIOUS
  <1>3. job' = [job EXCEPT ![w] = k]
    BY <1>2 DEF SaveThen
  <1>4. k \in Job /\ k.pc = "saving" /\ k.next = next /\ k.completed = j.completed /\ k.drawn = j.drawn
    BY <1>1, <1>2 DEF Job, Phase
  <1>5. next = "encoding" => FramesIn(TargetOf(order)) \subseteq AllFramesIn(j.completed)
    BY <1>1, TargetFits, Owed DEF Pending, Target
  <1>6. j.drawn <= Cardinality(AllFramesIn(j.completed))
    BY <1>1 DEF Orderly, Ended
  <1>7. Orderly(k, order)
    <2> HIDE DEF j
    <2> QED
      BY <1>1, <1>4, <1>5, <1>6 DEF Orderly
  <1> QED
    BY <1>3, <1>4, <1>7, WorkerMoves DEF Books

LEMMA StopBooks ==
    ASSUME Books, NEW w \in Workers, NEW why \in {"failed", "cancelled"}, StopDrawing(w, why)
    PROVE  Books'
PROOF
  <1>1. spent' \in Spending
    BY FaultCounts DEF Books, StopDrawing
  <1> QED
    BY <1>1, SaveThenBooks DEF StopDrawing

LEMMA AllDrawnBooks ==
    ASSUME Books, NEW w \in Workers, AllDrawn(w)
    PROVE  Books'
PROOF
  <1>1. spent' \in Spending
    BY DEF Books, AllDrawn
  <1> QED
    BY <1>1, SaveThenBooks DEF AllDrawn

\* The frame to be drawn next is of the target and not done.
LEMMA NextIsOwed ==
    ASSUME Books, NEW w \in Workers, Pending(w) # <<>>
    PROVE  /\ NextFrame(w) \in FramesIn(TargetOf(order)) \ Completed(w)
           /\ NextFrame(w) \in Frames /\ NextFrame(w) \in Nat
PROOF
  <1>1. order \in OrdersThatStart /\ job[w].completed \in Seq(Stretch)
    BY JobType DEF Books
  <1>2. TargetOf(order) \in Stretch /\ FramesIn(TargetOf(order)) \subseteq Frames
    BY <1>1, TargetFits
  <1> QED
    BY <1>1, <1>2, Owed DEF Pending, NextFrame, Completed, Target

LEMMA BeginPutBooks ==
    ASSUME Books, NEW w \in Workers, BeginPut(w)
    PROVE  Books'
PROOF
  <1> DEFINE j == job[w]
  <1>1. j \in Job /\ Orderly(j, order) /\ j.pc = "drawing" /\ Pending(w) # <<>>
        /\ UNCHANGED <<order, film, checkpoint, spent>>
    BY DEF Books, BeginPut
  <1>2. PICK k : k = [j EXCEPT !.pc = "writing"]
    OBVIOUS
  <1>3. job' = [job EXCEPT ![w] = k]
    BY <1>2 DEF BeginPut, Goto
  <1>4. k \in Job /\ k.pc = "writing" /\ k.completed = j.completed /\ k.drawn = j.drawn
    BY <1>1, <1>2 DEF Job, Phase
  <1>5. j.drawn <= Cardinality(AllFramesIn(j.completed)) /\ Subtract(TargetOf(order), j.completed) # <<>>
    BY <1>1 DEF Orderly, Ended, Pending, Target
  <1>6. Orderly(k, order)
    <2> HIDE DEF j
    <2> QED
      BY <1>1, <1>4, <1>5 DEF Orderly
  <1>7. file' \in Files
    BY <1>1, NextIsOwed DEF BeginPut, Books, Files
  <1> QED
    BY <1>1, <1>3, <1>4, <1>6, <1>7, WorkerMoves DEF Books

LEMMA EndPutBooks ==
    ASSUME Books, NEW w \in Workers, EndPut(w)
    PROVE  Books'
PROOF
  <1> DEFINE j == job[w]
             f == NextFrame(w)
             done == WithFrame(j.completed, f)
             pc == IF (j.drawn + 1) % CheckpointEvery = 0 THEN "saving" ELSE "drawing"
  <1>1. /\ j \in Job /\ Orderly(j, order) /\ j.pc = "writing" /\ order \in OrdersThatStart
        /\ j.completed \in Seq(Stretch) /\ j.drawn \in Nat /\ j.film \in Film
        /\ UNCHANGED <<order, film, checkpoint>>
    BY JobType, NumFramesAssumption DEF Books, EndPut
  <1>2. Pending(w) # <<>>
    BY <1>1 DEF Orderly, Pending, Target
  <1>3. /\ f \in FramesIn(TargetOf(order)) \ AllFramesIn(j.completed) /\ f \in Nat /\ f \in Frames
    BY <1>2, NextIsOwed DEF Completed
  <1>4. /\ done \in Seq(Stretch) /\ IsCanonical(done)
        /\ AllFramesIn(done) = AllFramesIn(j.completed) \cup {f}
    <2> HIDE DEF f, j
    <2> QED
      BY <1>1, <1>3, OneFrameMore
  <1>5. /\ AllFramesIn(done) \subseteq FramesIn(TargetOf(order))
        /\ j.drawn + 1 <= Cardinality(AllFramesIn(done))
        /\ j.drawn + 1 \in 0 .. NumFrames
    <2>1. AllFramesIn(j.completed) \subseteq FramesIn(TargetOf(order))
          /\ j.drawn <= Cardinality(AllFramesIn(j.completed))
      BY <1>1 DEF Orderly, Ended
    <2> HIDE DEF f, done, j
    <2>2. AllFramesIn(done) \subseteq FramesIn(TargetOf(order))
      BY <1>3, <1>4, <2>1
    <2>3. /\ IsFiniteSet(AllFramesIn(j.completed)) /\ Cardinality(AllFramesIn(j.completed)) \in Nat
          /\ Cardinality(AllFramesIn(done)) \in Nat /\ Cardinality(AllFramesIn(done)) <= NumFrames
      BY <1>1, <2>1, <2>2, PartOfTarget
    <2>4. Cardinality(AllFramesIn(done)) = Cardinality(AllFramesIn(j.completed)) + 1
      BY <1>3, <1>4, <2>3, FS_AddElement
    <2> QED
      BY <1>1, <2>1, <2>2, <2>3, <2>4, NumFramesAssumption
  <1>6. PICK k : k = [j EXCEPT !.pc = pc, !.next = "drawing", !.completed = done, !.drawn = j.drawn + 1]
    OBVIOUS
  <1>7. job' = [job EXCEPT ![w] = k]
    BY <1>6 DEF EndPut
  <1>8. file' \in Files
    BY <1>1, <1>3 DEF EndPut, Books, Files
  <1>9. spent' \in Spending
    BY DEF EndPut, Books, Spending
  <1> HIDE DEF done, f
  <1>10. k \in Job /\ k.pc \in {"saving", "drawing"} /\ k.next = "drawing" /\ k.completed = done
         /\ k.drawn = j.drawn + 1
    BY <1>1, <1>4, <1>5, <1>6 DEF Job, Phase, Stretch
  <1>11. Orderly(k, order)
    <2> HIDE DEF j
    <2> QED
      BY <1>4, <1>5, <1>10 DEF Orderly
  <1> QED
    BY <1>1, <1>7, <1>8, <1>9, <1>10, <1>11, WorkerMoves DEF Books

\* A worker that ends, whatever else happens to the counts.
LEMMA EndsBooks ==
    ASSUME Books, NEW w \in Workers, Active(w), NEW pc \in Ended, Goto(w, pc),
           UNCHANGED <<order, film, file, checkpoint>>, spent' \in Spending
    PROVE  Books'
PROOF
  <1> DEFINE j == job[w]
  <1>1. j \in Job /\ Orderly(j, order) /\ j.pc \notin Ended /\ pc \in Phase
    BY DEF Books, Active, Phase
  <1>2. PICK k : k = [j EXCEPT !.pc = pc]
    OBVIOUS
  <1>3. job' = [job EXCEPT ![w] = k]
    BY <1>2 DEF Goto
  <1>4. k \in Job /\ Orderly(k, order)
    <2> HIDE DEF j
    <2> QED
      BY <1>1, <1>2, PlaceChanges
  <1> QED
    BY <1>3, <1>4, WorkerMoves DEF Books

LEMMA SaveBooks ==
    ASSUME Books, NEW w \in Workers, Save(w)
    PROVE  Books'
PROOF
  <1> DEFINE j == job[w]
             c == [ir |-> j.film.ir, done |-> j.completed]
  <1>1. /\ j \in Job /\ Orderly(j, order) /\ j.pc = "saving" /\ order \in OrdersThatStart
        /\ j.completed \in Seq(Stretch) /\ j.film \in Film
        /\ j.next \in {"drawing", "encoding", "failed", "cancelled"}
        /\ checkpoint' = c /\ UNCHANGED <<order, film, file, spent>>
    BY JobType DEF Books, Save
  <1>2. OrderlyRecord(c, order)
    <2>1. c \in Record /\ c.done = j.completed
      BY <1>1 DEF Record, Film, Stretch
    <2> QED
      BY <1>1, <2>1 DEF OrderlyRecord, Orderly
  <1>3. PICK k : k = [j EXCEPT !.pc = j.next]
    OBVIOUS
  <1>4. job' = [job EXCEPT ![w] = k]
    BY <1>3 DEF Save, Goto
  <1>5. /\ k \in Job /\ k.pc = j.next /\ k.completed = j.completed /\ k.drawn = j.drawn /\ k.next = j.next
    BY <1>1, <1>3 DEF Job, Phase, Ended
  <1>6. Orderly(k, order)
    <2> HIDE DEF j
    <2> QED
      BY <1>1, <1>5 DEF Orderly, Ended
  <1> HIDE DEF c
  <1> QED
    BY <1>1, <1>2, <1>4, <1>5, <1>6, WorkerMoves DEF Books

LEMMA EncodeBooks ==
    ASSUME Books, NEW w \in Workers, EncodeFrame(w)
    PROVE  Books'
PROOF
  <1> DEFINE j == job[w]
             f == file[Position(w)]
  <1>1. /\ j \in Job /\ Orderly(j, order) /\ j.pc = "encoding" /\ order \in OrdersThatStart
        /\ j.encoded \in Seq(Film) /\ Active(w)
        /\ UNCHANGED <<order, film, file, checkpoint, spent>>
    BY JobType DEF Books, EncodeFrame, Active, Ended
  <1>2. CASE Encodable(w) /\ job' = [job EXCEPT ![w].encoded = Append(@, f)]
    <2>1. PICK k : k = [j EXCEPT !.encoded = Append(j.encoded, f)]
      OBVIOUS
    <2>2. job' = [job EXCEPT ![w] = k]
      BY <1>2, <2>1
    <2>3. f \in Film
      <3>1. Position(w) \in Frames
        <4>1. Position(w) < Target.to /\ Target \in Stretch /\ FramesIn(Target) \subseteq Frames
              /\ Len(j.encoded) \in Nat
          BY <1>1, TargetFits DEF EncodeFrame, Target
        <4>2. Target.from \in Nat /\ Target.to \in Nat
          BY <4>1, InFrames
        <4>3. Position(w) \in FramesIn(Target)
          BY <4>1, <4>2 DEF Position, FramesIn
        <4> QED
          BY <4>1, <4>3
      <3> QED
        BY <1>2, <3>1 DEF Encodable, Whole, Books, Files
    <2>4. k \in Job /\ k.pc = "encoding" /\ k.completed = j.completed /\ k.drawn = j.drawn
          /\ k.next = j.next
      <3>1. Append(j.encoded, f) \in Seq(Film)
        BY <1>1, <2>3
      <3> HIDE DEF f
      <3> QED
        BY <1>1, <2>1, <3>1 DEF Job
    <2>5. Orderly(k, order)
      <3> HIDE DEF j
      <3> QED
        BY <1>1, <2>4 DEF Orderly, Ended
    <2> QED
      BY <1>1, <2>2, <2>4, <2>5, WorkerMoves DEF Books
  <1>3. CASE Goto(w, "failed")
    BY <1>1, <1>3, EndsBooks DEF Books, Ended
  <1> QED
    BY <1>2, <1>3 DEF EncodeFrame

LEMMA FinishBooks ==
    ASSUME Books, NEW w \in Workers, FinishEncoding(w)
    PROVE  Books'
PROOF
  <1> DEFINE j == job[w]
  <1>1. /\ j \in Job /\ Orderly(j, order) /\ j.pc = "encoding" /\ Active(w)
        /\ UNCHANGED <<order, film, file, checkpoint, spent>>
    BY DEF Books, FinishEncoding, Active, Ended
  <1>2. CASE KeepFrames \/ ~HasMaster
    BY <1>1, <1>2, EndsBooks DEF FinishEncoding, Ended, Books
  <1>3. CASE ~(KeepFrames \/ ~HasMaster)
    <2>1. PICK k : k = [j EXCEPT !.pc = "clearing"]
      OBVIOUS
    <2>2. job' = [job EXCEPT ![w] = k]
      BY <1>3, <2>1 DEF FinishEncoding, Goto
    <2>3. k \in Job /\ k.pc = "clearing" /\ k.completed = j.completed /\ k.drawn = j.drawn
      BY <1>1, <2>1 DEF Job, Phase
    <2>4. order.by = "api"
      BY <1>3 DEF KeepFrames
    <2>5. Orderly(k, order)
      <3> HIDE DEF j
      <3> QED
        BY <1>1, <2>3, <2>4 DEF Orderly, Ended
    <2> QED
      BY <1>1, <2>2, <2>3, <2>5, WorkerMoves DEF Books
  <1> QED
    BY <1>2, <1>3

LEMMA ClearBooks ==
    ASSUME Books, NEW w \in Workers, ClearFrames(w)
    PROVE  Books'
PROOF
  <1>1. CASE (\E f \in Frames : file' = [file EXCEPT ![f] = None]) /\ UNCHANGED job
    <2>1. file' \in Files
      BY <1>1 DEF Books, Files
    <2> QED
      BY <1>1, <2>1 DEF Books, ClearFrames
  <1>2. CASE Goto(w, "done") /\ UNCHANGED file
    BY <1>2, EndsBooks DEF ClearFrames, Active, Ended, Books
  <1> QED
    BY <1>1, <1>2 DEF ClearFrames

LEMMA CrashBooks ==
    ASSUME Books, Crash
    PROVE  Books'
PROOF
  <1>1. ASSUME NEW w \in Workers
        PROVE  job'[w] \in Job /\ Orderly(job'[w], order)
    <2> DEFINE j == job[w]
    <2>1. j \in Job /\ Orderly(j, order)
      BY DEF Books
    <2>2. CASE Active(w)
      <3>1. job'[w] = [j EXCEPT !.pc = "idle"]
        BY <2>2 DEF Crash
      <3>2. j.pc \notin Ended /\ "idle" \in Phase /\ "idle" \in Ended
        BY <2>2 DEF Active, Phase, Ended
      <3> HIDE DEF j
      <3> QED
        BY <2>1, <3>1, <3>2, PlaceChanges
    <2>3. CASE ~Active(w)
      BY <2>1, <2>3 DEF Crash
    <2> QED
      BY <2>2, <2>3
  <1>2. job' \in [Workers -> Job]
    BY <1>1 DEF Crash
  <1>3. OrderlyRecord(checkpoint', order)
    BY NoFileAssumption DEF Crash, Books, OrderlyRecord
  <1>4. spent' \in Spending
    BY BoundsAssumption DEF Crash, Books, Spending
  <1>5. order' = order /\ film' = film /\ file' = file
    BY DEF Crash
  <1> QED
    BY <1>1, <1>2, <1>3, <1>4, <1>5 DEF Books

LEMMA EditBooks ==
    ASSUME Books, NEW new \in Film, Edit(new)
    PROVE  Books'
PROOF
  <1>1. spent' \in Spending
    BY BoundsAssumption DEF Edit, Books, Spending
  <1> QED
    BY <1>1 DEF Edit, Books

LEMMA NextBooks == Books /\ [Next]_vars => Books'
PROOF
  <1> SUFFICES ASSUME Books, [Next]_vars PROVE Books'
    OBVIOUS
  <1>1. CASE UNCHANGED vars
    BY <1>1 DEF vars, Books
  <1>2. ASSUME NEW w \in Workers, PutFails(w) \/ SaveFails(w) \/ EncoderFails(w)
        PROVE  Books'
    <2>1. /\ Active(w) /\ \E pc \in Ended : Goto(w, pc)
          /\ UNCHANGED <<order, film, file, checkpoint>> /\ Fault
      BY <1>2 DEF PutFails, SaveFails, EncoderFails, Active, Ended
    <2>2. spent' \in Spending
      BY <2>1, FaultCounts DEF Books
    <2> QED
      BY <2>1, <2>2, EndsBooks
  <1>3. ASSUME NEW w \in Workers, Start(w) \/ WorkerStep(w)
        PROVE  Books'
    BY <1>2, <1>3, StartBooks, LoadBooks, ReconcileBooks, StopBooks, BeginPutBooks, EndPutBooks,
       AllDrawnBooks, SaveBooks, EncodeBooks, FinishBooks, ClearBooks DEF WorkerStep
  <1> QED
    BY <1>1, <1>3, CrashBooks, EditBooks DEF Next

LEMMA AlwaysBooks == Spec => []Books
  BY InitBooks, NextBooks, PTL DEF Spec

LEMMA BooksImply == Books => TypeOK /\ EncodingHasAllFrames
PROOF
  <1> SUFFICES ASSUME Books PROVE TypeOK /\ EncodingHasAllFrames
    OBVIOUS
  <1>1. checkpoint \in Record \cup {None, Torn}
    BY DEF Books, OrderlyRecord
  <1>2. \A w \in Workers : /\ job[w].pc = "writing" => Pending(w) # <<>>
                           /\ IsCanonical(job[w].completed)
                           /\ job[w].pc = "encoding" => FramesIn(Target) \subseteq Completed(w)
    BY DEF Books, Orderly, Pending, Target, Completed
  <1> QED
    BY <1>1, <1>2 DEF Books, TypeOK, EncodingHasAllFrames, Files, Spending

-----------------------------------------------------------------------------
\* What a frame was drawn from.

\* Where a worker relies on what it takes for completed.
Drawing == {"drawing", "writing", "saving", "encoding"}

\* The checkpoint c is one that a worker of this IR resumes from.
Claims(c, ir) == c \in Record /\ c.ir = ir

ClaimedBy(c) == IF c \in Record THEN AllFramesIn(c.done) ELSE {}

\* Listed, of any files.
SeenBy(o, files) ==
    {f \in Frames : IF o.by \in {"api", "apiKeep"} THEN files[f] \notin {None, Torn} ELSE files[f] # None}

AreFrom(ir, frames, files) == \A f \in frames : files[f] \notin {None, Torn} /\ files[f].ir = ir

\* What a resume with this IR would take for completed was drawn from it, whole.
TrustedIn(c, files, o, ir) == Claims(c, ir) => AreFrom(ir, SeenBy(o, files) \cap ClaimedBy(c), files)

\* The directory: all that is whole is of the present film unless it was edited, a frame
\* that a checkpoint claims is there unless frames are cleared, and a worker that starts
\* now may trust what it finds.
InOrder(o, fm, files, c, edits) ==
    /\ o.by \in {"api", "apiKeep"} => edits = 0
    /\ edits = 0 => /\ \A f \in Frames : files[f] \notin {None, Torn} => files[f] = fm
                    /\ c \in Record => c.ir = fm.ir
    /\ o.by # "api" => ClaimedBy(c) \subseteq SeenBy(o, files)
    /\ TrustedIn(c, files, o, fm.ir)

\* A worker: every frame it encodes, completes or would trust once it has looked is from
\* its IR; it does not forget what the checkpoint claims.
Traceable(j, o, fm, files, c, edits) ==
    /\ \A i \in DOMAIN j.encoded : j.encoded[i].ir = j.film.ir
    /\ edits = 0 => j.film = fm
    /\ j.pc \notin Ended =>
          /\ TrustedIn(c, files, o, j.film.ir)
          /\ j.pc = "listing" => Claims(c, j.film.ir) /\ j.completed = c.done
          /\ j.film.ir # fm.ir => ~Claims(c, fm.ir)
          /\ j.pc \in Drawing => AreFrom(j.film.ir, AllFramesIn(j.completed), files)
          /\ j.pc \in Drawing /\ o.by # "api" /\ Claims(c, j.film.ir) =>
                 ClaimedBy(c) \subseteq AllFramesIn(j.completed)

\* The inductive invariant of where frames come from, while undisturbed.
Origins ==
    /\ InOrder(order, film, file, checkpoint, spent.edits)
    /\ \A w \in Workers : Traceable(job[w], order, film, file, checkpoint, spent.edits)

\* One worker in the directory at a time, and no edit taken back: the film changes once at
\* most.  Without the first ClearedFramesAreUnused fails (RenderJob_shared.cfg), without
\* the second NoSplice does (RenderJob_reverted.cfg).
Undisturbed ==
    /\ \A v, w \in Workers : Active(v) /\ Active(w) => v = w
    /\ spent.edits <= 1

LEMMA ListedIsSeen == Listed = SeenBy(order, file)
  BY DEF Listed, SeenBy, Checked, Whole

LEMMA InitOrigins == Init => Origins
PROOF
  <1> SUFFICES ASSUME Init PROVE Origins
    OBVIOUS
  <1>1. checkpoint \notin Record /\ spent.edits = 0 /\ \A f \in Frames : file[f] = None
    BY NoFileAssumption DEF Init
  <1>2. InOrder(order, film, file, checkpoint, spent.edits)
    BY <1>1 DEF InOrder, TrustedIn, Claims, ClaimedBy
  <1>3. ASSUME NEW w \in Workers
        PROVE  Traceable(job[w], order, film, file, checkpoint, spent.edits)
    <2>1. job[w].pc = "idle" /\ job[w].film = film /\ job[w].encoded = <<>>
      BY DEF Init, NewJob
    <2> QED
      BY <2>1 DEF Traceable, Ended
  <1> QED
    BY <1>2, <1>3 DEF Origins

\* A worker that has ended looks at nothing.
LEMMA EndedIsTraceable ==
    ASSUME NEW j, NEW o, NEW fm, NEW files, NEW c, NEW edits, Traceable(j, o, fm, files, c, edits),
           NEW k, k.pc \in Ended, k.film = j.film, k.encoded = j.encoded,
           NEW files2, NEW c2
    PROVE  Traceable(k, o, fm, files2, c2, edits)
  BY DEF Traceable

\* One that goes on over the same ranges.
LEMMA GoesOn ==
    ASSUME NEW j, NEW o, NEW fm, NEW files, NEW c, NEW edits, Traceable(j, o, fm, files, c, edits),
           NEW k, j.pc \in Drawing, k.pc \in Drawing \cup {"clearing"},
           k.film = j.film, k.encoded = j.encoded, k.completed = j.completed
    PROVE  Traceable(k, o, fm, files, c, edits)
PROOF
  <1>1. j.pc \notin Ended /\ k.pc # "listing"
    BY DEF Drawing, Ended
  <1> QED
    BY <1>1 DEF Traceable

\* A step of one worker, while no other is active.
LEMMA OneMoves ==
    ASSUME Origins, NEW w \in Workers, NEW k, job \in [Workers -> Job], job' = [job EXCEPT ![w] = k],
           \A v \in Workers : v # w => job[v].pc \in Ended,
           order' = order, film' = film, spent'.edits = spent.edits,
           InOrder(order, film, file', checkpoint', spent.edits),
           Traceable(k, order, film, file', checkpoint', spent.edits)
    PROVE  Origins'
PROOF
  <1>1. ASSUME NEW v \in Workers
        PROVE  Traceable(job'[v], order, film, file', checkpoint', spent.edits)
    <2>1. CASE v = w
      BY <2>1
    <2>2. CASE v # w
      <3>1. job'[v] = job[v] /\ job[v].pc \in Ended
        BY <2>2
      <3>2. Traceable(job[v], order, film, file, checkpoint, spent.edits)
        BY DEF Origins
      <3> QED
        BY <3>1, <3>2 DEF Traceable
    <2> QED
      BY <2>1, <2>2
  <1> QED
    BY <1>1 DEF Origins

\* What a step of an active worker starts from.
Acting(w) ==
    /\ Books /\ Origins
    /\ Active(w)
    /\ \A v \in Workers : v # w => job[v].pc \in Ended

LEMMA ActingHas ==
    ASSUME NEW w \in Workers, Acting(w)
    PROVE  /\ job \in [Workers -> Job] /\ job[w] \in Job /\ job[w].pc \notin Ended
           /\ job[w].film \in Film /\ job[w].completed \in Seq(Stretch)
           /\ order \in OrdersThatStart /\ film \in Film /\ file \in Files
           /\ Orderly(job[w], order) /\ OrderlyRecord(checkpoint, order)
           /\ InOrder(order, film, file, checkpoint, spent.edits)
           /\ Traceable(job[w], order, film, file, checkpoint, spent.edits)
           /\ AllFramesIn(job[w].completed) \subseteq Frames
           /\ ClaimedBy(checkpoint) \subseteq Frames
PROOF
  <1>1. /\ job \in [Workers -> Job] /\ job[w] \in Job /\ job[w].pc \notin Ended
        /\ order \in OrdersThatStart /\ film \in Film /\ file \in Files
        /\ Orderly(job[w], order) /\ OrderlyRecord(checkpoint, order)
        /\ InOrder(order, film, file, checkpoint, spent.edits)
        /\ Traceable(job[w], order, film, file, checkpoint, spent.edits)
    BY DEF Acting, Books, Origins, Active
  <1>2. FramesIn(TargetOf(order)) \subseteq Frames
    BY <1>1, TargetFits
  <1> QED
    BY <1>1, <1>2, JobType DEF Orderly, OrderlyRecord, ClaimedBy

\* A step that leaves the directory as it is.
LEMMA LeavesDirectory ==
    ASSUME NEW w \in Workers, Acting(w), NEW k, job' = [job EXCEPT ![w] = k],
           Traceable(k, order, film, file, checkpoint, spent.edits),
           UNCHANGED <<order, film, file, checkpoint>>, spent'.edits = spent.edits
    PROVE  Origins'
PROOF
  <1>1. Traceable(k, order, film, file', checkpoint', spent.edits)
    OBVIOUS
  <1>2. InOrder(order, film, file', checkpoint', spent.edits)
    BY ActingHas
  <1> QED
    BY <1>1, <1>2, ActingHas, OneMoves DEF Acting

LEMMA EndsOrigins ==
    ASSUME NEW w \in Workers, Acting(w), NEW pc \in Ended, Goto(w, pc),
           UNCHANGED <<order, film, file, checkpoint>>, spent'.edits = spent.edits
    PROVE  Origins'
PROOF
  <1>1. PICK k : k = [job[w] EXCEPT !.pc = pc]
    OBVIOUS
  <1>2. job' = [job EXCEPT ![w] = k]
    BY <1>1 DEF Goto
  <1>3. k.pc \in Ended /\ k.film = job[w].film /\ k.encoded = job[w].encoded
    BY <1>1, ActingHas DEF Job
  <1>4. Traceable(k, order, film, file, checkpoint, spent.edits)
    BY <1>3, ActingHas, EndedIsTraceable
  <1> QED
    BY <1>2, <1>4, LeavesDirectory

LEMMA FaultEdits ==
    ASSUME spent \in Spending, Fault
    PROVE  spent'.edits = spent.edits /\ spent'.drawn = spent.drawn /\ spent'.crashes = spent.crashes
           /\ spent'.faults = spent.faults + 1
  BY DEF Fault, Spending

LEMMA StartOrigins ==
    ASSUME Books, Origins, NEW w \in Workers, Start(w),
           \A v \in Workers : v # w => job[v].pc \in Ended
    PROVE  Origins'
PROOF
  <1>1. PICK k : k = NewJob
    OBVIOUS
  <1>2. job' = [job EXCEPT ![w] = k] /\ job \in [Workers -> Job] /\ spent'.edits = spent.edits
        /\ UNCHANGED <<order, film, file, checkpoint>>
    BY <1>1 DEF Start, Books, Spending
  <1>3. k.pc = "loading" /\ k.film = film /\ k.encoded = <<>>
    BY <1>1 DEF NewJob
  <1>4. InOrder(order, film, file, checkpoint, spent.edits)
    BY DEF Origins
  <1>5. Traceable(k, order, film, file, checkpoint, spent.edits)
    BY <1>3, <1>4 DEF InOrder, Traceable, Drawing
  <1>6. /\ InOrder(order, film, file', checkpoint', spent.edits)
        /\ Traceable(k, order, film, file', checkpoint', spent.edits)
    BY <1>2, <1>4, <1>5
  <1> QED
    BY <1>2, <1>6, OneMoves

LEMMA LoadOrigins ==
    ASSUME NEW w \in Workers, Acting(w), LoadCheckpoint(w)
    PROVE  Origins'
PROOF
  <1> DEFINE j == job[w]
  <1>1. /\ j.pc = "loading" /\ UNCHANGED <<order, film, file, checkpoint, spent>>
        /\ j.completed = <<>> /\ j \in Job
        /\ Traceable(j, order, film, file, checkpoint, spent.edits)
        /\ checkpoint \in Record \cup {None, Torn}
    BY ActingHas DEF LoadCheckpoint, Orderly, OrderlyRecord
  <1>2. ASSUME Goto(w, "failed") PROVE Origins'
    BY <1>1, <1>2, EndsOrigins DEF Ended
  <1>3. ASSUME Goto(w, "drawing"), ~Claims(checkpoint, j.film.ir)
        PROVE  Origins'
    <2>1. PICK k : k = [j EXCEPT !.pc = "drawing"]
      OBVIOUS
    <2>2. k.pc = "drawing" /\ k.film = j.film /\ k.encoded = j.encoded /\ k.completed = <<>>
      BY <1>1, <2>1 DEF Job
    <2>3. job' = [job EXCEPT ![w] = k]
      BY <1>3, <2>1 DEF Goto
    <2>4. AreFrom(k.film.ir, AllFramesIn(k.completed), file)
      BY <2>2, NoFrames DEF AreFrom
    <2> HIDE DEF j
    <2>5. Traceable(k, order, film, file, checkpoint, spent.edits)
      BY <1>1, <1>3, <2>2, <2>4 DEF Traceable, Ended
    <2> QED
      BY <1>1, <2>3, <2>5, LeavesDirectory
  <1>4. CASE /\ checkpoint # Torn /\ IsResumable(w)
             /\ job' = [job EXCEPT ![w].pc = "listing", ![w].completed = checkpoint.done]
    <2>1. PICK k : k = [j EXCEPT !.pc = "listing", !.completed = checkpoint.done]
      OBVIOUS
    <2>2. k.pc = "listing" /\ k.film = j.film /\ k.encoded = j.encoded /\ k.completed = checkpoint.done
      BY <1>1, <2>1 DEF Job
    <2>3. job' = [job EXCEPT ![w] = k]
      BY <1>4, <2>1
    <2>4. Claims(checkpoint, j.film.ir)
      BY <1>1, <1>4 DEF Claims, IsResumable
    <2> HIDE DEF j
    <2>5. Traceable(k, order, film, file, checkpoint, spent.edits)
      BY <1>1, <2>2, <2>4 DEF Traceable, Ended, Drawing
    <2> QED
      BY <1>1, <2>3, <2>5, LeavesDirectory
  <1>5. checkpoint = Torn \/ ~IsResumable(w) => ~Claims(checkpoint, j.film.ir)
    BY <1>1, NoFileAssumption DEF Claims, IsResumable
  <1>6. \/ Goto(w, "failed")
        \/ Goto(w, "drawing") /\ (checkpoint = Torn \/ ~IsResumable(w))
        \/ /\ checkpoint # Torn /\ IsResumable(w)
           /\ job' = [job EXCEPT ![w].pc = "listing", ![w].completed = checkpoint.done]
    BY DEF LoadCheckpoint
  <1> QED
    BY <1>2, <1>3, <1>4, <1>5, <1>6

LEMMA ReconcileOrigins ==
    ASSUME NEW w \in Workers, Acting(w), Reconcile(w)
    PROVE  Origins'
PROOF
  <1> DEFINE j == job[w]
             part == Listed \cap AllFramesIn(j.completed)
             done == Normalise({FrameRange(f, f + 1) : f \in part})
  <1>1. /\ j.pc = "listing" /\ UNCHANGED <<order, film, file, checkpoint, spent>> /\ j \in Job
        /\ Traceable(j, order, film, file, checkpoint, spent.edits)
        /\ InOrder(order, film, file, checkpoint, spent.edits)
        /\ order \in OrdersThatStart
    BY ActingHas DEF Reconcile
  <1>2. /\ Claims(checkpoint, j.film.ir) /\ TrustedIn(checkpoint, file, order, j.film.ir)
        /\ AllFramesIn(j.completed) = ClaimedBy(checkpoint)
    BY <1>1 DEF Traceable, Ended, Claims, ClaimedBy
  <1>3. part = SeenBy(order, file) \cap ClaimedBy(checkpoint)
    BY <1>2, ListedIsSeen
  <1>4. AllFramesIn(done) = part
    <2>1. AllFramesIn(j.completed) \subseteq FramesIn(TargetOf(order))
      BY ActingHas DEF Orderly
    <2>2. part \subseteq FramesIn(TargetOf(order))
      BY <2>1
    <2>3. Frames \subseteq Nat
      BY NumFramesAssumption DEF Frames
    <2> HIDE DEF part
    <2>4. part \subseteq Nat /\ IsFiniteSet(part)
      BY <1>1, <2>2, <2>3, PartOfTarget
    <2> QED
      BY <2>4, FramesAsRanges
  <1>5. PICK k : k = [j EXCEPT !.pc = "drawing", !.completed = done]
    OBVIOUS
  <1>6. job' = [job EXCEPT ![w] = k]
    BY <1>5 DEF Reconcile
  <1> HIDE DEF done, part
  <1>7. k.pc = "drawing" /\ k.film = j.film /\ k.encoded = j.encoded /\ k.completed = done
    BY <1>1, <1>5 DEF Job
  <1> HIDE DEF j
  <1>8. AreFrom(k.film.ir, AllFramesIn(k.completed), file)
    BY <1>2, <1>3, <1>4, <1>7 DEF TrustedIn
  <1>9. order.by # "api" => ClaimedBy(checkpoint) \subseteq AllFramesIn(k.completed)
    BY <1>1, <1>3, <1>4, <1>7 DEF InOrder
  <1>10. Traceable(k, order, film, file, checkpoint, spent.edits)
    BY <1>1, <1>7, <1>8, <1>9 DEF Traceable, Ended
  <1> QED
    BY <1>1, <1>6, <1>10, LeavesDirectory

LEMMA SaveThenOrigins ==
    ASSUME NEW w \in Workers, Acting(w), job[w].pc = "drawing", NEW next, SaveThen(w, next),
           UNCHANGED <<order, film, file, checkpoint>>, spent'.edits = spent.edits
    PROVE  Origins'
PROOF
  <1>1. PICK k : k = [job[w] EXCEPT !.pc = "saving", !.next = next]
    OBVIOUS
  <1>2. job' = [job EXCEPT ![w] = k]
    BY <1>1 DEF SaveThen
  <1>3. /\ k.pc = "saving" /\ k.film = job[w].film /\ k.encoded = job[w].encoded
        /\ k.completed = job[w].completed
    BY <1>1, ActingHas DEF Job
  <1>4. Traceable(k, order, film, file, checkpoint, spent.edits)
    BY <1>3, ActingHas, GoesOn DEF Drawing
  <1> QED
    BY <1>2, <1>4, LeavesDirectory

\* A frame that is not done is written, with anything or in part.
LEMMA OtherFilesStay ==
    ASSUME NEW o, NEW files \in Files, NEW f \in Frames, NEW x, NEW g \in Frames, g # f
    PROVE  /\ [files EXCEPT ![f] = x][g] = files[g]
           /\ g \in SeenBy(o, [files EXCEPT ![f] = x]) <=> g \in SeenBy(o, files)
  BY DEF SeenBy, Files

LEMMA BeginPutOrigins ==
    ASSUME NEW w \in Workers, Acting(w), BeginPut(w)
    PROVE  Origins'
PROOF
  <1> DEFINE j == job[w]
             f == NextFrame(w)
             files == [file EXCEPT ![f] = Torn]
  <1>1. /\ j \in Job /\ j.pc = "drawing" /\ Pending(w) # <<>> /\ files = file'
        /\ UNCHANGED <<order, film, checkpoint, spent>>
        /\ Traceable(j, order, film, file, checkpoint, spent.edits)
        /\ InOrder(order, film, file, checkpoint, spent.edits)
        /\ file \in Files /\ Books
        /\ AllFramesIn(j.completed) \subseteq Frames /\ ClaimedBy(checkpoint) \subseteq Frames
        /\ j.pc \in Drawing /\ j.pc \notin Ended
    BY ActingHas DEF BeginPut, Acting, Drawing, Ended
  <1>2. f \in Frames /\ f \notin AllFramesIn(j.completed)
    BY <1>1, NextIsOwed DEF Completed
  <1>3. PICK k : k = [j EXCEPT !.pc = "writing"]
    OBVIOUS
  <1>4. job' = [job EXCEPT ![w] = k]
    BY <1>3 DEF BeginPut, Goto
  <1>5. k.pc = "writing" /\ k.film = j.film /\ k.encoded = j.encoded /\ k.completed = j.completed
    BY <1>1, <1>3 DEF Job
  <1> HIDE DEF f, j
  <1>6. /\ files[f] = Torn
        /\ \A g \in Frames : g # f =>
              files[g] = file[g] /\ (g \in SeenBy(order, files) <=> g \in SeenBy(order, file))
    BY <1>1, <1>2, OtherFilesStay DEF Files
  <1> HIDE DEF files
  <1>7. order.by \in {"api", "apiKeep"} => f \notin SeenBy(order, files)
    BY <1>6 DEF SeenBy
  <1>8. order.by \notin {"api", "apiKeep"} => f \in SeenBy(order, files)
    BY <1>2, <1>6, NoFileAssumption DEF SeenBy
  <1>9. order.by # "api" /\ Claims(checkpoint, j.film.ir) => f \notin ClaimedBy(checkpoint)
    BY <1>1, <1>2 DEF Traceable
  <1>10. TrustedIn(checkpoint, files, order, j.film.ir)
    <2> SUFFICES ASSUME Claims(checkpoint, j.film.ir),
                        NEW g \in SeenBy(order, files), g \in ClaimedBy(checkpoint)
                 PROVE  files[g] \notin {None, Torn} /\ files[g].ir = j.film.ir
      BY DEF TrustedIn, AreFrom
    <2>1. g \in Frames /\ g # f
      BY <1>7, <1>9 DEF SeenBy
    <2>2. g \in SeenBy(order, file) /\ files[g] = file[g]
      BY <1>6, <2>1
    <2> QED
      BY <1>1, <2>2 DEF Traceable, TrustedIn, AreFrom
  <1>11. TrustedIn(checkpoint, files, order, film.ir)
    <2>1. CASE j.film.ir = film.ir
      BY <1>10, <2>1
    <2>2. CASE j.film.ir # film.ir
      BY <1>1, <2>2 DEF Traceable, TrustedIn
    <2> QED
      BY <2>1, <2>2
  <1>12. order.by # "api" => ClaimedBy(checkpoint) \subseteq SeenBy(order, files)
    <2> SUFFICES ASSUME order.by # "api", NEW g \in ClaimedBy(checkpoint)
                 PROVE  g \in SeenBy(order, files)
      OBVIOUS
    <2>1. g \in Frames /\ g \in SeenBy(order, file)
      BY <1>1 DEF InOrder
    <2>2. CASE g # f
      BY <1>6, <2>1, <2>2
    <2>3. CASE g = f
      <3>1. CASE order.by \in {"api", "apiKeep"}
        <4>1. spent.edits = 0
          BY <1>1, <3>1 DEF InOrder
        <4>2. checkpoint \in Record
          BY DEF ClaimedBy
        <4>3. checkpoint.ir = film.ir /\ j.film = film
          BY <1>1, <4>1, <4>2 DEF InOrder, Traceable
        <4>4. Claims(checkpoint, j.film.ir)
          BY <4>2, <4>3 DEF Claims
        <4> QED
          BY <1>9, <2>3, <4>4
      <3>2. CASE order.by \notin {"api", "apiKeep"}
        BY <1>8, <2>3, <3>2
      <3> QED
        BY <3>1, <3>2
    <2> QED
      BY <2>2, <2>3
  <1>13. \A g \in Frames : files[g] \notin {None, Torn} => files[g] = file[g]
    BY <1>6
  <1>14. InOrder(order, film, files, checkpoint, spent.edits)
    <2>1. spent.edits = 0 => \A g \in Frames : files[g] \notin {None, Torn} => files[g] = film
      BY <1>1, <1>13 DEF InOrder
    <2> QED
      BY <1>1, <1>11, <1>12, <2>1 DEF InOrder
  <1>15. AreFrom(k.film.ir, AllFramesIn(k.completed), files)
    <2>1. \A g \in AllFramesIn(j.completed) : g \in Frames /\ g # f /\ files[g] = file[g]
      BY <1>1, <1>2, <1>6
    <2> QED
      BY <1>1, <1>5, <2>1 DEF Traceable, AreFrom
  <1>16. Traceable(k, order, film, files, checkpoint, spent.edits)
    BY <1>1, <1>5, <1>10, <1>15 DEF Traceable
  <1> QED
    BY <1>1, <1>4, <1>14, <1>16, ActingHas, OneMoves DEF Acting

LEMMA EndPutOrigins ==
    ASSUME NEW w \in Workers, Acting(w), EndPut(w)
    PROVE  Origins'
PROOF
  <1> DEFINE j == job[w]
             f == NextFrame(w)
             files == [file EXCEPT ![f] = j.film]
             done == WithFrame(j.completed, f)
             pc == IF (j.drawn + 1) % CheckpointEvery = 0 THEN "saving" ELSE "drawing"
  <1>1. /\ j \in Job /\ j.pc = "writing" /\ files = file'
        /\ UNCHANGED <<order, film, checkpoint>> /\ spent'.edits = spent.edits
        /\ Traceable(j, order, film, file, checkpoint, spent.edits)
        /\ InOrder(order, film, file, checkpoint, spent.edits)
        /\ file \in Files /\ Books /\ j.film \in Film /\ j.completed \in Seq(Stretch)
        /\ AllFramesIn(j.completed) \subseteq Frames /\ ClaimedBy(checkpoint) \subseteq Frames
        /\ j.pc \in Drawing /\ j.pc \notin Ended /\ Orderly(j, order)
    BY ActingHas DEF EndPut, Acting, Drawing, Ended, Books, Spending
  <1>2. f \in Frames /\ f \in Nat /\ f \notin AllFramesIn(j.completed)
    <2>1. Pending(w) # <<>>
      BY <1>1 DEF Orderly, Pending, Target
    <2> QED
      BY <1>1, <2>1, NextIsOwed DEF Completed
  <1>3. AllFramesIn(done) = AllFramesIn(j.completed) \cup {f}
    <2> HIDE DEF f, j
    <2> QED
      BY <1>1, <1>2, OneFrameMore
  <1>4. PICK k : k = [j EXCEPT !.pc = pc, !.next = "drawing", !.completed = done, !.drawn = j.drawn + 1]
    OBVIOUS
  <1>5. job' = [job EXCEPT ![w] = k]
    BY <1>4 DEF EndPut
  <1> HIDE DEF done, f
  <1>6. k.pc \in {"saving", "drawing"} /\ k.film = j.film /\ k.encoded = j.encoded /\ k.completed = done
    BY <1>1, <1>4 DEF Job
  <1> HIDE DEF j, pc
  <1>7. /\ files[f] = j.film /\ j.film \notin {None, Torn}
        /\ \A g \in Frames : g # f =>
              files[g] = file[g] /\ (g \in SeenBy(order, files) <=> g \in SeenBy(order, file))
    BY <1>1, <1>2, NoFileAssumption, OtherFilesStay DEF Files
  <1> HIDE DEF files
  <1>8. f \in SeenBy(order, files)
    BY <1>2, <1>7 DEF SeenBy
  <1>9. TrustedIn(checkpoint, files, order, j.film.ir)
    <2> SUFFICES ASSUME Claims(checkpoint, j.film.ir),
                        NEW g \in SeenBy(order, files), g \in ClaimedBy(checkpoint)
                 PROVE  files[g] \notin {None, Torn} /\ files[g].ir = j.film.ir
      BY DEF TrustedIn, AreFrom
    <2>1. CASE g = f
      BY <1>7, <2>1
    <2>2. CASE g # f
      <3>1. g \in SeenBy(order, file) /\ files[g] = file[g]
        BY <1>7, <2>2 DEF SeenBy
      <3> QED
        BY <1>1, <3>1 DEF Traceable, TrustedIn, AreFrom
    <2> QED
      BY <2>1, <2>2
  <1>10. TrustedIn(checkpoint, files, order, film.ir)
    <2>1. CASE j.film.ir = film.ir
      BY <1>9, <2>1
    <2>2. CASE j.film.ir # film.ir
      BY <1>1, <2>2 DEF Traceable, TrustedIn
    <2> QED
      BY <2>1, <2>2
  <1>11. order.by # "api" => ClaimedBy(checkpoint) \subseteq SeenBy(order, files)
    BY <1>1, <1>7, <1>8 DEF InOrder
  <1>12. spent.edits = 0 => \A g \in Frames : files[g] \notin {None, Torn} => files[g] = film
    BY <1>1, <1>7 DEF InOrder, Traceable
  <1>13. InOrder(order, film, files, checkpoint, spent.edits)
    BY <1>1, <1>10, <1>11, <1>12 DEF InOrder
  <1>14. AreFrom(k.film.ir, AllFramesIn(k.completed), files)
    <2> SUFFICES ASSUME NEW g \in AllFramesIn(done)
                 PROVE  files[g] \notin {None, Torn} /\ files[g].ir = j.film.ir
      BY <1>6 DEF AreFrom
    <2>1. CASE g = f
      BY <1>7, <2>1
    <2>2. CASE g # f
      <3>1. g \in AllFramesIn(j.completed) /\ files[g] = file[g]
        BY <1>1, <1>3, <1>7, <2>2
      <3> QED
        BY <1>1, <3>1 DEF Traceable, AreFrom
    <2> QED
      BY <2>1, <2>2
  <1>15. Traceable(k, order, film, files, checkpoint, spent.edits)
    BY <1>1, <1>3, <1>6, <1>9, <1>14 DEF Traceable
  <1> QED
    BY <1>1, <1>5, <1>13, <1>15, ActingHas, OneMoves DEF Acting

LEMMA SaveOrigins ==
    ASSUME NEW w \in Workers, Acting(w), Save(w)
    PROVE  Origins'
PROOF
  <1> DEFINE j == job[w]
             c == [ir |-> j.film.ir, done |-> j.completed]
  <1>1. /\ j \in Job /\ j.pc = "saving" /\ c = checkpoint' /\ UNCHANGED <<order, film, file, spent>>
        /\ Traceable(j, order, film, file, checkpoint, spent.edits)
        /\ InOrder(order, film, file, checkpoint, spent.edits)
        /\ AllFramesIn(j.completed) \subseteq Frames
        /\ j.pc \in Drawing /\ j.pc \notin Ended
        /\ j.next \in Drawing \cup Ended
        /\ j.film \in Film /\ j.completed \in Seq(Stretch)
    BY ActingHas, JobType DEF Save, Drawing, Ended
  <1>2. c \in Record /\ c.ir = j.film.ir /\ c.done = j.completed
    BY <1>1 DEF Record, Film, Stretch
  <1>3. PICK k : k = [j EXCEPT !.pc = j.next]
    OBVIOUS
  <1>4. job' = [job EXCEPT ![w] = k]
    BY <1>3 DEF Save, Goto
  <1>5. k.pc = j.next /\ k.film = j.film /\ k.encoded = j.encoded /\ k.completed = j.completed
    BY <1>1, <1>3 DEF Job
  <1> HIDE DEF c, j
  <1>6. ClaimedBy(c) = AllFramesIn(j.completed) /\ \A ir : Claims(c, ir) <=> ir = j.film.ir
    BY <1>2 DEF ClaimedBy, Claims
  <1>7. AreFrom(j.film.ir, AllFramesIn(j.completed), file)
    BY <1>1 DEF Traceable
  <1>8. \A ir : TrustedIn(c, file, order, ir)
    BY <1>6, <1>7 DEF TrustedIn, AreFrom
  <1>9. ClaimedBy(c) \subseteq SeenBy(order, file)
    BY <1>1, <1>6, <1>7 DEF AreFrom, SeenBy
  <1>10. InOrder(order, film, file, c, spent.edits)
    BY <1>1, <1>2, <1>8, <1>9 DEF InOrder, Traceable
  <1>11. Traceable(k, order, film, file, c, spent.edits)
    BY <1>1, <1>5, <1>6, <1>7, <1>8 DEF Traceable, Drawing, Ended
  <1> QED
    BY <1>1, <1>4, <1>10, <1>11, ActingHas, OneMoves DEF Acting

LEMMA EncodeOrigins ==
    ASSUME NEW w \in Workers, Acting(w), EncodeFrame(w)
    PROVE  Origins'
PROOF
  <1> DEFINE j == job[w]
             f == file[Position(w)]
  <1>1. /\ j \in Job /\ j.pc = "encoding" /\ UNCHANGED <<order, film, file, checkpoint, spent>>
        /\ Traceable(j, order, film, file, checkpoint, spent.edits)
        /\ j.pc \in Drawing /\ j.pc \notin Ended /\ Orderly(j, order)
        /\ j.encoded \in Seq(Film) /\ order \in OrdersThatStart
    BY ActingHas, JobType DEF EncodeFrame, Drawing, Ended
  <1>2. CASE Goto(w, "failed")
    BY <1>1, <1>2, EndsOrigins DEF Ended
  <1>3. CASE job' = [job EXCEPT ![w].encoded = Append(@, f)]
    <2>1. PICK k : k = [j EXCEPT !.encoded = Append(j.encoded, f)]
      OBVIOUS
    <2>2. job' = [job EXCEPT ![w] = k]
      BY <1>3, <2>1
    <2>3. f.ir = j.film.ir
      <3>1. Position(w) < Target.to /\ Target \in Stretch /\ Len(j.encoded) \in Nat
        BY <1>1, TargetFits DEF EncodeFrame, Target
      <3>2. Target.from \in Nat /\ Target.to \in Nat
        BY <3>1, InFrames
      <3>3. Position(w) \in FramesIn(Target)
        BY <3>1, <3>2 DEF Position, FramesIn
      <3>4. FramesIn(Target) \subseteq AllFramesIn(j.completed)
        BY <1>1 DEF Orderly, Target
      <3> QED
        BY <1>1, <3>3, <3>4 DEF Traceable, AreFrom
    <2>4. /\ k.pc = j.pc /\ k.film = j.film /\ k.encoded = Append(j.encoded, f)
          /\ k.completed = j.completed
      BY <1>1, <2>1 DEF Job
    <2>5. \A i \in DOMAIN k.encoded : k.encoded[i].ir = k.film.ir
      <3> HIDE DEF f, j
      <3>1. \A i \in DOMAIN Append(j.encoded, f) :
               \/ i \in DOMAIN j.encoded /\ Append(j.encoded, f)[i] = j.encoded[i]
               \/ Append(j.encoded, f)[i] = f
        BY <1>1
      <3>2. \A i \in DOMAIN j.encoded : j.encoded[i].ir = j.film.ir
        BY <1>1 DEF Traceable
      <3> QED
        BY <2>3, <2>4, <3>1, <3>2
    <2> HIDE DEF f, j
    <2>6. Traceable(k, order, film, file, checkpoint, spent.edits)
      BY <1>1, <2>4, <2>5 DEF Traceable
    <2> QED
      BY <1>1, <2>2, <2>6, LeavesDirectory
  <1> QED
    BY <1>2, <1>3 DEF EncodeFrame

LEMMA FinishOrigins ==
    ASSUME NEW w \in Workers, Acting(w), FinishEncoding(w)
    PROVE  Origins'
PROOF
  <1>1. CASE KeepFrames \/ ~HasMaster
    BY <1>1, EndsOrigins DEF FinishEncoding, Ended
  <1>2. CASE ~(KeepFrames \/ ~HasMaster)
    <2>1. PICK k : k = [job[w] EXCEPT !.pc = "clearing"]
      OBVIOUS
    <2>2. job' = [job EXCEPT ![w] = k]
      BY <1>2, <2>1 DEF FinishEncoding, Goto
    <2>3. /\ k.pc = "clearing" /\ k.film = job[w].film /\ k.encoded = job[w].encoded
          /\ k.completed = job[w].completed
      BY <2>1, ActingHas DEF Job
    <2>4. Traceable(k, order, film, file, checkpoint, spent.edits)
      BY <2>3, ActingHas, GoesOn DEF Drawing, FinishEncoding
    <2> QED
      BY <2>2, <2>4, LeavesDirectory DEF FinishEncoding
  <1> QED
    BY <1>1, <1>2

LEMMA ClearOrigins ==
    ASSUME NEW w \in Workers, Acting(w), ClearFrames(w)
    PROVE  Origins'
PROOF
  <1> DEFINE j == job[w]
  <1>1. /\ j.pc = "clearing" /\ UNCHANGED <<order, film, checkpoint, spent>>
        /\ Traceable(j, order, film, file, checkpoint, spent.edits)
        /\ InOrder(order, film, file, checkpoint, spent.edits)
        /\ order.by = "api" /\ file \in Files /\ j.pc \notin Ended /\ job \in [Workers -> Job]
    BY ActingHas DEF ClearFrames, Orderly, Ended
  <1>2. ASSUME NEW f \in Frames, file' = [file EXCEPT ![f] = None], UNCHANGED job
        PROVE  Origins'
    <2> DEFINE files == [file EXCEPT ![f] = None]
    <2>1. files[f] = None /\ \A g \in Frames : g # f => files[g] = file[g]
      BY <1>1 DEF Files
    <2> HIDE DEF files
    <2>2. \A g \in SeenBy(order, files) : g \in SeenBy(order, file) /\ files[g] = file[g]
      BY <1>1, <2>1 DEF SeenBy
    <2>3. \A ir : TrustedIn(checkpoint, file, order, ir) => TrustedIn(checkpoint, files, order, ir)
      BY <2>2 DEF TrustedIn, AreFrom
    <2>4. \A g \in Frames : files[g] \notin {None, Torn} => files[g] = file[g]
      BY <2>1
    <2>5. InOrder(order, film, files, checkpoint, spent.edits)
      <3>1. spent.edits = 0 => \A g \in Frames : files[g] \notin {None, Torn} => files[g] = film
        BY <1>1, <2>4 DEF InOrder
      <3> QED
        BY <1>1, <2>3, <3>1 DEF InOrder
    <2>6. Traceable(j, order, film, files, checkpoint, spent.edits)
      <3> HIDE DEF j
      <3> QED
        BY <1>1, <2>3 DEF Traceable, Drawing
    <2>7. PICK k : k = j
      OBVIOUS
    <2>8. job' = [job EXCEPT ![w] = k]
      BY <1>1, <1>2, <2>7
    <2> QED
      BY <1>1, <1>2, <2>5, <2>6, <2>7, <2>8, OneMoves DEF Acting, files
  <1>3. CASE Goto(w, "done") /\ UNCHANGED file
    BY <1>1, <1>3, EndsOrigins DEF Ended
  <1> QED
    BY <1>2, <1>3 DEF ClearFrames

LEMMA CrashOrigins ==
    ASSUME Books, Origins, Crash
    PROVE  Origins'
PROOF
  <1>1. ASSUME NEW w \in Workers
        PROVE  Traceable(job'[w], order, film, file, checkpoint', spent.edits)
    <2>1. job[w] \in Job /\ Traceable(job[w], order, film, file, checkpoint, spent.edits)
      BY DEF Books, Origins
    <2>2. /\ job'[w].pc \in Ended /\ job'[w].film = job[w].film /\ job'[w].encoded = job[w].encoded
      BY <2>1 DEF Crash, Active, Ended, Job
    <2> QED
      BY <2>1, <2>2 DEF Traceable
  <1>2. checkpoint' = checkpoint \/ checkpoint' \notin Record
    BY NoFileAssumption DEF Crash
  <1>3. InOrder(order, film, file, checkpoint', spent.edits)
    <2>1. InOrder(order, film, file, checkpoint, spent.edits)
      BY DEF Origins
    <2> QED
      BY <1>2, <2>1 DEF InOrder, TrustedIn, Claims, ClaimedBy
  <1>4. order' = order /\ film' = film /\ file' = file /\ spent'.edits = spent.edits
    BY DEF Crash, Books, Spending
  <1> QED
    BY <1>1, <1>3, <1>4 DEF Origins

LEMMA EditOrigins ==
    ASSUME Books, Origins, NEW new \in Film, Edit(new), spent'.edits <= 1
    PROVE  Origins'
PROOF
  <1>1. /\ spent.edits = 0 /\ spent'.edits = 1 /\ film' = new /\ order.by = "cli"
        /\ UNCHANGED <<order, file, checkpoint, job>>
    BY BoundsAssumption DEF Edit, Books, Spending
  <1>2. InOrder(order, film, file, checkpoint, 0)
    BY <1>1 DEF Origins
  <1>3. Claims(checkpoint, new.ir) => new.ir = film.ir
    BY <1>2 DEF InOrder, Claims
  <1>4. TrustedIn(checkpoint, file, order, new.ir)
    BY <1>2, <1>3 DEF InOrder, TrustedIn
  <1>5. InOrder(order, new, file, checkpoint, 1)
    BY <1>1, <1>2, <1>4 DEF InOrder
  <1>6. ASSUME NEW w \in Workers
        PROVE  Traceable(job[w], order, new, file, checkpoint, 1)
    <2>1. Traceable(job[w], order, film, file, checkpoint, 0)
      BY <1>1 DEF Origins
    <2>2. job[w].film = film
      BY <2>1 DEF Traceable
    <2>3. job[w].film.ir # new.ir => ~Claims(checkpoint, new.ir)
      BY <1>3, <2>2
    <2> QED
      BY <2>1, <2>3 DEF Traceable
  <1> QED
    BY <1>1, <1>5, <1>6 DEF Origins

LEMMA NextOrigins == Books /\ Origins /\ Undisturbed /\ Undisturbed' /\ [Next]_vars => Origins'
PROOF
  <1> SUFFICES ASSUME Books, Origins, Undisturbed, Undisturbed', [Next]_vars
               PROVE  Origins'
    OBVIOUS
  <1>1. CASE UNCHANGED vars
    BY <1>1 DEF vars, Origins
  <1>2. ASSUME NEW w \in Workers, Start(w)
        PROVE  Origins'
    <2>1. \A v \in Workers : v # w => job[v].pc \in Ended
      <3>1. job' = [job EXCEPT ![w] = NewJob] /\ job \in [Workers -> Job]
        BY <1>2 DEF Start, Books
      <3>2. job'[w].pc \notin Ended
        BY <3>1 DEF NewJob, Ended
      <3> QED
        BY <3>1, <3>2 DEF Undisturbed, Active
    <2> QED
      BY <1>2, <2>1, StartOrigins
  <1>3. ASSUME NEW w \in Workers, WorkerStep(w)
        PROVE  Origins'
    <2>1. Active(w)
      BY <1>3 DEF WorkerStep, LoadCheckpoint, Reconcile, StopDrawing, BeginPut, EndPut, PutFails,
                  AllDrawn, Save, SaveFails, EncodeFrame, FinishEncoding, EncoderFails, ClearFrames,
                  Active, Ended
    <2>2. Acting(w)
      BY <2>1 DEF Acting, Undisturbed, Active
    <2>3. CASE PutFails(w) \/ SaveFails(w) \/ EncoderFails(w)
      <3>1. /\ \E pc \in Ended : Goto(w, pc)
            /\ UNCHANGED <<order, film, file, checkpoint>> /\ Fault
        BY <2>3 DEF PutFails, SaveFails, EncoderFails, Ended
      <3>2. spent'.edits = spent.edits
        BY <3>1, FaultEdits DEF Books
      <3> QED
        BY <2>2, <3>1, <3>2, EndsOrigins
    <2>4. CASE \E why \in {"failed", "cancelled"} : StopDrawing(w, why)
      <3>1. PICK why \in {"failed", "cancelled"} : StopDrawing(w, why)
        BY <2>4
      <3>2. spent'.edits = spent.edits
        BY <3>1, FaultEdits DEF Books, StopDrawing
      <3> QED
        BY <2>2, <3>1, <3>2, SaveThenOrigins DEF StopDrawing
    <2>5. CASE AllDrawn(w)
      BY <2>2, <2>5, SaveThenOrigins DEF AllDrawn
    <2> QED
      BY <1>3, <2>2, <2>3, <2>4, <2>5, LoadOrigins, ReconcileOrigins, BeginPutOrigins, EndPutOrigins,
         SaveOrigins, EncodeOrigins, FinishOrigins, ClearOrigins DEF WorkerStep
  <1>4. ASSUME NEW new \in Film, Edit(new)
        PROVE  Origins'
    BY <1>4, EditOrigins DEF Undisturbed
  <1> QED
    BY <1>1, <1>2, <1>3, <1>4, CrashOrigins DEF Next

\* With one worker and at most one edit, nothing is disturbed: the theorems hold of the
\* specification as it stands.
LEMMA AloneIsUndisturbed ==
    ASSUME \A v, w \in Workers : v = w, MaxEdits <= 1
    PROVE  Spec => []Undisturbed
PROOF
  <1>1. Books => Undisturbed
    BY BoundsAssumption DEF Books, Spending, Undisturbed
  <1> QED
    BY <1>1, AlwaysBooks, PTL

LEMMA AlwaysOrigins == Spec /\ []Undisturbed => []Origins
PROOF
  <1>1. Books /\ Origins /\ Undisturbed /\ Undisturbed' /\ [Next]_vars => Origins'
    BY NextOrigins
  <1> QED
    BY <1>1, InitOrigins, AlwaysBooks, PTL DEF Spec

-----------------------------------------------------------------------------
\* What is drawn again.

\* A start is not turned down for this checkpoint: it is read, or passed over.
Readable(c, o) == c = Torn => o.by = "apiKeep"

\* How many completed frames may be missing from the checkpoint.
Unsaved(j) == IF j.pc \in {"drawing", "writing"} THEN j.drawn % CheckpointEvery
              ELSE IF j.pc = "saving" THEN CheckpointEvery ELSE 0

Done(j) == Cardinality(AllFramesIn(j.completed))

Safe(c) == Cardinality(ClaimedBy(c))

\* All that was drawn is the target's at most, but for what is allowed to be lost; while a
\* worker draws, what is not completed was lost, and what is not saved is little; between
\* executions, what is not in the checkpoint was lost.
Balance(j, c, o, drawn, allowed) ==
    /\ drawn <= Cardinality(FramesIn(TargetOf(o))) + allowed
    /\ j.pc \in Drawing => /\ Readable(c, o)
                           /\ drawn <= Done(j) + allowed
                           /\ Done(j) <= Safe(c) + Unsaved(j)
    /\ j.pc \notin Drawing /\ Readable(c, o) => drawn <= Safe(c) + allowed

Allowed(n) == CheckpointEvery * n

\* The inductive invariant of what is drawn, while frames are kept and nothing is edited.
Economy ==
    order.by # "api" /\ spent.edits = 0 =>
        LET allowed == Allowed(spent.crashes + spent.faults)
        IN /\ \A w \in Workers :
                 Active(w) => Balance(job[w], checkpoint, order, spent.drawn, allowed)
           /\ (\A w \in Workers : ~Active(w)) =>
                 /\ spent.drawn <= Cardinality(FramesIn(TargetOf(order))) + allowed
                 /\ Readable(checkpoint, order) => spent.drawn <= Safe(checkpoint) + allowed

LEMMA AllowedGrows ==
    ASSUME NEW n \in Nat
    PROVE  Allowed(n) \in Nat /\ Allowed(n + 1) = Allowed(n) + CheckpointEvery
PROOF
  <1>1. CheckpointEvery \in Nat /\ CheckpointEvery * 1 = CheckpointEvery
    BY CheckpointEveryAssumption
  <1>2. CheckpointEvery * (n + 1) = CheckpointEvery * n + CheckpointEvery * 1
        /\ CheckpointEvery * n \in Nat
    BY <1>1, Distribution, Product
  <1> QED
    BY <1>1, <1>2 DEF Allowed

\* One more: the remainder is one more, or nothing.
LEMMA RemainderGrows ==
    ASSUME NEW n \in Nat, NEW d \in Nat \ {0}
    PROVE  /\ n % d \in Nat /\ (n % d) + 1 <= d
           /\ (n + 1) % d = 0 \/ (n + 1) % d = (n % d) + 1
PROOF
  <1> DEFINE q == n \div d
             r == n % d
  <1>1. q \in Nat /\ r \in 0 .. d - 1 /\ n = d * q + r
    BY Division
  <1> HIDE DEF q, r
  <1>2. d * q \in Nat /\ d * (q + 1) = d * q + d
    <2>1. d * (q + 1) = d * q + d * 1 /\ d * 1 = d /\ d * q \in Nat
      BY <1>1, Distribution, Product
    <2> QED
      BY <2>1
  <1>3. CASE r + 1 = d
    <2>1. n + 1 = d * (q + 1) + 0
      BY <1>1, <1>2, <1>3
    <2>2. 0 \in 0 .. d - 1 /\ q + 1 \in Nat /\ n + 1 \in Nat
      BY <1>1
    <2>3. (n + 1) % d = 0
      BY <2>1, <2>2, Remainder
    <2> QED
      BY <1>1, <2>3 DEF r
  <1>4. CASE r + 1 # d
    <2>1. n + 1 = d * q + (r + 1) /\ r + 1 \in 0 .. d - 1 /\ n + 1 \in Nat
      BY <1>1, <1>2, <1>4
    <2>2. (n + 1) % d = r + 1
      BY <1>1, <2>1, Remainder
    <2> QED
      BY <1>1, <2>2 DEF r
  <1> QED
    BY <1>3, <1>4

LEMMA UnsavedIsLittle ==
    ASSUME NEW j, j.drawn \in Nat
    PROVE  Unsaved(j) \in Nat /\ Unsaved(j) <= CheckpointEvery
PROOF
  <1>1. CheckpointEvery \in Nat \ {0}
    BY CheckpointEveryAssumption
  <1>2. /\ j.drawn % CheckpointEvery \in Nat
        /\ (j.drawn % CheckpointEvery) + 1 <= CheckpointEvery
    BY <1>1, RemainderGrows
  <1> DEFINE r == j.drawn % CheckpointEvery
  <1>3. Unsaved(j) \in {r, CheckpointEvery, 0}
    BY DEF Unsaved
  <1>4. r \in Nat /\ r + 1 <= CheckpointEvery
    BY <1>2
  <1> HIDE DEF r
  <1> QED
    BY <1>1, <1>3, <1>4

\* The sizes that are compared are numbers.
LEMMA Numbers ==
    ASSUME Books, NEW w \in Workers
    PROVE  /\ Done(job[w]) \in Nat /\ Done(job[w]) <= Cardinality(FramesIn(TargetOf(order)))
           /\ Safe(checkpoint) \in Nat /\ Cardinality(FramesIn(TargetOf(order))) \in Nat
           /\ job[w].drawn \in Nat /\ spent.drawn \in Nat
           /\ spent.crashes + spent.faults \in Nat
           /\ Unsaved(job[w]) \in Nat /\ Unsaved(job[w]) <= CheckpointEvery
           /\ CheckpointEvery \in Nat \ {0}
PROOF
  <1>1. /\ order \in OrdersThatStart /\ job[w] \in Job /\ Orderly(job[w], order)
        /\ OrderlyRecord(checkpoint, order) /\ spent \in Spending
    BY DEF Books
  <1>2. ClaimedBy(checkpoint) \subseteq FramesIn(TargetOf(order))
    BY <1>1 DEF ClaimedBy, OrderlyRecord
  <1>3. job[w].drawn \in Nat /\ spent.drawn \in Nat /\ spent.crashes + spent.faults \in Nat
    BY <1>1, BoundsAssumption, NumFramesAssumption, JobType DEF Spending
  <1>4. CheckpointEvery \in Nat \ {0} /\ Unsaved(job[w]) \in Nat /\ Unsaved(job[w]) <= CheckpointEvery
    BY <1>3, UnsavedIsLittle, CheckpointEveryAssumption
  <1>5. Done(job[w]) \in Nat /\ Done(job[w]) <= Cardinality(FramesIn(TargetOf(order)))
    BY <1>1, PartOfTarget DEF Orderly, Done
  <1>6. Safe(checkpoint) \in Nat /\ Cardinality(FramesIn(TargetOf(order))) \in Nat
    BY <1>1, <1>2, PartOfTarget DEF Safe
  <1> QED
    BY <1>3, <1>4, <1>5, <1>6

LEMMA InitEconomy == Init => Economy
PROOF
  <1> SUFFICES ASSUME Init PROVE Economy
    OBVIOUS
  <1>1. /\ \A w \in Workers : ~Active(w)
        /\ spent.drawn = 0 /\ spent.crashes + spent.faults = 0 /\ order \in OrdersThatStart
        /\ checkpoint \notin Record
    BY NoFileAssumption DEF Init, Active, NewJob, Ended
  <1>2. Cardinality(FramesIn(TargetOf(order))) \in Nat
    BY <1>1, PartOfTarget
  <1>3. Safe(checkpoint) = 0 /\ Allowed(0) \in Nat
    BY <1>1, FS_EmptySet, AllowedGrows DEF Safe, ClaimedBy
  <1> QED
    BY <1>1, <1>2, <1>3 DEF Economy

\* A step of an active worker, that keeps the balance.
LEMMA OneBalances ==
    ASSUME NEW w \in Workers, Acting(w), NEW k, job' = [job EXCEPT ![w] = k], order' = order,
           k.pc \in Phase,
           order.by # "api" /\ spent'.edits = 0 =>
               Balance(k, checkpoint', order, spent'.drawn, Allowed(spent'.crashes + spent'.faults))
    PROVE  Economy'
PROOF
  <1>1. job \in [Workers -> Job]
    BY ActingHas
  <1>2. /\ job'[w] = k
        /\ \A v \in Workers : v # w => job'[v] = job[v] /\ job'[v].pc \in Ended
    BY <1>1 DEF Acting
  <1>3. \A x \in Ended : x \notin Drawing
    BY DEF Ended, Drawing
  <1> QED
    BY <1>2, <1>3 DEF Economy, Active, Balance

\* The balance as it is before the step of an active worker.
LEMMA Balanced ==
    ASSUME NEW w \in Workers, Acting(w), Economy, order.by # "api", spent.edits = 0
    PROVE  Balance(job[w], checkpoint, order, spent.drawn, Allowed(spent.crashes + spent.faults))
  BY DEF Acting, Economy

\* The worker goes on with the same ranges, and has no less unsaved.
LEMMA GoesOnBalanced ==
    ASSUME Books, Economy, NEW w \in Workers, Acting(w), NEW k, k.pc \in Phase,
           job' = [job EXCEPT ![w] = k], UNCHANGED <<order, checkpoint>>,
           k.completed = job[w].completed, k.drawn = job[w].drawn,
           job[w].pc \in Drawing, k.pc \in Drawing,
           Unsaved(job[w]) <= Unsaved(k), Unsaved(k) \in Nat,
           spent'.edits = spent.edits, spent'.drawn = spent.drawn,
           spent'.crashes + spent'.faults = spent.crashes + spent.faults
           \/ spent'.crashes + spent'.faults = spent.crashes + spent.faults + 1
    PROVE  Economy'
PROOF
  <1> SUFFICES ASSUME order.by # "api", spent'.edits = 0
               PROVE  Balance(k, checkpoint, order, spent.drawn, Allowed(spent'.crashes + spent'.faults))
    BY OneBalances
  <1> DEFINE n == spent.crashes + spent.faults
             n2 == spent'.crashes + spent'.faults
             j == job[w]
  <1>1. Balance(j, checkpoint, order, spent.drawn, Allowed(n))
    BY Balanced
  <1>2. /\ Done(j) \in Nat /\ Safe(checkpoint) \in Nat /\ spent.drawn \in Nat /\ n \in Nat
        /\ Unsaved(j) \in Nat /\ CheckpointEvery \in Nat
        /\ Cardinality(FramesIn(TargetOf(order))) \in Nat
    BY Numbers
  <1>3. Allowed(n) \in Nat /\ Allowed(n2) \in Nat /\ Allowed(n) <= Allowed(n2)
    <2>1. n2 = n \/ n2 = n + 1
      OBVIOUS
    <2>2. Allowed(n) \in Nat /\ Allowed(n + 1) = Allowed(n) + CheckpointEvery
      BY <1>2, AllowedGrows
    <2> HIDE DEF n, n2
    <2> QED
      BY <1>2, <2>1, <2>2
  <1>4. Done(k) = Done(j)
    BY DEF Done
  <1> HIDE DEF n, n2, j
  <1>5. Balance(k, checkpoint, order, spent.drawn, Allowed(n2))
    BY <1>1, <1>2, <1>3, <1>4 DEF Balance, j
  <1> QED
    BY <1>5 DEF n2

\* A fault or a crash costs what was unsaved.
LEMMA StopsBalanced ==
    ASSUME Books, Economy, NEW w \in Workers, Acting(w), NEW k, k.pc \notin Drawing,
           order.by # "api", spent.edits = 0,
           NEW c, c = checkpoint \/ ~Readable(c, order)
    PROVE  Balance(k, c, order, spent.drawn, Allowed(spent.crashes + spent.faults + 1))
PROOF
  <1> DEFINE n == spent.crashes + spent.faults
             j == job[w]
  <1>1. Balance(j, checkpoint, order, spent.drawn, Allowed(n))
    BY Balanced
  <1>2. /\ Done(j) \in Nat /\ Safe(checkpoint) \in Nat /\ spent.drawn \in Nat /\ n \in Nat
        /\ Unsaved(j) \in Nat /\ Unsaved(j) <= CheckpointEvery /\ CheckpointEvery \in Nat
        /\ Cardinality(FramesIn(TargetOf(order))) \in Nat
    BY Numbers
  <1>3. Allowed(n) \in Nat /\ Allowed(n + 1) = Allowed(n) + CheckpointEvery
    BY <1>2, AllowedGrows
  <1> HIDE DEF n, j
  <1>4. Balance(k, c, order, spent.drawn, Allowed(n + 1))
    BY <1>1, <1>2, <1>3 DEF Balance
  <1> QED
    BY <1>4 DEF n

\* The worker leaves, or has not begun to draw, and nothing else changes.
LEMMA QuietBalanced ==
    ASSUME Books, Economy, NEW w \in Workers, Acting(w), NEW k, k.pc \in Phase, k.pc \notin Drawing,
           job' = [job EXCEPT ![w] = k], UNCHANGED <<order, checkpoint, spent>>,
           job[w].pc \notin Drawing \/ Unsaved(job[w]) = 0
    PROVE  Economy'
PROOF
  <1> SUFFICES ASSUME order.by # "api", spent.edits = 0
               PROVE  Balance(k, checkpoint, order, spent.drawn, Allowed(spent.crashes + spent.faults))
    BY OneBalances
  <1> DEFINE n == spent.crashes + spent.faults
             j == job[w]
  <1>1. Balance(j, checkpoint, order, spent.drawn, Allowed(n))
    BY Balanced
  <1>2. /\ Done(j) \in Nat /\ Safe(checkpoint) \in Nat /\ spent.drawn \in Nat /\ Allowed(n) \in Nat
    BY Numbers, AllowedGrows
  <1> HIDE DEF n
  <1>3. Balance(k, checkpoint, order, spent.drawn, Allowed(n))
    BY <1>1, <1>2 DEF Balance
  <1> QED
    BY <1>3 DEF n

LEMMA FaultAdds ==
    ASSUME spent \in Spending, Fault
    PROVE  spent'.crashes + spent'.faults = spent.crashes + spent.faults + 1
  BY FaultEdits, BoundsAssumption DEF Spending

LEMMA FaultBalanced ==
    ASSUME Books, Economy, NEW w \in Workers, Acting(w), NEW pc \in Ended, Goto(w, pc), Fault,
           UNCHANGED <<order, checkpoint>>
    PROVE  Economy'
PROOF
  <1>1. PICK k : k = [job[w] EXCEPT !.pc = pc]
    OBVIOUS
  <1>2. job' = [job EXCEPT ![w] = k]
    BY <1>1 DEF Goto
  <1>3. k.pc = pc /\ k.pc \in Phase /\ k.pc \notin Drawing
    BY <1>1, ActingHas DEF Job, Phase, Ended, Drawing
  <1>4. /\ spent'.edits = spent.edits /\ spent'.drawn = spent.drawn
        /\ spent'.crashes + spent'.faults = spent.crashes + spent.faults + 1
    BY FaultEdits, FaultAdds DEF Books
  <1>5. order.by # "api" /\ spent'.edits = 0 =>
            Balance(k, checkpoint', order, spent'.drawn, Allowed(spent'.crashes + spent'.faults))
    BY <1>3, <1>4, StopsBalanced
  <1> QED
    BY <1>2, <1>3, <1>5, OneBalances

LEMMA StartEconomy ==
    ASSUME Books, Economy, NEW w \in Workers, Start(w),
           \A v \in Workers : job[v].pc \in Ended
    PROVE  Economy'
PROOF
  <1>1. /\ job' = [job EXCEPT ![w] = NewJob] /\ job \in [Workers -> Job]
        /\ UNCHANGED <<order, checkpoint>>
        /\ spent'.edits = spent.edits /\ spent'.drawn = spent.drawn
        /\ spent'.crashes = spent.crashes /\ spent'.faults = spent.faults
    BY DEF Books, Start, Spending
  <1>2. \A v \in Workers : /\ v # w => job'[v].pc \in Ended
                           /\ v = w => job'[v].pc = "loading"
    BY <1>1 DEF NewJob
  <1>3. "loading" \notin Drawing /\ "loading" \notin Ended
    BY DEF Drawing, Ended
  <1>4. \A v \in Workers : ~Active(v)
    BY DEF Active
  <1> QED
    BY <1>1, <1>2, <1>3, <1>4 DEF Economy, Balance, Active

LEMMA LoadEconomy ==
    ASSUME Books, Economy, NEW w \in Workers, Acting(w), LoadCheckpoint(w)
    PROVE  Economy'
PROOF
  <1> DEFINE j == job[w]
  <1>1. /\ j.pc = "loading" /\ UNCHANGED <<order, film, file, checkpoint, spent>>
        /\ j.completed = <<>> /\ j \in Job
        /\ Traceable(j, order, film, file, checkpoint, spent.edits)
        /\ InOrder(order, film, file, checkpoint, spent.edits)
        /\ checkpoint \in Record \cup {None, Torn} /\ j.pc \notin Drawing
        /\ order \in OrdersThatStart
    BY ActingHas DEF LoadCheckpoint, Orderly, OrderlyRecord, Drawing
  <1>2. ASSUME NEW pc \in {"failed"}, Goto(w, pc)
        PROVE  Economy'
    <2>1. PICK k : k = [j EXCEPT !.pc = pc]
      OBVIOUS
    <2>2. k.pc \in Phase /\ k.pc \notin Drawing /\ job' = [job EXCEPT ![w] = k]
      BY <1>1, <1>2, <2>1 DEF Goto, Job, Phase, Ended, Drawing
    <2> QED
      BY <1>1, <2>2, QuietBalanced
  <1>3. CASE /\ checkpoint # Torn /\ IsResumable(w)
             /\ job' = [job EXCEPT ![w].pc = "listing", ![w].completed = checkpoint.done]
    <2>1. PICK k : k = [j EXCEPT !.pc = "listing", !.completed = checkpoint.done]
      OBVIOUS
    <2>2. k.pc = "listing"
      BY <1>1, <2>1 DEF Job
    <2>3. job' = [job EXCEPT ![w] = k] /\ k.pc \in Phase /\ k.pc \notin Drawing
      BY <1>3, <2>1, <2>2 DEF Phase, Drawing
    <2> QED
      BY <1>1, <2>3, QuietBalanced
  <1>4. CASE /\ Goto(w, "drawing")
             /\ (checkpoint = Torn => Checked)
             /\ (checkpoint = Torn \/ ~IsResumable(w))
    <2> SUFFICES ASSUME order.by # "api", spent.edits = 0,
                        NEW k, k = [j EXCEPT !.pc = "drawing"]
                 PROVE  Balance(k, checkpoint, order, spent.drawn, Allowed(spent.crashes + spent.faults))
      <3>1. PICK k : k = [j EXCEPT !.pc = "drawing"]
        OBVIOUS
      <3>2. job' = [job EXCEPT ![w] = k] /\ k.pc \in Phase
        BY <1>1, <1>4, <3>1 DEF Goto, Job, Phase
      <3> QED
        BY <1>1, <3>1, <3>2, OneBalances
    <2>1. Balance(j, checkpoint, order, spent.drawn, Allowed(spent.crashes + spent.faults))
      BY Balanced
    <2>2. checkpoint \notin Record
      <3>1. j.film = film /\ (checkpoint \in Record => checkpoint.ir = film.ir)
        BY <1>1 DEF Traceable, InOrder
      <3> QED
        BY <1>4, <3>1, NoFileAssumption DEF IsResumable
    <2>3. Safe(checkpoint) = 0
      BY <2>2, FS_EmptySet DEF Safe, ClaimedBy
    <2>4. k.pc = "drawing" /\ k.completed = <<>> /\ k.drawn = j.drawn
      BY <1>1 DEF Job
    <2>5. Done(k) = 0
      BY <2>4, NoFrames, FS_EmptySet DEF Done
    <2>6. Readable(checkpoint, order)
      BY <1>4 DEF Readable, Checked
    <2>7. Unsaved(k) \in Nat
      <3>1. j.drawn \in Nat
        BY Numbers
      <3> QED
        BY <2>4, <3>1, CheckpointEveryAssumption, RemainderGrows DEF Unsaved
    <2> QED
      BY <1>1, <2>1, <2>3, <2>4, <2>5, <2>6, <2>7 DEF Balance
  <1>5. \/ Goto(w, "failed")
        \/ /\ Goto(w, "drawing")
           /\ (checkpoint = Torn => Checked)
           /\ (checkpoint = Torn \/ ~IsResumable(w))
        \/ /\ checkpoint # Torn /\ IsResumable(w)
           /\ job' = [job EXCEPT ![w].pc = "listing", ![w].completed = checkpoint.done]
    BY DEF LoadCheckpoint
  <1> QED
    BY <1>2, <1>3, <1>4, <1>5

LEMMA ReconcileEconomy ==
    ASSUME Books, Economy, NEW w \in Workers, Acting(w), Reconcile(w)
    PROVE  Economy'
PROOF
  <1> DEFINE j == job[w]
             part == Listed \cap AllFramesIn(j.completed)
             done == Normalise({FrameRange(f, f + 1) : f \in part})
  <1>1. /\ j.pc = "listing" /\ UNCHANGED <<order, film, file, checkpoint, spent>> /\ j \in Job
        /\ Traceable(j, order, film, file, checkpoint, spent.edits)
        /\ InOrder(order, film, file, checkpoint, spent.edits)
        /\ order \in OrdersThatStart /\ j.pc \notin Drawing
    BY ActingHas DEF Reconcile, Drawing
  <1>2. checkpoint \in Record /\ AllFramesIn(j.completed) = ClaimedBy(checkpoint)
    BY <1>1 DEF Traceable, Ended, Claims, ClaimedBy
  <1>3. order.by # "api" => part = ClaimedBy(checkpoint)
    BY <1>1, <1>2, ListedIsSeen DEF InOrder
  <1>4. AllFramesIn(done) = part
    <2>1. AllFramesIn(j.completed) \subseteq FramesIn(TargetOf(order))
      BY ActingHas DEF Orderly
    <2>2. part \subseteq FramesIn(TargetOf(order))
      BY <2>1
    <2>3. Frames \subseteq Nat
      BY NumFramesAssumption DEF Frames
    <2> HIDE DEF part
    <2>4. part \subseteq Nat /\ IsFiniteSet(part)
      BY <1>1, <2>2, <2>3, PartOfTarget
    <2> QED
      BY <2>4, FramesAsRanges
  <1>5. PICK k : k = [j EXCEPT !.pc = "drawing", !.completed = done]
    OBVIOUS
  <1>6. job' = [job EXCEPT ![w] = k]
    BY <1>5 DEF Reconcile
  <1> HIDE DEF done, part
  <1>7. k.pc = "drawing" /\ k.completed = done /\ k.drawn = j.drawn /\ k.pc \in Phase
    BY <1>1, <1>5 DEF Job, Phase
  <1> SUFFICES ASSUME order.by # "api", spent.edits = 0
               PROVE  Balance(k, checkpoint, order, spent.drawn, Allowed(spent.crashes + spent.faults))
    BY <1>1, <1>6, <1>7, OneBalances
  <1>8. Balance(j, checkpoint, order, spent.drawn, Allowed(spent.crashes + spent.faults))
    BY Balanced
  <1>9. Done(k) = Safe(checkpoint) /\ Safe(checkpoint) \in Nat /\ Unsaved(k) \in Nat
    BY <1>3, <1>4, <1>7, Numbers, UnsavedIsLittle DEF Done, Safe
  <1>10. Readable(checkpoint, order)
    BY <1>2, NoFileAssumption DEF Readable
  <1> HIDE DEF j
  <1> QED
    BY <1>1, <1>7, <1>8, <1>9, <1>10 DEF Balance

\* From drawing to saving: all that is done counts as unsaved.
LEMMA SaveThenEconomy ==
    ASSUME Books, Economy, NEW w \in Workers, Acting(w), job[w].pc = "drawing",
           NEW next, SaveThen(w, next), UNCHANGED <<order, film, file, checkpoint>>,
           Fault \/ UNCHANGED spent
    PROVE  Economy'
PROOF
  <1>1. PICK k : k = [job[w] EXCEPT !.pc = "saving", !.next = next]
    OBVIOUS
  <1>2. job' = [job EXCEPT ![w] = k]
    BY <1>1 DEF SaveThen
  <1>3. /\ k.pc = "saving" /\ k.completed = job[w].completed /\ k.drawn = job[w].drawn
        /\ k.pc \in Phase /\ k.pc \in Drawing /\ job[w].pc \in Drawing
    BY <1>1, ActingHas DEF Job, Phase, Drawing
  <1>4. Unsaved(k) \in Nat /\ Unsaved(job[w]) <= Unsaved(k)
    BY <1>3, Numbers DEF Unsaved
  <1>5. /\ spent'.edits = spent.edits /\ spent'.drawn = spent.drawn
        /\ \/ spent'.crashes + spent'.faults = spent.crashes + spent.faults
           \/ spent'.crashes + spent'.faults = spent.crashes + spent.faults + 1
    BY FaultEdits, FaultAdds DEF Books
  <1> QED
    BY <1>2, <1>3, <1>4, <1>5, GoesOnBalanced

LEMMA BeginPutEconomy ==
    ASSUME Books, Economy, NEW w \in Workers, Acting(w), BeginPut(w)
    PROVE  Economy'
PROOF
  <1>1. PICK k : k = [job[w] EXCEPT !.pc = "writing"]
    OBVIOUS
  <1>2. job' = [job EXCEPT ![w] = k] /\ job[w].pc = "drawing" /\ UNCHANGED <<order, checkpoint, spent>>
    BY <1>1 DEF BeginPut, Goto
  <1>3. /\ k.pc = "writing" /\ k.completed = job[w].completed /\ k.drawn = job[w].drawn
        /\ k.pc \in Phase /\ k.pc \in Drawing /\ job[w].pc \in Drawing
    BY <1>1, <1>2, ActingHas DEF Job, Phase, Drawing
  <1>4. Unsaved(k) = Unsaved(job[w]) /\ Unsaved(k) \in Nat /\ Unsaved(job[w]) <= Unsaved(k)
    BY <1>2, <1>3, Numbers DEF Unsaved
  <1> QED
    BY <1>2, <1>3, <1>4, GoesOnBalanced

LEMMA EndPutEconomy ==
    ASSUME Books, Economy, NEW w \in Workers, Acting(w), EndPut(w)
    PROVE  Economy'
PROOF
  <1> DEFINE j == job[w]
             f == NextFrame(w)
             done == WithFrame(j.completed, f)
             pc == IF (j.drawn + 1) % CheckpointEvery = 0 THEN "saving" ELSE "drawing"
             n == spent.crashes + spent.faults
             whole == Cardinality(FramesIn(TargetOf(order)))
  <1>1. /\ j \in Job /\ Orderly(j, order) /\ j.pc = "writing" /\ order \in OrdersThatStart
        /\ j.completed \in Seq(Stretch) /\ UNCHANGED <<order, checkpoint>> /\ j.pc \in Drawing
    BY ActingHas DEF EndPut, Drawing
  <1>2. /\ spent'.edits = spent.edits /\ spent'.drawn = spent.drawn + 1
        /\ spent'.crashes + spent'.faults = n
    BY DEF EndPut, Books, Spending
  <1>3. f \in FramesIn(TargetOf(order)) \ AllFramesIn(j.completed) /\ f \in Nat
    <2>1. Pending(w) # <<>>
      BY <1>1 DEF Orderly, Pending, Target
    <2> QED
      BY <2>1, NextIsOwed DEF Completed
  <1>4. AllFramesIn(done) = AllFramesIn(j.completed) \cup {f}
    <2> HIDE DEF f, j
    <2> QED
      BY <1>1, <1>3, OneFrameMore
  <1>5. PICK k : k = [j EXCEPT !.pc = pc, !.next = "drawing", !.completed = done, !.drawn = j.drawn + 1]
    OBVIOUS
  <1>6. job' = [job EXCEPT ![w] = k]
    BY <1>5 DEF EndPut
  <1> HIDE DEF done, f
  <1>7. k.pc = pc /\ k.completed = done /\ k.drawn = j.drawn + 1 /\ k.pc \in Phase /\ k.pc \in Drawing
    BY <1>1, <1>5 DEF Job, Phase, Drawing
  <1>8. Done(k) = Done(j) + 1 /\ Done(k) <= whole
    <2>1. AllFramesIn(j.completed) \subseteq FramesIn(TargetOf(order))
      BY <1>1 DEF Orderly
    <2>2. AllFramesIn(done) \subseteq FramesIn(TargetOf(order))
      BY <1>3, <1>4, <2>1
    <2>3. IsFiniteSet(AllFramesIn(j.completed)) /\ Cardinality(AllFramesIn(done)) <= whole
      BY <1>1, <2>1, <2>2, PartOfTarget
    <2> QED
      BY <1>3, <1>4, <1>7, <2>3, FS_AddElement DEF Done
  <1>9. /\ Done(j) \in Nat /\ Safe(checkpoint) \in Nat /\ spent.drawn \in Nat /\ n \in Nat
        /\ whole \in Nat /\ j.drawn \in Nat /\ Unsaved(j) \in Nat
        /\ CheckpointEvery \in Nat \ {0} /\ Allowed(n) \in Nat
    BY Numbers, AllowedGrows
  <1>10. Unsaved(k) \in Nat /\ Unsaved(j) + 1 <= Unsaved(k)
    <2>1. /\ j.drawn % CheckpointEvery \in Nat
          /\ (j.drawn % CheckpointEvery) + 1 <= CheckpointEvery
          /\ \/ (j.drawn + 1) % CheckpointEvery = 0
             \/ (j.drawn + 1) % CheckpointEvery = (j.drawn % CheckpointEvery) + 1
      BY <1>9, RemainderGrows
    <2>2. Unsaved(j) = j.drawn % CheckpointEvery
      BY <1>1 DEF Unsaved
    <2>3. CASE (j.drawn + 1) % CheckpointEvery = 0
      <3>1. Unsaved(k) = CheckpointEvery
        BY <1>7, <2>3 DEF Unsaved
      <3> QED
        BY <1>9, <2>1, <2>2, <3>1
    <2>4. CASE (j.drawn + 1) % CheckpointEvery # 0
      <3>1. Unsaved(k) = (j.drawn + 1) % CheckpointEvery
        BY <1>7, <2>4 DEF Unsaved
      <3> QED
        BY <1>9, <2>1, <2>2, <2>4, <3>1
    <2> QED
      BY <2>3, <2>4
  <1> SUFFICES ASSUME order.by # "api", spent'.edits = 0
               PROVE  Balance(k, checkpoint, order, spent.drawn + 1, Allowed(n))
    BY <1>1, <1>2, <1>6, <1>7, OneBalances
  <1>11. Balance(j, checkpoint, order, spent.drawn, Allowed(n))
    BY <1>2, Balanced
  <1> HIDE DEF j, n, pc, whole
  <1>12. /\ Readable(checkpoint, order) /\ spent.drawn <= Done(j) + Allowed(n)
         /\ Done(j) <= Safe(checkpoint) + Unsaved(j)
    BY <1>1, <1>11 DEF Balance
  <1>13. spent.drawn + 1 <= Done(k) + Allowed(n) /\ Done(k) <= Safe(checkpoint) + Unsaved(k)
    BY <1>8, <1>9, <1>10, <1>12
  <1>14. spent.drawn + 1 <= whole + Allowed(n)
    BY <1>8, <1>9, <1>13
  <1> QED
    BY <1>7, <1>12, <1>13, <1>14 DEF Balance, whole

LEMMA SaveEconomy ==
    ASSUME Books, Economy, NEW w \in Workers, Acting(w), Save(w)
    PROVE  Economy'
PROOF
  <1> DEFINE j == job[w]
             c == [ir |-> j.film.ir, done |-> j.completed]
             n == spent.crashes + spent.faults
  <1>1. /\ j \in Job /\ j.pc = "saving" /\ c = checkpoint' /\ UNCHANGED <<order, spent>>
        /\ j.pc \in Drawing /\ j.next \in Phase /\ j.film \in Film /\ j.completed \in Seq(Stretch)
    BY ActingHas, JobType DEF Save, Drawing, Phase, Ended
  <1>2. c \in Record /\ c.done = j.completed
    BY <1>1 DEF Record, Film, Stretch
  <1>3. PICK k : k = [j EXCEPT !.pc = j.next]
    OBVIOUS
  <1>4. job' = [job EXCEPT ![w] = k]
    BY <1>3 DEF Save, Goto
  <1>5. k.pc \in Phase /\ k.completed = j.completed /\ k.drawn = j.drawn
    BY <1>1, <1>3 DEF Job
  <1> HIDE DEF c
  <1>6. Safe(c) = Done(j) /\ Done(k) = Done(j) /\ Readable(c, order)
    BY <1>2, <1>5, NoFileAssumption DEF Safe, ClaimedBy, Done, Readable
  <1>7. Done(j) \in Nat /\ Unsaved(k) \in Nat
    BY <1>5, Numbers, UnsavedIsLittle
  <1> SUFFICES ASSUME order.by # "api", spent.edits = 0
               PROVE  Balance(k, c, order, spent.drawn, Allowed(n))
    BY <1>1, <1>4, <1>5, OneBalances
  <1>8. Balance(j, checkpoint, order, spent.drawn, Allowed(n))
    BY Balanced
  <1> HIDE DEF j, n
  <1> QED
    BY <1>1, <1>6, <1>7, <1>8 DEF Balance

LEMMA EncodeEconomy ==
    ASSUME Books, Economy, NEW w \in Workers, Acting(w), EncodeFrame(w)
    PROVE  Economy'
PROOF
  <1> DEFINE j == job[w]
             f == file[Position(w)]
  <1>1. /\ j \in Job /\ j.pc = "encoding" /\ UNCHANGED <<order, checkpoint, spent>>
        /\ j.pc \in Drawing /\ Unsaved(j) = 0 /\ j.pc \in Phase
    BY ActingHas DEF EncodeFrame, Drawing, Unsaved, Phase
  <1>2. CASE Goto(w, "failed")
    <2>1. PICK k : k = [j EXCEPT !.pc = "failed"]
      OBVIOUS
    <2>2. job' = [job EXCEPT ![w] = k]
      BY <1>2, <2>1 DEF Goto
    <2>3. k.pc \in Phase /\ k.pc \notin Drawing
      BY <1>1, <2>1 DEF Job, Phase, Ended, Drawing
    <2> QED
      BY <1>1, <2>2, <2>3, QuietBalanced
  <1>3. CASE job' = [job EXCEPT ![w].encoded = Append(@, f)]
    <2>1. PICK k : k = [j EXCEPT !.encoded = Append(j.encoded, f)]
      OBVIOUS
    <2>2. job' = [job EXCEPT ![w] = k]
      BY <1>3, <2>1
    <2>3. k.pc = j.pc /\ k.completed = j.completed /\ k.drawn = j.drawn
      BY <1>1, <2>1 DEF Job
    <2>4. Unsaved(k) = 0 /\ Unsaved(j) <= Unsaved(k) /\ Unsaved(k) \in Nat
      BY <1>1, <2>3 DEF Unsaved
    <2> QED
      BY <1>1, <2>2, <2>3, <2>4, GoesOnBalanced
  <1> QED
    BY <1>2, <1>3 DEF EncodeFrame

LEMMA FinishEconomy ==
    ASSUME Books, Economy, NEW w \in Workers, Acting(w), FinishEncoding(w)
    PROVE  Economy'
PROOF
  <1>1. /\ job[w] \in Job /\ UNCHANGED <<order, checkpoint, spent>> /\ Unsaved(job[w]) = 0
        /\ \E pc \in {"done", "clearing"} : Goto(w, pc)
    BY ActingHas DEF FinishEncoding, Unsaved
  <1>2. PICK pc \in {"done", "clearing"} : Goto(w, pc)
    BY <1>1
  <1>3. PICK k : k = [job[w] EXCEPT !.pc = pc]
    OBVIOUS
  <1>4. job' = [job EXCEPT ![w] = k]
    BY <1>2, <1>3 DEF Goto
  <1>5. k.pc \in Phase /\ k.pc \notin Drawing
    BY <1>1, <1>2, <1>3 DEF Job, Phase, Ended, Drawing
  <1> QED
    BY <1>1, <1>4, <1>5, QuietBalanced

\* Only a render whose frames are not kept clears them.
LEMMA ClearEconomy ==
    ASSUME NEW w \in Workers, Acting(w), ClearFrames(w)
    PROVE  Economy'
PROOF
  <1>1. order.by = "api" /\ order' = order
    BY ActingHas DEF ClearFrames, Orderly
  <1> QED
    BY <1>1 DEF Economy

\* A half-written checkpoint is one the engine's store cannot read.
LEMMA CrashEconomy ==
    ASSUME Books, Economy, NEW w \in Workers, Acting(w), Crash
    PROVE  Economy'
PROOF
  <1> DEFINE n == spent.crashes + spent.faults
  <1>1. /\ spent'.edits = spent.edits /\ spent'.drawn = spent.drawn /\ order' = order
        /\ spent'.crashes + spent'.faults = n + 1
    BY BoundsAssumption DEF Crash, Books, Spending
  <1>2. \A v \in Workers : job'[v].pc \in Ended
    <2> SUFFICES ASSUME NEW v \in Workers PROVE job'[v].pc \in Ended
      OBVIOUS
    <2>1. job[v] \in Job
      BY DEF Books
    <2> QED
      BY <2>1 DEF Crash, Active, Job, Ended
  <1>3. checkpoint' = checkpoint \/ ~Readable(checkpoint', order)
    BY DEF Crash, Readable, Checked
  <1>4. \A v \in Workers : ~Active(v)'
    BY <1>2 DEF Active
  <1> SUFFICES ASSUME order.by # "api", spent.edits = 0
               PROVE  /\ spent.drawn <= Cardinality(FramesIn(TargetOf(order))) + Allowed(n + 1)
                      /\ Readable(checkpoint', order) => spent.drawn <= Safe(checkpoint') + Allowed(n + 1)
    BY <1>1, <1>2 DEF Economy, Active
  <1>5. PICK k : k = NewJob
    OBVIOUS
  <1>6. k.pc \notin Drawing
    BY <1>5 DEF NewJob, Drawing
  <1>7. Balance(k, checkpoint', order, spent.drawn, Allowed(n + 1))
    BY <1>3, <1>6, StopsBalanced
  <1> QED
    BY <1>6, <1>7 DEF Balance

LEMMA NextEconomy ==
    Books /\ Origins /\ Economy /\ Undisturbed /\ Undisturbed' /\ [Next]_vars => Economy'
PROOF
  <1> SUFFICES ASSUME Books, Origins, Economy, Undisturbed, Undisturbed', [Next]_vars
               PROVE  Economy'
    OBVIOUS
  <1>1. CASE UNCHANGED vars
    BY <1>1 DEF vars, Economy, Active
  <1>2. ASSUME NEW w \in Workers, Start(w)
        PROVE  Economy'
    <2>1. \A v \in Workers : job[v].pc \in Ended
      <3>1. job' = [job EXCEPT ![w] = NewJob] /\ job \in [Workers -> Job] /\ job[w].pc \in Ended
        BY <1>2 DEF Start, Books, Active
      <3>2. job'[w].pc \notin Ended
        BY <3>1 DEF NewJob, Ended
      <3> QED
        BY <3>1, <3>2 DEF Undisturbed, Active
    <2> QED
      BY <1>2, <2>1, StartEconomy
  <1>3. ASSUME NEW w \in Workers, WorkerStep(w)
        PROVE  Economy'
    <2>1. Active(w)
      BY <1>3 DEF WorkerStep, LoadCheckpoint, Reconcile, StopDrawing, BeginPut, EndPut, PutFails,
                  AllDrawn, Save, SaveFails, EncodeFrame, FinishEncoding, EncoderFails, ClearFrames,
                  Active, Ended
    <2>2. Acting(w)
      BY <2>1 DEF Acting, Undisturbed, Active
    <2>3. CASE PutFails(w) \/ SaveFails(w) \/ EncoderFails(w)
      <3>1. /\ \E pc \in Ended : Goto(w, pc)
            /\ UNCHANGED <<order, checkpoint>> /\ Fault
        BY <2>3 DEF PutFails, SaveFails, EncoderFails, Ended
      <3> QED
        BY <2>2, <3>1, FaultBalanced
    <2>4. CASE (\E why \in {"failed", "cancelled"} : StopDrawing(w, why)) \/ AllDrawn(w)
      BY <2>2, <2>4, SaveThenEconomy DEF StopDrawing, AllDrawn
    <2> QED
      BY <1>3, <2>2, <2>3, <2>4, LoadEconomy, ReconcileEconomy, BeginPutEconomy, EndPutEconomy,
         SaveEconomy, EncodeEconomy, FinishEconomy, ClearEconomy DEF WorkerStep
  <1>4. CASE Crash
    <2>1. PICK w \in Workers : Active(w)
      BY <1>4 DEF Crash
    <2>2. Acting(w)
      BY <2>1 DEF Acting, Undisturbed, Active
    <2> QED
      BY <1>4, <2>2, CrashEconomy
  <1>5. ASSUME NEW new \in Film, Edit(new)
        PROVE  Economy'
    <2>1. spent'.edits # 0
      BY <1>5, BoundsAssumption DEF Edit, Books, Spending
    <2> QED
      BY <2>1 DEF Economy
  <1> QED
    BY <1>1, <1>2, <1>3, <1>4, <1>5 DEF Next

LEMMA AlwaysEconomy == Spec /\ []Undisturbed => []Economy
PROOF
  <1>1. Books /\ Origins /\ Economy /\ Undisturbed /\ Undisturbed' /\ [Next]_vars => Economy'
    BY NextEconomy
  <1> QED
    BY <1>1, InitEconomy, AlwaysBooks, AlwaysOrigins, PTL DEF Spec

-----------------------------------------------------------------------------
\* The theorems.

\* However long the slice and however many the shards: every frame is one shard's, and
\* their sizes differ by one at most.  (What is rendered for whom never changes.)
THEOREM ShardsShareOut == Spec => []ShardsPartition
PROOF
  <1>1. Init => order \in OrdersThatStart
    BY DEF Init
  <1>2. order \in OrdersThatStart /\ [Next]_vars => (order \in OrdersThatStart)'
    <2> SUFFICES ASSUME [Next]_vars PROVE order' = order
      BY DEF OrdersThatStart, Slices, TargetOf, Shards, Unsharded, Frames
    <2> QED
      BY DEF Next, vars, Start, WorkerStep, LoadCheckpoint, Reconcile, StopDrawing, BeginPut,
             EndPut, PutFails, AllDrawn, Save, SaveFails, EncodeFrame, FinishEncoding,
             EncoderFails, ClearFrames, Crash, Edit
  <1>3. order \in OrdersThatStart => ShardsPartition
    BY Partition DEF ShardsPartition, Share
  <1> QED
    BY <1>1, <1>2, <1>3, PTL DEF Spec

\* The variables have their types, a worker that writes has a frame to write, and what is
\* completed is said in the fewest ranges (normaliseRanges, withFrame): with any number of
\* workers in the directory, however they crash, fail and edit.
THEOREM RenderTypes == Spec => []TypeOK
  BY AlwaysBooks, BooksImply, PTL

\* No worker encodes before it has all frames of its target, whatever was completed before
\* and whoever else is at work (subtractRanges, withFrame, rangesContain).
THEOREM NothingIsEncodedTooEarly == Spec => []EncodingHasAllFrames
  BY AlwaysBooks, BooksImply, PTL

\* What a worker takes for drawn stays on disk, whole, until it is encoded: a resume trusts
\* no torn and no cleared frame (#reconcile, VerifiedFileFrameStore).
THEOREM FramesAreKept == Spec /\ []Undisturbed => []CompletedFramesAreKept
PROOF
  <1>1. Books /\ Origins => CompletedFramesAreKept
    <2> SUFFICES ASSUME Books, Origins PROVE CompletedFramesAreKept
      OBVIOUS
    <2>1. TypeOK
      BY BooksImply
    <2>2. ASSUME NEW w \in Workers, job[w].pc \in {"drawing", "writing", "saving", "encoding"},
                 NEW f \in Completed(w)
          PROVE  Whole(f)
      BY <2>2 DEF Origins, Traceable, Drawing, Ended, AreFrom, Completed, Whole
    <2> QED
      BY <2>1, <2>2 DEF CompletedFramesAreKept
  <1> QED
    BY <1>1, AlwaysBooks, AlwaysOrigins, PTL

\* Every frame a worker encodes was drawn from the IR it was given: a checkpoint of another
\* IR is not resumed from (isResumable), and the frames it left are not counted.
THEOREM NoFilmIsSpliced == Spec /\ []Undisturbed => []NoSplice
PROOF
  <1>1. Origins => NoSplice
    BY DEF Origins, Traceable, NoSplice
  <1> QED
    BY <1>1, AlwaysOrigins, PTL

\* Over any number of kills, failures and resumes, what is drawn beyond the target is at
\* most the frames of one checkpoint interval for each of them (#save, #reconcile).
THEOREM LittleIsDrawnAgain == Spec /\ []Undisturbed => []LittleIsRedrawn
PROOF
  <1>1. Economy => LittleIsRedrawn
    <2> SUFFICES ASSUME Economy, order.by # "api", spent.edits = 0
                 PROVE  spent.drawn <= Cardinality(FramesIn(Target))
                            + CheckpointEvery * (spent.crashes + spent.faults)
      BY DEF LittleIsRedrawn, KeepFrames
    <2>1. CASE \E w \in Workers : Active(w)
      BY <2>1 DEF Economy, Balance, Allowed, Target
    <2>2. CASE \A w \in Workers : ~Active(w)
      BY <2>2 DEF Economy, Allowed, Target
    <2> QED
      BY <2>1, <2>2
  <1> QED
    BY <1>1, AlwaysEconomy, PTL

=============================================================================
