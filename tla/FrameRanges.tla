----------------------------- MODULE FrameRanges -----------------------------
(***************************************************************************)
(* Frame ranges, half-open, and what the render job computes with them     *)
(* (render-engine/src/job/checkpoint.ts, shard.ts): a list of ranges is    *)
(* normalised by sorting and merging, what is owed is a subtraction, and a *)
(* shard is a slice.                                                       *)
(*                                                                         *)
(* Definitions named Broken... are not the code, see PipelineRunner.       *)
(***************************************************************************)
EXTENDS Integers, Sequences, SequencesExt

FrameRange(from, to) == [from |-> from, to |-> to]

FramesIn(range) == range.from .. range.to - 1

AllFramesIn(ranges) == UNION {FramesIn(ranges[i]) : i \in DOMAIN ranges}

Least(a, b) == IF a < b THEN a ELSE b

Greatest(a, b) == IF a > b THEN a ELSE b

\* Not the code: ranges that touch are kept apart.
BrokenMerge(merged, range) ==
    IF merged # <<>> /\ range.from < Last(merged).to
    THEN Append(Front(merged), FrameRange(Last(merged).from, Greatest(Last(merged).to, range.to)))
    ELSE Append(merged, range)

\* One range more; touching counts as overlapping.
Merge(merged, range) ==
    IF merged # <<>> /\ range.from <= Last(merged).to
    THEN Append(Front(merged), FrameRange(Last(merged).from, Greatest(Last(merged).to, range.to)))
    ELSE Append(merged, range)

\* How normaliseRanges sorts.
MayPrecede(r, s) == r.from < s.from \/ (r.from = s.from /\ r.to <= s.to)

Sorted(ranges) ==
    CHOOSE list \in SetToSeqs(ranges) :
        \A i, j \in DOMAIN list : i < j => MayPrecede(list[i], list[j])

\* normaliseRanges.  The order of its argument makes no difference, and neither does a
\* range that is there twice: a set.
Normalise(ranges) == FoldLeft(Merge, <<>>, Sorted({r \in ranges : r.to > r.from}))

\* Not the code: ranges are taken to be closed.
BrokenPast(cursor, range) == Greatest(cursor, range.to + 1)

\* The cursor, moved over a range that is done.
Past(cursor, range) == Greatest(cursor, range.to)

\* One range that is done: what is left of the target before it.
Leave(acc, target, r) ==
    IF r.to <= acc.cursor \/ r.from >= target.to THEN acc
    ELSE [left   |-> IF r.from > acc.cursor
                     THEN Append(acc.left, FrameRange(acc.cursor, Least(r.from, target.to)))
                     ELSE acc.left,
          cursor |-> Past(acc.cursor, r)]

\* subtractRanges: a cursor goes over the target and leaves out what is done.
Subtract(target, done) ==
    LET end == FoldLeft(LAMBDA acc, r : Leave(acc, target, r),
                        [left |-> <<>>, cursor |-> target.from], Normalise(ToSet(done)))
    IN IF end.cursor < target.to THEN Append(end.left, FrameRange(end.cursor, target.to))
       ELSE end.left

\* withFrame
WithFrame(ranges, frame) == Normalise(ToSet(ranges) \cup {FrameRange(frame, frame + 1)})

\* Not the code: the remainder moves no later shard along.
BrokenShardRange(total, index, count) ==
    LET base      == (total.to - total.from) \div count
        remainder == (total.to - total.from) % count
        from      == total.from + base * index
    IN FrameRange(from, from + base + IF index < remainder THEN 1 ELSE 0)

\* shardRange: the remainder goes to the earliest shards.  An empty one is an error there.
ShardRange(total, index, count) ==
    LET base      == (total.to - total.from) \div count
        remainder == (total.to - total.from) % count
        from      == total.from + base * index + Least(index, remainder)
    IN FrameRange(from, from + base + IF index < remainder THEN 1 ELSE 0)

=============================================================================
