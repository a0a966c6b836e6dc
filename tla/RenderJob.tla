------------------------------ MODULE RenderJob ------------------------------
(***************************************************************************)
(* One render: draw every frame into a store, record in a checkpoint which *)
(* are done, encode the frames in order (render-engine/src/job), killed    *)
(* and resumed any number of times, over the stores of the API or of the   *)
(* command line.                                                           *)
(*                                                                         *)
(* A worker is one execution of RunRenderJobUseCase at a time.  Workers    *)
(* share the frame store and the checkpoint: in the API two runs of equal  *)
(* payload have the same render key and so the same directory.  Frames and *)
(* checkpoint are files and survive a crash; a worker does not.            *)
(*                                                                         *)
(* A frame on disk is the film it was drawn from; the engine is            *)
(* deterministic, so that tells its bytes.                                 *)
(*                                                                         *)
(* Definitions named Broken... are not the code, see PipelineRunner.       *)
(***************************************************************************)
EXTENDS FrameRanges, FiniteSets

CONSTANTS
    Workers,
    NumFrames,        \* frames of the timeline: 0 .. NumFrames - 1
    Irs,              \* animation IRs; the hash is injective on them
    Sizes,            \* output sizes
    CheckpointEvery,  \* frames between checkpoint writes
    Orders,           \* who asks: "api", "apiKeep", "cli", "shard"
    ShardCounts,      \* how many shards a range may be split into
    None, Torn,       \* no file; half a file
    MaxStarts,        \* bound: executions begun
    MaxCrashes,       \* bound: crashes
    MaxEdits,         \* bound: changes of what is to be rendered
    MaxFaults         \* bound: operations that fail or are cancelled

ASSUME NumFramesAssumption == NumFrames \in Nat \ {0}
ASSUME CheckpointEveryAssumption == CheckpointEvery \in Nat \ {0}
ASSUME OrdersAssumption == Orders \subseteq {"api", "apiKeep", "cli", "shard"}
ASSUME ShardCountsAssumption == ShardCounts \subseteq Nat \ {0}
ASSUME BoundsAssumption == {MaxStarts, MaxCrashes, MaxEdits, MaxFaults} \subseteq Nat

VARIABLES
    order,       \* what is rendered for whom
    film,        \* what a worker that starts now is asked to render
    file,        \* the frame files
    checkpoint,  \* the checkpoint file
    job,         \* what each worker is doing
    spent        \* how much of each bound has been used, and frames drawn so far

vars == <<order, film, file, checkpoint, job, spent>>

Frames == 0 .. NumFrames - 1

Film == [ir : Irs, size : Sizes]

\* A list of ranges as it is kept: sorted, apart, none of them empty.
IsCanonical(ranges) ==
    /\ \A i \in DOMAIN ranges : ranges[i].from < ranges[i].to
    /\ \A i \in DOMAIN ranges : i > 1 => ranges[i - 1].to < ranges[i].from

-----------------------------------------------------------------------------
\* An order: the stores (the API's look at what they find, the engine's own do not),
\* whether frames are kept, whether there is a master, the slice of the timeline asked
\* for, and which shard of it.  The command line asks for everything, in one piece; a
\* shard delivers its frames and no master.

Timeline == FrameRange(0, NumFrames)

Slices == {FrameRange(f, t) : f \in Frames, t \in 1 .. NumFrames}

Checked == order.by \in {"api", "apiKeep"}

KeepFrames == order.by # "api"

HasMaster == order.by # "shard"

\* clampToTimeline and shardRange.
TargetOf(o) == ShardRange(o.slice, o.shard.index, o.shard.count)

Target == TargetOf(order)

Shards == UNION {[index : 0 .. n - 1, count : {n}] : n \in ShardCounts}

Unsharded == [index |-> 0, count |-> 1]

\* An empty slice or shard is refused.
OrdersThatStart ==
    {o \in [by : Orders, slice : Slices, shard : Shards \cup {Unsharded}] :
        /\ FramesIn(o.slice) # {} /\ FramesIn(TargetOf(o)) # {}
        /\ o.by = "cli" => o.slice = Timeline
        /\ o.by # "shard" => o.shard = Unsharded}

Record == [ir : Irs, done : Seq([from : Nat, to : Nat])]

\* A file that is not there, or half there, is not taken for one that is.
ASSUME NoFileAssumption ==
    None # Torn /\ {None, Torn} \cap Film = {} /\ None \notin Record /\ Torn \notin Record

-----------------------------------------------------------------------------
\* A worker: the film it was given, the frames it takes for complete, the frame it
\* is writing, how many it drew, where a save leads, how many frames are encoded.

Ended == {"idle", "done", "failed", "cancelled"}

Phase == Ended \cup {"loading", "listing", "drawing", "writing", "saving",
                     "encoding", "clearing"}

Job == [pc : Phase, film : Film, completed : Seq([from : Nat, to : Nat]), drawn : 0 .. NumFrames,
        next : {"drawing", "encoding", "failed", "cancelled"},
        encoded : Seq(Film)]

NewJob == [pc |-> "loading", film |-> film, completed |-> <<>>, drawn |-> 0,
           next |-> "drawing", encoded |-> <<>>]

Active(w) == job[w].pc \notin Ended

Pending(w) == Subtract(Target, job[w].completed)

\* Frames are drawn in order.
NextFrame(w) == Head(Pending(w)).from

Completed(w) == AllFramesIn(job[w].completed)

Whole(f) == file[f] \notin {None, Torn}

BrokenListed == {f \in Frames : file[f] # None}

\* list: the engine's store goes by the name of a file, the API's also by its size.
Listed == {f \in Frames : IF Checked THEN Whole(f) ELSE file[f] # None}

BrokenIsResumable(w) == checkpoint # None

BrokenNeverResumable(w) == FALSE

IsResumable(w) == checkpoint # None /\ checkpoint.ir = job[w].film.ir

-----------------------------------------------------------------------------
\* Nothing is drawn; the API may find the torn checkpoint of a build before this one.
Init ==
    /\ order \in OrdersThatStart
    /\ film \in Film
    /\ file = [f \in Frames |-> None]
    /\ checkpoint \in {None} \cup (IF Checked THEN {Torn} ELSE {})
    /\ job = [w \in Workers |-> [NewJob EXCEPT !.pc = "idle"]]
    /\ spent = [starts |-> 0, crashes |-> 0, edits |-> 0, faults |-> 0, drawn |-> 0]

Goto(w, pc) == job' = [job EXCEPT ![w].pc = pc]

SaveThen(w, next) == job' = [job EXCEPT ![w].pc = "saving", ![w].next = next]

Fault == spent.faults < MaxFaults /\ spent' = [spent EXCEPT !.faults = @ + 1]

-----------------------------------------------------------------------------
\* execute: what is already done.

Start(w) ==
    /\ ~Active(w)
    /\ spent.starts < MaxStarts
    /\ spent' = [spent EXCEPT !.starts = @ + 1]
    /\ job' = [job EXCEPT ![w] = NewJob]
    /\ UNCHANGED <<order, film, file, checkpoint>>

\* A checkpoint of another IR is ignored; one that cannot be read is an error for
\* the engine's store, and no checkpoint for the API's.
LoadCheckpoint(w) ==
    /\ job[w].pc = "loading"
    /\ \/ checkpoint = Torn /\ Goto(w, IF Checked THEN "drawing" ELSE "failed")
       \/ checkpoint # Torn /\ ~IsResumable(w) /\ Goto(w, "drawing")
       \/ /\ checkpoint # Torn /\ IsResumable(w)
          /\ job' = [job EXCEPT ![w].pc = "listing", ![w].completed = checkpoint.done]
    /\ UNCHANGED <<order, film, file, checkpoint, spent>>

\* #reconcile
Reconcile(w) ==
    /\ job[w].pc = "listing"
    /\ job' = [job EXCEPT ![w].pc = "drawing", ![w].completed =
           Normalise({FrameRange(f, f + 1) : f \in Listed \cap AllFramesIn(@)})]
    /\ UNCHANGED <<order, film, file, checkpoint, spent>>

-----------------------------------------------------------------------------
\* execute: draw.

\* The signal is aborted, or the frame cannot be rendered: the checkpoint is saved.
StopDrawing(w, why) ==
    /\ job[w].pc = "drawing"
    /\ Pending(w) # <<>>
    /\ Fault
    /\ SaveThen(w, why)
    /\ UNCHANGED <<order, film, file, checkpoint>>

\* The frame is rendered and its file opened: a reader finds half a frame.
BeginPut(w) ==
    /\ job[w].pc = "drawing"
    /\ Pending(w) # <<>>
    /\ file' = [file EXCEPT ![NextFrame(w)] = Torn]
    /\ Goto(w, "writing")
    /\ UNCHANGED <<order, film, checkpoint, spent>>

\* Not the code: withFrame is not called.
BrokenEndPut(w) ==
    /\ job[w].pc = "writing"
    /\ file' = [file EXCEPT ![NextFrame(w)] = job[w].film]
    /\ job' = [job EXCEPT ![w].pc = "saving", ![w].next = "drawing", ![w].drawn = @ + 1]
    /\ spent' = [spent EXCEPT !.drawn = @ + 1]
    /\ UNCHANGED <<order, film, checkpoint>>

\* A frame counts as completed once it is written, and not before.
EndPut(w) ==
    LET drawn == job[w].drawn + 1
    IN /\ job[w].pc = "writing"
       /\ file' = [file EXCEPT ![NextFrame(w)] = job[w].film]
       /\ job' = [job EXCEPT
              ![w].pc = IF drawn % CheckpointEvery = 0 THEN "saving" ELSE "drawing",
              ![w].next = "drawing",
              ![w].completed = WithFrame(@, NextFrame(w)),
              ![w].drawn = drawn]
       /\ spent' = [spent EXCEPT !.drawn = @ + 1]
       /\ UNCHANGED <<order, film, checkpoint>>

\* Not the code: the result of put is not looked at.
BrokenPutFails(w) ==
    /\ job[w].pc = "writing"
    /\ Fault
    /\ job' = [job EXCEPT ![w].pc = "drawing", ![w].completed = WithFrame(@, NextFrame(w))]
    /\ UNCHANGED <<order, film, file, checkpoint>>

\* No checkpoint is saved on this path.
PutFails(w) ==
    /\ job[w].pc = "writing"
    /\ Fault
    /\ Goto(w, "failed")
    /\ UNCHANGED <<order, film, file, checkpoint>>

\* Nothing pending: the final save.
AllDrawn(w) ==
    /\ job[w].pc = "drawing"
    /\ Pending(w) = <<>>
    /\ SaveThen(w, "encoding")
    /\ UNCHANGED <<order, film, file, checkpoint, spent>>

Save(w) ==
    /\ job[w].pc = "saving"
    /\ checkpoint' = [ir |-> job[w].film.ir, done |-> job[w].completed]
    /\ Goto(w, job[w].next)
    /\ UNCHANGED <<order, film, file, spent>>

\* A save that fails fails the render, but for one that was failing or stopping.
SaveFails(w) ==
    /\ job[w].pc = "saving"
    /\ Fault
    /\ Goto(w, IF job[w].next = "cancelled" THEN "cancelled" ELSE "failed")
    /\ UNCHANGED <<order, film, file, checkpoint>>

-----------------------------------------------------------------------------
\* execute: encode, and drop the frames unless they are to be kept.

\* The frame that is to be encoded next.
Position(w) == Target.from + Len(job[w].encoded)

Encodable(w) ==
    /\ Whole(Position(w))
    /\ HasMaster => file[Position(w)].size = job[w].film.size

EncodeFrame(w) ==
    /\ job[w].pc = "encoding"
    /\ Position(w) < Target.to
    /\ \/ /\ Encodable(w)
          /\ job' = [job EXCEPT ![w].encoded = Append(@, file[Position(w)])]
       \/ ~Encodable(w) /\ Goto(w, "failed")
    /\ UNCHANGED <<order, film, file, checkpoint, spent>>

FinishEncoding(w) ==
    /\ job[w].pc = "encoding"
    /\ Position(w) = Target.to
    /\ Goto(w, IF KeepFrames \/ ~HasMaster THEN "done" ELSE "clearing")
    /\ UNCHANGED <<order, film, file, checkpoint, spent>>

EncoderFails(w) ==
    /\ job[w].pc = "encoding"
    /\ Fault
    /\ Goto(w, "failed")
    /\ UNCHANGED <<order, film, file, checkpoint>>

\* clear removes the files one by one.  The checkpoint goes on claiming them.
ClearFrames(w) ==
    /\ job[w].pc = "clearing"
    /\ \/ \E f \in Frames :
             /\ file[f] # None
             /\ file' = [file EXCEPT ![f] = None]
             /\ UNCHANGED job
       \/ /\ \A f \in Frames : file[f] = None
          /\ Goto(w, "done")
          /\ UNCHANGED file
    /\ UNCHANGED <<order, film, checkpoint, spent>>

-----------------------------------------------------------------------------
\* The process is killed.  A checkpoint being written in place is left half written;
\* the API writes another file and renames it.
Crash ==
    /\ spent.crashes < MaxCrashes
    /\ spent' = [spent EXCEPT !.crashes = @ + 1]
    /\ \E w \in Workers : Active(w)
    /\ job' = [w \in Workers |-> IF Active(w) THEN [job[w] EXCEPT !.pc = "idle"] ELSE job[w]]
    /\ \/ UNCHANGED checkpoint
       \/ ~Checked /\ (\E w \in Workers : job[w].pc = "saving") /\ checkpoint' = Torn
    /\ UNCHANGED <<order, film, file>>

\* Between two executions somebody changes the animation, or asks for another size.
\* (In the API that is another render key, and other files.)
Edit(new) ==
    /\ order.by = "cli"
    /\ spent.edits < MaxEdits
    /\ new # film
    /\ film' = new
    /\ spent' = [spent EXCEPT !.edits = @ + 1]
    /\ UNCHANGED <<order, file, checkpoint, job>>

-----------------------------------------------------------------------------
WorkerStep(w) ==
    \/ LoadCheckpoint(w) \/ Reconcile(w)
    \/ \E why \in {"failed", "cancelled"} : StopDrawing(w, why)
    \/ BeginPut(w) \/ EndPut(w) \/ PutFails(w) \/ AllDrawn(w)
    \/ Save(w) \/ SaveFails(w)
    \/ EncodeFrame(w) \/ FinishEncoding(w) \/ EncoderFails(w) \/ ClearFrames(w)

Next ==
    \/ \E w \in Workers : Start(w) \/ WorkerStep(w)
    \/ Crash
    \/ \E new \in Film : Edit(new)

Spec == Init /\ [][Next]_vars

-----------------------------------------------------------------------------
\* Properties.

\* The variables have their types; a worker that writes has a frame to write, none draws
\* more frames than the film has (a drawn frame stops being pending, withFrame), and what
\* is completed is kept as the fewest ranges that say it (normaliseRanges).
TypeOK ==
    /\ order \in OrdersThatStart
    /\ film \in Film
    /\ file \in [Frames -> Film \cup {None, Torn}]
    /\ checkpoint \in Record \cup {None, Torn}
    /\ job \in [Workers -> Job]
    /\ spent \in [starts : 0 .. MaxStarts, crashes : 0 .. MaxCrashes,
                  edits : 0 .. MaxEdits, faults : 0 .. MaxFaults, drawn : Nat]
    /\ \A w \in Workers :
          /\ job[w].pc = "writing" => Pending(w) # <<>>
          /\ IsCanonical(job[w].completed)

\* What a worker takes for drawn is on disk, whole, until it is encoded: a resume
\* never trusts a frame that was cut off in the middle of its write, that was cleared
\* after an earlier encode, or that the checkpoint claims and nobody wrote (#reconcile,
\* VerifiedFileFrameStore).
CompletedFramesAreKept ==
    /\ TypeOK
    /\ \A w \in Workers :
          job[w].pc \in {"drawing", "writing", "saving", "encoding"} =>
              \A f \in Completed(w) : Whole(f)

\* Nothing is encoded before all of the target is drawn, however the frames that are there
\* are scattered: between drawing and encoding no frame is owed and none is counted that
\* is not one's own to encode (subtractRanges, rangesContain, withFrame).
EncodingHasAllFrames ==
    \A w \in Workers :
        job[w].pc = "encoding" => FramesIn(Target) \subseteq Completed(w)

\* The shards of a slice share it out: every frame of it is some shard's, no frame is two
\* shards', and none has two frames more than another (shardRange).
ShardsPartition ==
    LET n == order.shard.count
        Share(i) == FramesIn(ShardRange(order.slice, i, n))
    IN /\ UNION {Share(i) : i \in 0 .. n - 1} = FramesIn(order.slice)
       /\ \A i, j \in 0 .. n - 1 : i < j =>
             /\ Share(i) \cap Share(j) = {}
             /\ Cardinality(Share(i)) - Cardinality(Share(j)) \in {0, 1}

\* A render is never spliced from two films: every frame a worker encodes was drawn
\* from the IR that worker was given (isResumable).
NoSplice ==
    \A w \in Workers : \A i \in DOMAIN job[w].encoded :
        job[w].encoded[i].ir = job[w].film.ir

\* An interruption costs at most the frames since the last checkpoint: everything else
\* that was drawn is not drawn again, over any number of resumes ("frames 0-59 not
\* recomputed", RV-160).  Says nothing once frames are cleared or the film is changed.
LittleIsRedrawn ==
    KeepFrames /\ spent.edits = 0 =>
        spent.drawn <= Cardinality(FramesIn(Target)) + CheckpointEvery * (spent.crashes + spent.faults)

\* What comments and texts of the code say and the code does not do.

\* apps/cli, usage of `rv render`: "Frames are kept, so a killed render resumes rather
\* than restarts": an execution is not turned down for what a kill left behind.
KilledRenderResumes ==
    \A w \in Workers : job[w].pc = "loading" => checkpoint # Torn

\* apps/cli, `rv render resume`: "finish a killed render from its checkpoint": the
\* frames it reuses are frames its encoder takes.
ResumedFramesFit ==
    \A w \in Workers :
        job[w].pc \in {"drawing", "writing", "saving", "encoding"} =>
            \A f \in Completed(w) :
                Whole(f) => file[f].size = job[w].film.size

\* ports/storage.ts: clear is "called only when a render is explicitly restarted from
\* zero": it takes no frame that a worker counts on.
ClearedFramesAreUnused ==
    \A w \in Workers :
        job[w].pc \in {"drawing", "writing", "saving", "encoding"} =>
            \A f \in Completed(w) : file[f] # None

=============================================================================
