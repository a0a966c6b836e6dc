---------------------------- MODULE RunLifecycle ----------------------------
(***************************************************************************)
(* What a run promises to whoever reads its row: a state machine of        *)
(* statuses in which stages are finished one after the other, each on top  *)
(* of results made from the same payload, and success means all of them.   *)
(*                                                                         *)
(* There is no queue here, no request, no memory to lose and no clock.     *)
(* PipelineRunner has all of these and implements this specification.  No  *)
(* step pauses a run; a row that is paused may go on and be cancelled.     *)
(* Several runs may move at once.  A run that goes astray promises nothing *)
(* from then on: its row is no longer looked at.                           *)
(***************************************************************************)
EXTENDS Naturals

CONSTANTS
    Runs, NumStages, Payloads,
    None           \* no payload

VARIABLES
    status,        \* the row's status; "absent" before the row exists, "astray"
    results        \* the row's result per stage, and what it was made from

vars == <<status, results>>

Stages == 1 .. NumStages

NoResults == [s \in Stages |-> [status |-> "none", hash |-> None]]

Done(r, s, p) == results[r][s] = [status |-> "succeeded", hash |-> p]

\* Stage s of run r may be worked on, from payload p.
Due(r, s, p) ==
    /\ \A before \in 1 .. s - 1 : Done(r, before, p)
    /\ ~Done(r, s, p)

Move(r, from, to) == status[r] \in from /\ status'[r] = to

Note(r, s, outcome, p) ==
    results'[r] = [results[r] EXCEPT ![s] = [status |-> outcome, hash |-> p]]

SameStatus(r)  == status'[r] = status[r]
SameResults(r) == results'[r] = results[r]

-----------------------------------------------------------------------------
Init ==
    /\ status = [r \in Runs |-> "absent"]
    /\ results = [r \in Runs |-> NoResults]

Create(r) == Move(r, {"absent"}, "queued") /\ SameResults(r)

Begin(r) == Move(r, {"queued", "paused"}, "running") /\ SameResults(r)

FinishStage(r, s, p) ==
    /\ status[r] = "running"
    /\ Due(r, s, p)
    /\ Note(r, s, "succeeded", p)
    /\ SameStatus(r)

FailStage(r, s, p) ==
    /\ status[r] = "running"
    /\ Due(r, s, p)
    /\ Note(r, s, "failed", p)
    /\ SameStatus(r)

Succeed(r) ==
    /\ \E p \in Payloads : \A s \in Stages : Done(r, s, p)
    /\ Move(r, {"running"}, "succeeded")
    /\ SameResults(r)

\* A stage failed for good, or the process that worked on the run is gone.
Fail(r) == Move(r, {"running"}, "failed") /\ SameResults(r)

Requeue(r) == Move(r, {"failed"}, "queued") /\ SameResults(r)

\* A cancel may replace the result of the stage that is current.
Cancel(r) ==
    /\ Move(r, {"queued", "running", "paused"}, "cancelled")
    /\ SameResults(r) \/ \E s \in Stages : Note(r, s, "cancelled", None)

\* One that a crash cut off may have done that, and nothing else.
CancelCutOff(r) ==
    /\ status[r] \in {"queued", "running", "paused"}
    /\ \E s \in Stages : Note(r, s, "cancelled", None)
    /\ SameStatus(r)

GoAstray(r) ==
    /\ Move(r, {"queued", "running", "paused", "failed"}, "astray")
    /\ results'[r] = NoResults

Step(r) ==
    \/ Create(r) \/ Begin(r) \/ Succeed(r) \/ Fail(r) \/ Requeue(r)
    \/ Cancel(r) \/ CancelCutOff(r) \/ GoAstray(r)
    \/ \E s \in Stages, p \in Payloads : FinishStage(r, s, p) \/ FailStage(r, s, p)

Stay(r) == SameStatus(r) /\ SameResults(r)

Next ==
    /\ DOMAIN status' = Runs /\ DOMAIN results' = Runs
    /\ \A r \in Runs : Step(r) \/ Stay(r)

Spec == Init /\ [][Next]_vars

=============================================================================
