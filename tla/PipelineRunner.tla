--------------------------- MODULE PipelineRunner ---------------------------
(***************************************************************************)
(* The API's pipeline runner: runs made of stages, executed by the job     *)
(* queue's worker slots, started, cancelled and resumed over HTTP, across  *)
(* crashes of the process (apps/api/src/pipeline, queue, infrastructure).  *)
(*                                                                         *)
(* Two kinds of state.  Run rows and payload files are on disk and survive *)
(* a crash; the runner's #inFlight map, the abort controllers, the         *)
(* in-process queue and the requests being served are memory.              *)
(*                                                                         *)
(* The queue is the in-process one, or Redis (BullMQ): there jobs survive  *)
(* a crash, every report to the queue is a network write of its own, and   *)
(* Redis may refuse one.                                                   *)
(*                                                                         *)
(* A step ends where the code hands the event loop to somebody else: a     *)
(* payload file being written or read, a stage executing, a retry backing  *)
(* off, a job waiting for a slot, a job waiting for Redis to hear that it  *)
(* is over.  SQLite is called synchronously behind promises that are       *)
(* already resolved, so a chain of repository calls is one step, except    *)
(* where a crash between two writes leaves a row of its own (Proceed,      *)
(* CrashBetweenWrites) and at the await on setStatus('running'), after     *)
(* which the code re-reads the signal (Decide).                            *)
(*                                                                         *)
(* The code does not hold its runs together in every case: two resumes can *)
(* overtake each other, and Redis can hand out a job whose successor it    *)
(* already has.  A run to which that happened is in `astray`, and the      *)
(* properties are about all others.                                        *)
(*                                                                         *)
(* Definitions named Broken... are not the code: each is the bug that the  *)
(* definition below it must not have, kept to show that a property of this *)
(* module would catch it.                                                  *)
(***************************************************************************)
EXTENDS Naturals, Sequences, SequencesExt

CONSTANTS
    Runs,          \* run ids a client may start
    NumStages,     \* a run requests the stages 1..NumStages, in pipeline order
    Drivers,       \* the queues the process may be configured with
    Registries,    \* the sets of stages it may have handlers for
    Payloads,      \* contents of a run payload; the input hash is injective on them
    Requests,      \* resume requests that can be in progress at once
    Slots,         \* worker slots of the queue (RV_QUEUE_CONCURRENCY)
    MaxAttempts,   \* RetryPolicy.maxAttempts
    None,          \* "null", "undefined"
    MaxResumes,    \* bound: resume requests sent
    MaxCrashes,    \* bound: crashes of the process
    MaxEdits,      \* bound: changes made to stored payloads from outside
    MaxRefusals    \* bound: jobs Redis refuses to take

ASSUME NumStagesAssumption == NumStages \in Nat \ {0}
ASSUME MaxAttemptsAssumption == MaxAttempts \in Nat \ {0}
ASSUME DriversAssumption == Drivers \subseteq {"in-process", "bullmq"}
ASSUME BoundsAssumption ==
    MaxResumes \in Nat /\ MaxCrashes \in Nat /\ MaxEdits \in Nat /\ MaxRefusals \in Nat
ASSUME NoneAssumption ==
    /\ None \notin Payloads /\ None \notin 1 .. NumStages
    /\ None \notin [controller : Nat, payload : Payloads]

VARIABLES
    setup,         \* the queue and the registry this process was configured with
    status,        \* the row's status; "absent" before the row exists
    currentStage,  \* the row's currentStage
    results,       \* the row's result per stage (RunStageResult)
    stored,        \* the payload file of each run
    saving,        \* the payload a start request is writing, or None
    inFlight,      \* #inFlight: the controller and payload of a run, or None
    minted,        \* how many controllers each run has had: the next one's name
    aborted,       \* the controllers whose signal is aborted, per run
    pending,       \* jobs waiting for a slot, first in first out
    slot,          \* what each worker slot is doing
    request,       \* what each resume request is doing
    spent,         \* how much of each bound has been used
    astray         \* history: the runs the code may have lost its hold on

row     == <<status, currentStage, results>>
memory  == <<saving, inFlight, minted, aborted>>
aside   == <<setup, spent, astray>>
vars    == <<row, stored, memory, pending, slot, request, aside>>

\* QUEUE_DRIVER: jobs are in Redis, or in the process.
Durable == setup.driver = "bullmq"

-----------------------------------------------------------------------------
\* Run rows.

Stages == 1 .. NumStages

RunStatus == {"queued", "running", "paused", "succeeded", "failed", "cancelled"}

Terminal == {"succeeded", "failed", "cancelled"}

Transitions ==
    [queued    |-> {"running", "cancelled"},
     running   |-> {"paused", "succeeded", "failed", "cancelled"},
     paused    |-> {"running", "cancelled"},
     succeeded |-> {},
     failed    |-> {"queued"},
     cancelled |-> {}]

\* setStatus: a move to the state the run is in is allowed, any other must be
\* an edge of the table.
MayMove(from, to) == from = to \/ to \in Transitions[from]

Result == [status : {"none", "succeeded", "failed", "cancelled"},
           hash : Payloads \cup {None}]

NoResult == [status |-> "none", hash |-> None]

\* recordStage: a result replaces the previous one of its stage.
Record(r, s, outcome, hash) ==
    results' = [results EXCEPT ![r][s] = [status |-> outcome, hash |-> hash]]

\* "Already done": succeeded, and on these inputs.
Checkpointed(res, s, p) == res[s] = [status |-> "succeeded", hash |-> p]

-----------------------------------------------------------------------------
\* The queue, and the runner's map of runs in flight.

Job == [run : Runs, stage : Stages, payload : Payloads, attempt : Nat]

Entry == [controller : Nat, payload : Payloads]

\* A slot that works on a job: the controller and payload its handler captured,
\* and whether the row it read said the stage was done.
Busy == [pc : {"picked", "executing", "succeeded", "failed", "backoff"},
         job : Job, entry : Entry, done : BOOLEAN]

\* Its handler is through with the job, and Redis has not been told.
Left == [pc : {"completed"}, job : Job]

Idle == [pc |-> "idle"]

Working(w, r) == slot[w].pc \notin {"idle", "completed"} /\ slot[w].job.run = r

Waiting(r) == \E i \in DOMAIN pending : pending[i].run = r

HasJob(r) == Waiting(r) \/ \E w \in Slots : Working(w, r)

NewJob(r, s, p) == [run |-> r, stage |-> s, payload |-> p, attempt |-> 0]

Enqueue(r, s, p) == pending' = Append(pending, NewJob(r, s, p)) /\ UNCHANGED spent

\* Redis answers with an error (InternalError, which nobody retries).
EnqueueRefused ==
    /\ Durable
    /\ spent.refusals < MaxRefusals
    /\ spent' = [spent EXCEPT !.refusals = @ + 1]
    /\ UNCHANGED pending

NewEntry(r, p) == [controller |-> minted[r], payload |-> p]

\* new AbortController(), put in the map.
Track(r, p) ==
    /\ inFlight' = [inFlight EXCEPT ![r] = NewEntry(r, p)]
    /\ minted' = [minted EXCEPT ![r] = @ + 1]

BrokenUntrack(r) == UNCHANGED inFlight

Untrack(r) == inFlight' = [inFlight EXCEPT ![r] = None]

\* The closure `cancelled` of the handler in slot w.
Cancelled(w) == slot[w].entry.controller \in aborted[slot[w].job.run]

BrokenLeave(w, job) == UNCHANGED slot

\* The handler's promise settles, and with Redis its job is still to be reported.
Leave(w, job) ==
    slot' = [slot EXCEPT ![w] =
        IF Durable THEN [pc |-> "completed", job |-> job] ELSE Idle]

BrokenMakeRunning(r) == UNCHANGED status

MakeRunning(r) == status' = [status EXCEPT ![r] = "running"]

BrokenLastAttempt(job) == job.attempt > MaxAttempts

LastAttempt(job) == job.attempt >= MaxAttempts

BrokenLastStage(s) == s = NumStages - 1

LastStage(s) == s = NumStages

-----------------------------------------------------------------------------
Init ==
    /\ setup \in [driver : Drivers, registered : Registries]
    /\ status = [r \in Runs |-> "absent"]
    /\ currentStage = [r \in Runs |-> None]
    /\ results = [r \in Runs |-> [s \in Stages |-> NoResult]]
    /\ stored = [r \in Runs |-> None]
    /\ saving = [r \in Runs |-> None]
    /\ inFlight = [r \in Runs |-> None]
    /\ minted = [r \in Runs |-> 0]
    /\ aborted = [r \in Runs |-> {}]
    /\ pending = <<>>
    /\ slot = [w \in Slots |-> Idle]
    /\ request = [q \in Requests |-> Idle]
    /\ spent = [resumes |-> 0, crashes |-> 0, edits |-> 0, refusals |-> 0]
    /\ astray = {}

-----------------------------------------------------------------------------
\* start: the row, then the payload file, then the first job.

StartCreates(r, p) ==
    /\ status[r] = "absent"
    /\ status' = [status EXCEPT ![r] = "queued"]
    /\ saving' = [saving EXCEPT ![r] = p]
    /\ UNCHANGED <<currentStage, results, stored, inFlight, minted, aborted,
                   pending, slot, request, aside>>

\* When the queue refuses the job, start returns the error and forgets nothing.
StartSaves(r) ==
    /\ saving[r] # None
    /\ stored' = [stored EXCEPT ![r] = saving[r]]
    /\ saving' = [saving EXCEPT ![r] = None]
    /\ Track(r, saving[r])
    /\ Enqueue(r, 1, saving[r]) \/ EnqueueRefused
    /\ UNCHANGED <<row, aborted, slot, request, setup, astray>>

\* The disk refuses the payload: start returns the error, the row stays.
StartFailsToSave(r) ==
    /\ saving[r] # None
    /\ saving' = [saving EXCEPT ![r] = None]
    /\ UNCHANGED <<row, stored, inFlight, minted, aborted, pending, slot,
                   request, aside>>

-----------------------------------------------------------------------------
\* cancel: refused for a stopped run; otherwise abort, forget, record, stop.

Cancel(r) ==
    /\ status[r] \notin Terminal \cup {"absent"}
    /\ aborted' = IF inFlight[r] = None THEN aborted
                  ELSE [aborted EXCEPT ![r] = @ \cup {inFlight[r].controller}]
    /\ Untrack(r)
    /\ IF currentStage[r] = None THEN UNCHANGED results
       ELSE Record(r, currentStage[r], "cancelled", None)
    /\ status' = [status EXCEPT ![r] = "cancelled"]
    /\ UNCHANGED <<currentStage, stored, saving, minted, pending, slot,
                   request, aside>>

-----------------------------------------------------------------------------
\* resume: the checks on the row and the map, then the payload file, then the
\* job.  `run` is the row as it was read before the file was.

Loading == [pc : {"loading"}, run : Runs, results : [Stages -> Result]]
Refused == [pc : {"refused"}, run : Runs]

BrokenMayResume(r) == status[r] \notin {"absent", "succeeded", "cancelled"}

MayResume(r) ==
    /\ status[r] \notin {"absent", "succeeded", "cancelled"}
    /\ inFlight[r] = None

ResumeReads(q, r) ==
    /\ request[q].pc # "loading"
    /\ spent.resumes < MaxResumes
    /\ MayResume(r)
    /\ spent' = [spent EXCEPT !.resumes = @ + 1]
    /\ \/ /\ MayMove(status[r], "failed")
          /\ status' = [status EXCEPT ![r] = "failed"]
          /\ request' = [request EXCEPT ![q] =
                 [pc |-> "loading", run |-> r, results |-> results[r]]]
       \/ /\ ~MayMove(status[r], "failed")
          /\ request' = [request EXCEPT ![q] = [pc |-> "refused", run |-> r]]
          /\ UNCHANGED status
    /\ UNCHANGED <<currentStage, results, stored, memory, pending, slot, setup, astray>>

\* The file is gone, or cannot be read.
ResumeFindsNoPayload(q) ==
    /\ request[q].pc = "loading"
    /\ stored[request[q].run] = None
    /\ request' = [request EXCEPT ![q] = Idle]
    /\ UNCHANGED <<row, stored, memory, pending, slot, aside>>

\* Ignores what the checkpoints were made from.
BrokenFirstStageToRun(res, p) ==
    CHOOSE s \in Stages :
        /\ \A before \in 1 .. s - 1 : res[before].status = "succeeded"
        /\ res[s].status = "succeeded" => s = NumStages

\* The first stage the row read does not show done on payload p, and the last
\* stage when it shows them all done.
FirstStageToRun(res, p) ==
    CHOOSE s \in Stages :
        /\ \A before \in 1 .. s - 1 : Checkpointed(res, before, p)
        /\ Checkpointed(res, s, p) => s = NumStages

\* While the file was read the row moved on: another resume was faster.
Overtaken(q) ==
    LET r == request[q].run
    IN status[r] # "failed" \/ results[r] # request[q].results

\* A run that is re-queued although its row has moved on, or although Redis has a
\* job of it from before the crash, goes astray: nothing in the code looks.
ResumeLoads(q) ==
    LET r == request[q].run
        p == stored[r]
    IN /\ request[q].pc = "loading"
       /\ p # None
       /\ request' = [request EXCEPT ![q] = Idle]
       /\ \/ /\ MayMove(status[r], "queued")
             /\ status' = [status EXCEPT ![r] = "queued"]
             /\ \/ /\ Track(r, p)
                   /\ Enqueue(r, FirstStageToRun(request[q].results, p), p)
                \/ /\ EnqueueRefused
                   /\ Untrack(r)
                   /\ UNCHANGED minted
             /\ astray' = IF Overtaken(q) \/ (Durable /\ Waiting(r))
                          THEN astray \cup {r} ELSE astray
          \/ /\ ~MayMove(status[r], "queued")
             /\ UNCHANGED <<status, inFlight, minted, pending, spent, astray>>
       /\ UNCHANGED <<currentStage, results, stored, saving, aborted, slot, setup>>

-----------------------------------------------------------------------------
\* #handle, from the job's arrival in a slot to the promise of its stage.

\* The job of a stopped run is dropped; any other makes its run `running` under
\* the controller in the map, or under a new one when the map has none.
BrokenEntryFor(job) == NewEntry(job.run, job.payload)

EntryFor(job) ==
    IF inFlight[job.run] = None THEN NewEntry(job.run, job.payload)
    ELSE inFlight[job.run]

BrokenIsDone(job) == results[job.run][job.stage].status = "succeeded"

BrokenNeverDone(job) == FALSE

IsDone(job) == Checkpointed(results[job.run], job.stage, job.payload)

Arrive(w, job) ==
    LET r == job.run
    IN \/ /\ status[r] \in Terminal
          /\ Leave(w, job)
          /\ UNCHANGED <<row, memory>>
       \/ /\ status[r] \notin Terminal
          /\ MakeRunning(r)
          /\ IF inFlight[r] = None THEN Track(r, job.payload)
             ELSE UNCHANGED <<inFlight, minted>>
          /\ slot' = [slot EXCEPT ![w] =
                 [pc |-> "picked", job |-> job, entry |-> EntryFor(job),
                  done |-> IsDone(job)]]
          /\ UNCHANGED <<currentStage, results, saving, aborted>>

Attempt(job) == [job EXCEPT !.attempt = @ + 1]

\* #pump: the job that has waited longest goes to a slot that is free.
PickUp(w) ==
    /\ slot[w] = Idle
    /\ pending # <<>>
    /\ pending' = Tail(pending)
    /\ Arrive(w, Attempt(Head(pending)))
    /\ UNCHANGED <<stored, request, aside>>

\* #fail: forget the run, record the failure, release the slot.
Fail(w) ==
    LET r == slot[w].job.run
    IN /\ Untrack(r)
       /\ status' = IF MayMove(status[r], "failed")
                    THEN [status EXCEPT ![r] = "failed"] ELSE status
       /\ Leave(w, slot[w].job)
       /\ UNCHANGED <<currentStage, minted, pending, spent>>

\* #nextStage and #succeed: the next stage's job, or the end of the run.  The job
\* itself is reported later: until then Redis has both, or, when it refused the
\* next one, neither has anybody behind it.
Advance(w) ==
    LET job == slot[w].job
        r == job.run
    IN /\ Leave(w, job)
       /\ UNCHANGED minted
       /\ \/ /\ ~LastStage(job.stage)
             /\ Enqueue(r, job.stage + 1, slot[w].entry.payload) \/ EnqueueRefused
             /\ UNCHANGED <<status, currentStage, inFlight>>
          \/ /\ LastStage(job.stage)
             /\ Untrack(r)
             /\ IF MayMove(status[r], "succeeded")
                THEN /\ status' = [status EXCEPT ![r] = "succeeded"]
                     /\ currentStage' = [currentStage EXCEPT ![r] = None]
                ELSE UNCHANGED <<status, currentStage>>
             /\ UNCHANGED <<pending, spent>>

\* No handler for the stage, a stage already checkpointed, a run cancelled
\* since the job arrived, or a stage to execute.
Decide(w) ==
    /\ slot[w].pc = "picked"
    /\ LET job == slot[w].job
           registered == job.stage \in setup.registered
       IN \/ ~registered /\ Fail(w)
          \/ registered /\ slot[w].done /\ Advance(w)
          \/ /\ registered /\ ~slot[w].done /\ Cancelled(w)
             /\ Leave(w, job)
             /\ UNCHANGED <<status, currentStage, inFlight, minted, pending, spent>>
          \/ /\ registered /\ ~slot[w].done /\ ~Cancelled(w)
             /\ currentStage' = [currentStage EXCEPT ![job.run] = job.stage]
             /\ slot' = [slot EXCEPT ![w].pc = "executing"]
             /\ UNCHANGED <<status, inFlight, minted, pending, spent>>
    /\ UNCHANGED <<results, stored, saving, aborted, request, setup, astray>>

\* The worker reports to Redis that the job is over.
Acknowledge(w) ==
    /\ slot[w].pc = "completed"
    /\ slot' = [slot EXCEPT ![w] = Idle]
    /\ UNCHANGED <<row, stored, memory, pending, request, aside>>

-----------------------------------------------------------------------------
\* #handle, from the stage's outcome on.  An outcome is looked at only when the
\* signal is not aborted; it is recorded before the run moves on.

BrokenReturns(w) == slot[w].pc = "executing"

Returns(w) == slot[w].pc = "executing" /\ ~Cancelled(w)

StageAborted(w) ==
    /\ slot[w].pc = "executing"
    /\ Cancelled(w)
    /\ Leave(w, slot[w].job)
    /\ UNCHANGED <<row, stored, memory, pending, request, aside>>

\* The stage succeeded, or failed for good.
StageSettles(w, outcome) ==
    LET job == slot[w].job
    IN /\ Returns(w)
       /\ Record(job.run, job.stage, outcome, job.payload)
       /\ slot' = [slot EXCEPT ![w].pc = outcome]
       /\ UNCHANGED <<status, currentStage, stored, memory, pending, request, aside>>

Proceed(w) ==
    /\ \/ slot[w].pc = "succeeded" /\ Advance(w)
       \/ slot[w].pc = "failed" /\ Fail(w)
    /\ UNCHANGED <<results, stored, saving, aborted, request, setup, astray>>

\* A retryable failure goes back to the queue.  After the last attempt the queue
\* drops the job, and tells nobody.
StageFailsRetryably(w) ==
    LET job == slot[w].job
    IN /\ Returns(w)
       /\ Record(job.run, job.stage, "failed", job.payload)
       /\ \/ ~LastAttempt(job) /\ slot' = [slot EXCEPT ![w].pc = "backoff"]
          \/ LastAttempt(job) /\ Leave(w, job)
       /\ UNCHANGED <<status, currentStage, stored, memory, pending, request, aside>>

\* The in-process queue sleeps in the slot; Redis, once told, delays the job and
\* the slot is free.
BackoffEnds(w) ==
    /\ slot[w].pc = "backoff"
    /\ \/ /\ ~Durable
          /\ Arrive(w, Attempt(slot[w].job))
          /\ UNCHANGED pending
       \/ /\ Durable
          /\ slot' = [slot EXCEPT ![w] = Idle]
          /\ pending' = Append(pending, slot[w].job)
          /\ UNCHANGED <<row, memory>>
    /\ UNCHANGED <<stored, request, aside>>

-----------------------------------------------------------------------------
\* What happens to the process and to its disk.

\* A job Redis hands out again starts the attempt it was in once more.
Unfinished(job) == [job EXCEPT !.attempt = @ - 1]

\* In whatever order Redis notices that their workers are gone: the jobs it was not
\* told the end of.  A job may stall once (maxStalledCount), so from the second crash
\* on Redis may give up on some.
Redelivered ==
    {[i \in DOMAIN held |-> Unfinished(slot[held[i]].job)] :
        held \in UNION {SetToSeqs(kept) : kept \in
            {workers \in SUBSET {w \in Slots : slot[w] # Idle} :
                spent.crashes = 0 => \A w \in Slots : slot[w] # Idle => w \in workers}}}

\* With Redis a run goes astray when its worker dies between the last thing it did
\* for a job, such as enqueueing the next one, and the report that the job is over;
\* and when the process dies inside its cancel (cutOff), its job coming back.
LoseMemory(cutOff) ==
    /\ spent.crashes < MaxCrashes
    /\ spent' = [spent EXCEPT !.crashes = @ + 1]
    /\ saving' = [r \in Runs |-> None]
    /\ inFlight' = [r \in Runs |-> None]
    /\ aborted' = [r \in Runs |-> {}]
    /\ slot' = [w \in Slots |-> Idle]
    /\ request' = [q \in Requests |-> Idle]
    /\ \/ ~Durable /\ pending' = <<>> /\ UNCHANGED astray
       \/ /\ Durable
          /\ \E jobs \in Redelivered : pending' = pending \o jobs
          /\ astray' = astray \cup cutOff \cup
                 {r \in Runs : /\ status[r] \notin Terminal
                              /\ \E w \in Slots : slot[w].pc = "completed"
                                                 /\ slot[w].job.run = r}
    /\ UNCHANGED <<stored, minted, setup>>

Crash == LoseMemory({}) /\ UNCHANGED row

\* cancel has recorded the stage but not the status; #succeed has written the
\* status but not the current stage.
CrashBetweenWrites ==
    /\ UNCHANGED currentStage
    /\ \/ \E r \in Runs :
             /\ status[r] \notin Terminal \cup {"absent"}
             /\ currentStage[r] # None
             /\ Record(r, currentStage[r], "cancelled", None)
             /\ UNCHANGED status
             /\ LoseMemory({r})
       \/ \E w \in Slots :
             /\ slot[w].pc = "succeeded"
             /\ LastStage(slot[w].job.stage)
             /\ MayMove(status[slot[w].job.run], "succeeded")
             /\ status' = [status EXCEPT ![slot[w].job.run] = "succeeded"]
             /\ UNCHANGED results
             /\ LoseMemory({})

\* Somebody edits the stored payload of a run, or it is lost.
PayloadChanges(r, p) ==
    /\ spent.edits < MaxEdits
    /\ stored[r] \notin {None, p}
    /\ stored' = [stored EXCEPT ![r] = p]
    /\ spent' = [spent EXCEPT !.edits = @ + 1]
    /\ UNCHANGED <<row, memory, pending, slot, request, setup, astray>>

-----------------------------------------------------------------------------
WorkerStep(w) ==
    \/ PickUp(w) \/ Decide(w) \/ BackoffEnds(w) \/ Acknowledge(w)
    \/ StageAborted(w) \/ StageFailsRetryably(w) \/ Proceed(w)
    \/ \E outcome \in {"succeeded", "failed"} : StageSettles(w, outcome)

Next ==
    \/ \E r \in Runs :
        \/ \E p \in Payloads : StartCreates(r, p)
        \/ StartSaves(r) \/ StartFailsToSave(r)
        \/ Cancel(r)
        \/ \E p \in Payloads \cup {None} : PayloadChanges(r, p)
    \/ \E q \in Requests :
        \/ \E r \in Runs : ResumeReads(q, r)
        \/ ResumeFindsNoPayload(q)
        \/ ResumeLoads(q)
    \/ \E w \in Slots : WorkerStep(w)
    \/ Crash
    \/ CrashBetweenWrites

Spec == Init /\ [][Next]_vars

\* The event loop is never starved: a worker's next step is taken, a stage's
\* promise settles, a file operation returns.  Which outcome a stage has, and
\* whether anybody cancels, resumes or crashes anything, is not assumed.
Fairness ==
    /\ \A r \in Runs : WF_vars(StartSaves(r) \/ StartFailsToSave(r))
    /\ \A w \in Slots : WF_vars(WorkerStep(w))
    /\ \A q \in Requests : WF_vars(ResumeFindsNoPayload(q) \/ ResumeLoads(q))

LiveSpec == Spec /\ Fairness

-----------------------------------------------------------------------------
\* Properties.

\* Types, and the bound on attempts: no job is handled more than MaxAttempts
\* times (InProcessJobQueue.#run).
TypeOK ==
    /\ setup \in [driver : Drivers, registered : Registries]
    /\ status \in [Runs -> RunStatus \cup {"absent"}]
    /\ currentStage \in [Runs -> Stages \cup {None}]
    /\ results \in [Runs -> [Stages -> Result]]
    /\ stored \in [Runs -> Payloads \cup {None}]
    /\ saving \in [Runs -> Payloads \cup {None}]
    /\ inFlight \in [Runs -> Entry \cup {None}]
    /\ minted \in [Runs -> Nat]
    /\ aborted \in [Runs -> SUBSET Nat]
    /\ pending \in Seq(Job)
    /\ \A i \in DOMAIN pending : pending[i].attempt < MaxAttempts
    /\ slot \in [Slots -> Busy \cup Left \cup {Idle}]
    /\ \A w \in Slots : slot[w] # Idle =>
          /\ slot[w].job.attempt \in 1 .. MaxAttempts
          /\ slot[w].pc = "backoff" => slot[w].job.attempt < MaxAttempts
    /\ request \in [Requests -> Loading \cup Refused \cup {Idle}]
    /\ spent \in [resumes : 0 .. MaxResumes, crashes : 0 .. MaxCrashes,
                  edits : 0 .. MaxEdits, refusals : 0 .. MaxRefusals]
    /\ astray \in SUBSET Runs

\* A run has at most one job, waiting or in a slot.
OneJob(r) ==
    /\ \A i, j \in DOMAIN pending : pending[i].run = r /\ pending[j].run = r => i = j
    /\ \A v, w \in Slots : Working(v, r) /\ Working(w, r) => v = w
    /\ \A w \in Slots : Working(w, r) => ~Waiting(r)

\* A run that is not over has at most one job: no stage of it is executed twice at
\* once, nor two stages of it side by side, however starts, retries, cancels,
\* crashes and resumes interleave (resume's refusal of a run that is still executing,
\* #handle's one enqueue per finished stage).  What breaks this is named by astray,
\* and by nothing else.
OneJobPerRun ==
    \A r \in Runs \ astray : status[r] \notin Terminal => OneJob(r)

\* While a run has not stopped, the controller its handler holds is the one in
\* the map: a cancel always reaches the work in progress, and the provider call
\* under it ("the abort signal reaches the provider call").
CancelReachesWork ==
    \A r \in Runs \ astray : \A w \in Slots :
        status[r] \notin Terminal /\ Working(w, r) => inFlight[r] = slot[w].entry

\* A run that succeeded or failed has nothing left behind: no handler at work on it
\* and no entry in the map, so a resume of it is neither refused as still executing
\* nor joined by an older handler; and no job, but one that Redis hands out again
\* after a crash and the runner drops (#succeed, #fail).
SettledRunIsQuiet ==
    \A r \in Runs \ astray :
        status[r] \in {"succeeded", "failed"} =>
            /\ inFlight[r] = None
            /\ \A w \in Slots : ~Working(w, r)
            /\ Waiting(r) => Durable /\ spent.crashes > 0

\* A stage executes only on top of checkpoints of every earlier stage made from
\* the same payload: an edit between a failure and a resume never mixes two
\* payloads in one chain (#firstStageToRun, the skip in #handle).
CheckpointsInOrder ==
    \A w \in Slots :
        /\ slot[w].pc = "executing" /\ ~Cancelled(w)
        /\ slot[w].job.run \notin astray
        => \A s \in 1 .. slot[w].job.stage - 1 :
               Checkpointed(results[slot[w].job.run], s, slot[w].job.payload)

\* A stage that already succeeded on the payload is not executed again ("completed
\* stages are not re-run", docs/03-backlog.md RV-181): not by a resume, not by a
\* retry, not by a job that Redis delivers twice, not when the crash fell between
\* the checkpoint and the next job or the run's last write.
FinishedStageIsNotRerun ==
    \A w \in Slots :
        /\ slot[w].pc = "executing" /\ ~Cancelled(w)
        /\ slot[w].job.run \notin astray
        => ~Checkpointed(results[slot[w].job.run], slot[w].job.stage,
                         slot[w].job.payload)

\* A run says it succeeded only when every stage it asked for did, all of them
\* on one payload, whatever was skipped, retried or resumed on the way.
SucceededRunIsComplete ==
    \A r \in Runs \ astray :
        status[r] = "succeeded" =>
            \E p \in Payloads : \A s \in Stages : Checkpointed(results[r], s, p)

\* Nothing is written to the row of a run that was cancelled or succeeded: by a
\* stage that ignored the signal, by a job that was still queued or is delivered
\* again, by a resume (#handle's re-check after the stage returns: "the run the
\* user stopped would finish, minutes later, and bill for it").
FinalRunIsSealed ==
    [][\A r \in Runs \ astray :
        status[r] \in {"succeeded", "cancelled"} =>
            /\ status'[r] = status[r]
            /\ currentStage'[r] = currentStage[r]
            /\ results'[r] = results[r]]_vars

\* A queued run with a job behind it comes to rest, or its last attempt failed and
\* the queue dropped it, or the process that had the job in memory died.  With Redis
\* it comes to rest across a crash.
RetriesExhausted(r) ==
    /\ ~HasJob(r)
    /\ currentStage[r] # None
    /\ results[r][currentStage[r]].status = "failed"

EveryRunComesToRest ==
    \A r \in Runs :
        status[r] = "queued" /\ HasJob(r) ~>
            \/ status[r] \in Terminal
            \/ RetriesExhausted(r)
            \/ ~Durable /\ spent.crashes > 0

\* Whoever reads the rows sees the life of a run as RunLifecycle tells it, whatever is
\* queued, retried, resumed, cancelled, edited or lost behind them: a stage is finished or
\* fails only when it is due, a run succeeds only when it is complete, and a run that is
\* over is not written to (PIPELINE_STATUS_TRANSITIONS, recordStage, #handle).
Lifecycle == INSTANCE RunLifecycle WITH
    status  <- [r \in Runs |-> IF r \in astray THEN "astray" ELSE status[r]],
    results <- [r \in Runs |-> IF r \in astray THEN [s \in Stages |-> NoResult]
                                              ELSE results[r]]

ImplementsLifecycle == Lifecycle!Spec

\* What comments of the code say and the code does not do.


\* pipeline-runner.service.ts, on resume: a run whose process died "still says
\* `running` or `queued` with no worker behind it", is recorded as WORKER_LOST
\* "and then re-queued": a resume of such a run is not turned down.
Orphaned(r) ==
    /\ status[r] \in {"queued", "running"}
    /\ saving[r] = None /\ stored[r] # None
    /\ inFlight[r] = None /\ ~HasJob(r)

LostRunIsResumable ==
    \A q \in Requests :
        request[q].pc = "refused" => ~Orphaned(request[q].run)

\* "Run is still executing; cancel it before resuming": a run in the map has a job.
InFlightRunHasJob ==
    \A r \in Runs : status[r] \notin Terminal /\ inFlight[r] # None => HasJob(r)

\* "The run record lists each stage with its duration, cost and output artefact
\* ids" (docs/03-backlog.md RV-181), and a cancel "stops a run inside the current
\* stage": the result of a stage that had already succeeded stays what it was,
\* also when the next stage's job is waiting behind other work.
CancelKeepsFinishedStages ==
    [][\A r \in Runs : \A s \in Stages :
            /\ \A w \in Slots : slot[w] # Idle /\ ~Working(w, r)
            /\ status[r] # "cancelled" /\ status'[r] = "cancelled"
            /\ results[r][s].status = "succeeded"
            => results'[r][s] = results[r][s]]_vars

=============================================================================
