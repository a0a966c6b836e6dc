------------------------ MODULE PipelineRunnerProofs ------------------------
(***************************************************************************)
(* Proofs about PipelineRunner, for any runs, payloads, slots and bounds.  *)
(*                                                                         *)
(* 1. Types, whatever the queue.                                           *)
(* 2. The inductive invariant Inv: every run that has not gone astray is   *)
(*    Sound.  What Sound says of a run speaks of that run alone, so that   *)
(*    each action is looked at for one run x: the action is another run's  *)
(*    (UntouchedRun), or it is one of x's own.                             *)
(* 3. With it each action moves the row of x as RunLifecycle lets it, or   *)
(*    leaves it alone.                                                     *)
(* 4. What follows, among it that PipelineRunner implements RunLifecycle.  *)
(*                                                                         *)
(* Nothing is assumed of the queue, of how many resumes are in progress,   *)
(* or of the crashes.                                                      *)
(***************************************************************************)
EXTENDS PipelineRunner, FiniteSetTheorems, WellFoundedInduction, TLAPS

-----------------------------------------------------------------------------
\* What the queue's sequences do.

\* Appending a job keeps the others where they are and adds one place.
LEMMA AppendedJob ==
    ASSUME NEW js \in Seq(Job), NEW j \in Job
    PROVE  /\ Append(js, j) \in Seq(Job)
           /\ DOMAIN Append(js, j) = DOMAIN js \cup {Len(js) + 1}
           /\ Len(js) + 1 \notin DOMAIN js
           /\ \A i \in DOMAIN js : Append(js, j)[i] = js[i]
           /\ Append(js, j)[Len(js) + 1] = j
  OBVIOUS

\* Taking the first job moves every other one place forward.
LEMMA TakenJob ==
    ASSUME NEW js \in Seq(Job), js # <<>>
    PROVE  /\ Tail(js) \in Seq(Job)
           /\ 1 \in DOMAIN js /\ Head(js) = js[1] /\ Head(js) \in Job
           /\ \A i \in DOMAIN Tail(js) :
                i \in Nat /\ i + 1 \in DOMAIN js /\ i + 1 # 1 /\ Tail(js)[i] = js[i + 1]
  OBVIOUS

\* A resume always finds a stage to start from (#firstStageToRun, and the last
\* stage when every one is done), and all before it is done.
LEMMA FirstStageExists ==
    ASSUME NEW res, NEW p
    PROVE  /\ FirstStageToRun(res, p) \in Stages
           /\ \A before \in 1 .. FirstStageToRun(res, p) - 1 : Checkpointed(res, before, p)
PROOF
  <1> DEFINE Less == OpToRel(<, Nat)
             Candidates == {s \in Stages : Checkpointed(res, s, p) => s = NumStages}
  <1>1. NumStages \in Candidates
    BY NumStagesAssumption DEF Stages
  <1>2. Candidates \subseteq Nat
    BY NumStagesAssumption DEF Stages
  <1>3. PICK least \in Candidates : \A s \in Candidates : ~ (<<s, least>> \in Less)
    BY <1>1, <1>2, NatLessThanWellFounded, WFMin
  <1>4. \A s \in Candidates : ~ (s < least)
    BY <1>2, <1>3 DEF OpToRel
  <1>5. \A before \in 1 .. least - 1 : Checkpointed(res, before, p)
    BY <1>4, NumStagesAssumption DEF Stages
  <1> QED
    BY <1>5 DEF FirstStageToRun

-----------------------------------------------------------------------------

LEMMA UnfinishedJob ==
    ASSUME NEW j \in Job, j.attempt \in 1 .. MaxAttempts
    PROVE  Unfinished(j) \in Job /\ Unfinished(j).attempt < MaxAttempts
  BY MaxAttemptsAssumption DEF Unfinished, Job

\* A job handed to the handler is the job that was enqueued, one attempt on.
LEMMA AttemptedJob ==
    ASSUME NEW j \in Job
    PROVE  /\ Attempt(j) \in Job /\ Attempt(j).run = j.run
           /\ Attempt(j).stage = j.stage /\ Attempt(j).payload = j.payload
  BY DEF Attempt, Job

\* The jobs a crash gives back to the Redis queue are jobs, each with an attempt
\* to spare.
LEMMA RedeliveredJobs ==
    ASSUME TypeOK, IsFiniteSet(Slots), NEW jobs \in Redelivered
    PROVE  /\ jobs \in Seq(Job)
           /\ \A i \in DOMAIN jobs : jobs[i].attempt < MaxAttempts
           /\ \E held \in [DOMAIN jobs -> {w \in Slots : slot[w] # Idle}] :
                /\ \A i \in DOMAIN jobs : jobs[i] = Unfinished(slot[held[i]].job)
                /\ \A i, j \in DOMAIN jobs : held[i] = held[j] => i = j
PROOF
  <1> DEFINE B == {w \in Slots : slot[w] # Idle}
  <1>0. PICK kept \in SUBSET B :
          \E held \in SetToSeqs(kept) :
              jobs = [i \in DOMAIN held |-> Unfinished(slot[held[i]].job)]
    BY DEF Redelivered
  <1>1. PICK held \in SetToSeqs(kept) :
          jobs = [i \in DOMAIN held |-> Unfinished(slot[held[i]].job)]
    BY <1>0
  <1>2. IsFiniteSet(kept)
    BY <1>1, FS_Subset
  <1>3. PICK n \in Nat : n = Cardinality(kept)
    BY <1>2, FS_CardinalityType
  <1>4. /\ held \in [1 .. n -> kept]
        /\ \A i, j \in 1 .. n : held[i] = held[j] => i = j
    BY <1>1, <1>3 DEF SetToSeqs, IsInjective
  <1>5. \A i \in 1 .. n :
          /\ held[i] \in B
          /\ Unfinished(slot[held[i]].job) \in Job
          /\ Unfinished(slot[held[i]].job).attempt < MaxAttempts
    <2> SUFFICES ASSUME NEW i \in 1 .. n
                 PROVE  /\ held[i] \in B
                        /\ Unfinished(slot[held[i]].job) \in Job
                        /\ Unfinished(slot[held[i]].job).attempt < MaxAttempts
      OBVIOUS
    <2>1. held[i] \in Slots /\ slot[held[i]] # Idle
      BY <1>1, <1>4
    <2>2. slot[held[i]].job \in Job /\ slot[held[i]].job.attempt \in 1 .. MaxAttempts
      BY <2>1 DEF TypeOK, Busy, Left
    <2> QED
      BY <2>1, <2>2, UnfinishedJob
  <1>6. jobs = [i \in 1 .. n |-> Unfinished(slot[held[i]].job)] /\ held \in [1 .. n -> B]
    BY <1>1, <1>4
  <1>7. DOMAIN jobs = 1 .. n /\ \A i \in 1 .. n : jobs[i] = Unfinished(slot[held[i]].job)
    BY <1>6
  <1> QED
    BY <1>4, <1>5, <1>6, <1>7

-----------------------------------------------------------------------------
\* Types.

LEMMA HeldJob ==
    ASSUME TypeOK, NEW w \in Slots, slot[w] # Idle
    PROVE  /\ slot[w] \in Busy \cup Left
           /\ slot[w].job \in Job /\ slot[w].job.run \in Runs
           /\ slot[w].job.stage \in Stages /\ slot[w].job.payload \in Payloads
           /\ slot[w].job.attempt \in 1 .. MaxAttempts
  BY DEF TypeOK, Busy, Left, Job

LEMMA BusySlot ==
    ASSUME TypeOK, NEW w \in Slots, slot[w] # Idle, slot[w].pc # "completed"
    PROVE  /\ slot[w] \in Busy
           /\ slot[w].job \in Job /\ slot[w].job.run \in Runs
           /\ slot[w].job.stage \in Stages /\ slot[w].job.payload \in Payloads
           /\ slot[w].job.attempt \in 1 .. MaxAttempts
           /\ slot[w].entry \in Entry
  BY DEF TypeOK, Busy, Left, Job

\* A handler that is through leaves a job behind, or nothing.
LEMMA LeaveTypes ==
    ASSUME TypeOK, NEW w \in Slots, NEW job \in Job, job.attempt \in 1 .. MaxAttempts,
           Leave(w, job)
    PROVE  /\ slot' \in [Slots -> Busy \cup Left \cup {Idle}]
           /\ \A v \in Slots : slot'[v] # Idle =>
                /\ slot'[v].job.attempt \in 1 .. MaxAttempts
                /\ slot'[v].pc = "backoff" => slot'[v].job.attempt < MaxAttempts
PROOF
  <1>1. [pc |-> "completed", job |-> job] \in Left
    BY DEF Left
  <1> QED
    BY <1>1 DEF Leave, TypeOK

LEMMA RefusedTypes ==
    ASSUME TypeOK, EnqueueRefused
    PROVE  /\ spent' \in [resumes : 0 .. MaxResumes, crashes : 0 .. MaxCrashes,
                          edits : 0 .. MaxEdits, refusals : 0 .. MaxRefusals]
           /\ UNCHANGED pending
PROOF
  <1>1. spent \in [resumes : 0 .. MaxResumes, crashes : 0 .. MaxCrashes,
                   edits : 0 .. MaxEdits, refusals : 0 .. MaxRefusals]
    BY DEF TypeOK
  <1>2. spent.refusals + 1 \in 0 .. MaxRefusals
    BY <1>1, BoundsAssumption DEF EnqueueRefused
  <1> QED
    BY <1>1, <1>2 DEF EnqueueRefused

\* Every job enqueued is a job, with all its attempts ahead of it.
LEMMA EnqueueTypes ==
    ASSUME TypeOK, NEW r \in Runs, NEW s \in Stages, NEW p \in Payloads,
           Enqueue(r, s, p)
    PROVE  /\ pending' \in Seq(Job)
           /\ \A i \in DOMAIN pending' : pending'[i].attempt < MaxAttempts
PROOF
  <1>1. NewJob(r, s, p) \in Job /\ NewJob(r, s, p).attempt < MaxAttempts
    BY MaxAttemptsAssumption DEF NewJob, Job
  <1>2. pending \in Seq(Job)
    BY DEF TypeOK
  <1> QED
    BY <1>1, <1>2, AppendedJob DEF Enqueue, TypeOK

LEMMA TrackTypes ==
    ASSUME TypeOK, NEW r \in Runs, NEW p \in Payloads, Track(r, p)
    PROVE  /\ inFlight' \in [Runs -> Entry \cup {None}]
           /\ minted' \in [Runs -> Nat]
  BY DEF TypeOK, Track, NewEntry, Entry

LEMMA ArriveTypes ==
    ASSUME TypeOK, NEW w \in Slots, NEW job \in Job,
           job.attempt \in 1 .. MaxAttempts, Arrive(w, job)
    PROVE  /\ status' \in [Runs -> RunStatus \cup {"absent"}]
           /\ inFlight' \in [Runs -> Entry \cup {None}]
           /\ minted' \in [Runs -> Nat]
           /\ slot' \in [Slots -> Busy \cup Left \cup {Idle}]
           /\ \A v \in Slots : slot'[v] # Idle =>
                /\ slot'[v].job.attempt \in 1 .. MaxAttempts
                /\ slot'[v].pc = "backoff" => slot'[v].job.attempt < MaxAttempts
           /\ UNCHANGED <<currentStage, results, saving, aborted>>
PROOF
  <1>1. job.run \in Runs /\ job.payload \in Payloads
    BY DEF Job
  <1>2. EntryFor(job) \in Entry
    BY <1>1 DEF EntryFor, NewEntry, Entry, TypeOK
  <1>3. CASE status[job.run] \in Terminal
    BY <1>3, LeaveTypes DEF Arrive, MakeRunning, row, memory, TypeOK
  <1>4. CASE status[job.run] \notin Terminal
    <2>1. inFlight' \in [Runs -> Entry \cup {None}] /\ minted' \in [Runs -> Nat]
      BY <1>1, <1>4, TrackTypes DEF Arrive, MakeRunning, TypeOK
    <2>2. [pc |-> "picked", job |-> job, entry |-> EntryFor(job), done |-> IsDone(job)] \in Busy
      BY <1>2 DEF Busy, IsDone, Checkpointed
    <2>3. slot' = [slot EXCEPT ![w] = [pc |-> "picked", job |-> job,
                     entry |-> EntryFor(job), done |-> IsDone(job)]]
      BY <1>4 DEF Arrive, MakeRunning
    <2>4. status' \in [Runs -> RunStatus \cup {"absent"}]
      BY <1>4 DEF Arrive, MakeRunning, TypeOK, RunStatus
    <2>5. UNCHANGED <<currentStage, results, saving, aborted>>
      BY <1>4 DEF Arrive, MakeRunning
    <2> QED
      BY <2>1, <2>2, <2>3, <2>4, <2>5 DEF TypeOK
  <1> QED
    BY <1>3, <1>4

LEMMA AdvanceTypes ==
    ASSUME TypeOK, NEW w \in Slots, slot[w] # Idle, slot[w].pc # "completed", Advance(w)
    PROVE  /\ status' \in [Runs -> RunStatus \cup {"absent"}]
           /\ currentStage' \in [Runs -> Stages \cup {None}]
           /\ inFlight' \in [Runs -> Entry \cup {None}]
           /\ minted' \in [Runs -> Nat]
           /\ pending' \in Seq(Job)
           /\ \A i \in DOMAIN pending' : pending'[i].attempt < MaxAttempts
           /\ slot' \in [Slots -> Busy \cup Left \cup {Idle}]
           /\ \A v \in Slots : slot'[v] # Idle =>
                /\ slot'[v].job.attempt \in 1 .. MaxAttempts
                /\ slot'[v].pc = "backoff" => slot'[v].job.attempt < MaxAttempts
           /\ spent' \in [resumes : 0 .. MaxResumes, crashes : 0 .. MaxCrashes,
                          edits : 0 .. MaxEdits, refusals : 0 .. MaxRefusals]
PROOF
  <1> DEFINE job == slot[w].job
  <1>1. job.run \in Runs /\ job.stage \in Stages /\ slot[w].entry.payload \in Payloads
    BY BusySlot DEF Entry
  <1>2. /\ slot' \in [Slots -> Busy \cup Left \cup {Idle}]
        /\ \A v \in Slots : slot'[v] # Idle =>
             /\ slot'[v].job.attempt \in 1 .. MaxAttempts
             /\ slot'[v].pc = "backoff" => slot'[v].job.attempt < MaxAttempts
    BY HeldJob, LeaveTypes DEF Advance
  <1>3. CASE LastStage(job.stage)
    BY <1>1, <1>2, <1>3 DEF Advance, Untrack, TypeOK, RunStatus
  <1>4. CASE ~LastStage(job.stage)
    <2>1. job.stage + 1 \in Stages
      BY <1>1, <1>4, NumStagesAssumption DEF LastStage, Stages
    <2>2. UNCHANGED <<status, currentStage, inFlight, minted>>
      BY <1>4 DEF Advance
    <2>3. CASE Enqueue(job.run, job.stage + 1, slot[w].entry.payload)
      BY <1>1, <1>2, <2>1, <2>2, <2>3, EnqueueTypes DEF Enqueue, TypeOK
    <2>4. CASE EnqueueRefused
      BY <1>2, <2>2, <2>4, RefusedTypes DEF TypeOK
    <2> QED
      BY <1>4, <2>3, <2>4 DEF Advance
  <1> QED
    BY <1>3, <1>4

LEMMA FailTypes ==
    ASSUME TypeOK, NEW w \in Slots, slot[w] # Idle, Fail(w)
    PROVE  /\ status' \in [Runs -> RunStatus \cup {"absent"}]
           /\ inFlight' \in [Runs -> Entry \cup {None}]
           /\ slot' \in [Slots -> Busy \cup Left \cup {Idle}]
           /\ \A v \in Slots : slot'[v] # Idle =>
                /\ slot'[v].job.attempt \in 1 .. MaxAttempts
                /\ slot'[v].pc = "backoff" => slot'[v].job.attempt < MaxAttempts
           /\ UNCHANGED <<currentStage, minted, pending, spent>>
PROOF
  <1>1. Leave(w, slot[w].job) /\ slot[w].job \in Job
        /\ slot[w].job.attempt \in 1 .. MaxAttempts /\ slot[w].job.run \in Runs
    BY HeldJob DEF Fail
  <1> QED
    BY <1>1, LeaveTypes DEF Fail, Untrack, TypeOK, RunStatus

LEMMA TypeInit == Init => TypeOK
  BY BoundsAssumption
     DEF Init, TypeOK, RunStatus, Result, NoResult

\* A result is recorded for a stage of a run, with the hash of its payload.
LEMMA RecordTypes ==
    ASSUME TypeOK, NEW r \in Runs, NEW s \in Stages,
           NEW outcome \in {"succeeded", "failed", "cancelled"},
           NEW hash \in Payloads \cup {None}, Record(r, s, outcome, hash)
    PROVE  results' \in [Runs -> [Stages -> Result]]
  BY DEF TypeOK, Record, Result

LEMMA LoseMemoryTypes ==
    ASSUME TypeOK, IsFiniteSet(Slots), NEW cutOff \in SUBSET Runs, LoseMemory(cutOff),
           status' \in [Runs -> RunStatus \cup {"absent"}],
           currentStage' \in [Runs -> Stages \cup {None}],
           results' \in [Runs -> [Stages -> Result]]
    PROVE  TypeOK'
PROOF
  <1>1. /\ pending' \in Seq(Job)
        /\ \A i \in DOMAIN pending' : pending'[i].attempt < MaxAttempts
    <2>1. CASE Durable
      <3>1. PICK jobs \in Redelivered : pending' = pending \o jobs
        BY <2>1 DEF LoseMemory
      <3>2. pending \in Seq(Job) /\ jobs \in Seq(Job)
        BY RedeliveredJobs DEF TypeOK
      <3>3. pending' \in Seq(Job)
        BY <3>1, <3>2
      <3>4. \A i \in DOMAIN pending' : pending'[i].attempt < MaxAttempts
        <4> SUFFICES ASSUME NEW i \in DOMAIN pending'
                     PROVE  pending'[i].attempt < MaxAttempts
          OBVIOUS
        <4>1. CASE i \in DOMAIN pending
          BY <3>1, <3>2, <4>1 DEF TypeOK
        <4>2. CASE i \notin DOMAIN pending
          <5>1. i - Len(pending) \in DOMAIN jobs
                /\ pending'[i] = jobs[i - Len(pending)]
            BY <3>1, <3>2, <4>2
          <5> QED
            BY <5>1, RedeliveredJobs
        <4> QED
          BY <4>1, <4>2
      <3> QED
        BY <3>3, <3>4
    <2>2. CASE ~Durable
      <3>1. pending' = <<>>
        BY <2>2 DEF LoseMemory
      <3> QED
        BY <3>1
    <2> QED
      BY <2>1, <2>2
  <1>2. spent' \in [resumes : 0 .. MaxResumes, crashes : 0 .. MaxCrashes,
                    edits : 0 .. MaxEdits, refusals : 0 .. MaxRefusals]
    <2>1. spent \in [resumes : 0 .. MaxResumes, crashes : 0 .. MaxCrashes,
                     edits : 0 .. MaxEdits, refusals : 0 .. MaxRefusals]
      BY DEF TypeOK
    <2>2. spent.crashes + 1 \in 0 .. MaxCrashes
      BY <2>1, BoundsAssumption DEF LoseMemory
    <2> QED
      BY <2>1, <2>2 DEF LoseMemory
  <1>3. astray' \in SUBSET Runs
    BY DEF LoseMemory, TypeOK
  <1> QED
    BY <1>1, <1>2, <1>3 DEF LoseMemory, TypeOK

\* A worker's step keeps the types.
LEMMA WorkerTypes ==
    ASSUME TypeOK, NEW w \in Slots, WorkerStep(w)
    PROVE  TypeOK'
PROOF
  <1>1. CASE PickUp(w)
    <2>1. pending \in Seq(Job) /\ pending # <<>>
      BY <1>1 DEF PickUp, TypeOK
    <2>2. Head(pending) \in Job /\ Head(pending).attempt < MaxAttempts
      BY <2>1, TakenJob DEF TypeOK
    <2>3. Attempt(Head(pending)) \in Job
          /\ Attempt(Head(pending)).attempt \in 1 .. MaxAttempts
      BY <2>2, MaxAttemptsAssumption DEF Attempt, Job
    <2>4. Arrive(w, Attempt(Head(pending)))
      BY <1>1 DEF PickUp
    <2>5. pending' \in Seq(Job)
          /\ \A i \in DOMAIN pending' : pending'[i].attempt < MaxAttempts
      BY <1>1, <2>1, TakenJob DEF PickUp, TypeOK
    <2>6. UNCHANGED <<stored, request, aside>>
      BY <1>1 DEF PickUp
    <2> QED
      BY <2>3, <2>4, <2>5, <2>6, ArriveTypes DEF TypeOK, aside
  <1>2. CASE Decide(w)
    <2>0. slot[w] # Idle /\ slot[w].pc # "completed"
          /\ UNCHANGED <<results, stored, saving, aborted, request, setup, astray>>
      BY <1>2 DEF Decide, Idle
    <2>1. CASE Fail(w)
      BY <2>0, <2>1, FailTypes DEF TypeOK
    <2>2. CASE Advance(w)
      BY <2>0, <2>2, AdvanceTypes DEF TypeOK
    <2>3. CASE /\ Leave(w, slot[w].job)
               /\ UNCHANGED <<status, currentStage, inFlight, minted, pending, spent>>
      <3>1. slot[w].job \in Job /\ slot[w].job.attempt \in 1 .. MaxAttempts
        BY <2>0, HeldJob
      <3> QED
        BY <2>0, <2>3, <3>1, LeaveTypes DEF TypeOK
    <2>4. CASE /\ currentStage' = [currentStage EXCEPT ![slot[w].job.run] = slot[w].job.stage]
               /\ slot' = [slot EXCEPT ![w].pc = "executing"]
               /\ UNCHANGED <<status, inFlight, minted, pending, spent>>
      <3>1. [slot[w] EXCEPT !.pc = "executing"] \in Busy
            /\ [slot[w] EXCEPT !.pc = "executing"].job = slot[w].job
        BY <2>0, BusySlot DEF Busy
      <3>2. slot' \in [Slots -> Busy \cup Left \cup {Idle}]
        BY <2>4, <3>1 DEF TypeOK
      <3>3. \A v \in Slots : slot'[v] # Idle =>
              /\ slot'[v].job.attempt \in 1 .. MaxAttempts
              /\ slot'[v].pc = "backoff" => slot'[v].job.attempt < MaxAttempts
        BY <2>0, <2>4, <3>1, BusySlot DEF TypeOK
      <3>4. currentStage' \in [Runs -> Stages \cup {None}]
        BY <2>0, <2>4, BusySlot DEF TypeOK
      <3> QED
        BY <2>0, <2>4, <3>2, <3>3, <3>4 DEF TypeOK
    <2> QED
      BY <1>2, <2>1, <2>2, <2>3, <2>4 DEF Decide
  <1>3. CASE BackoffEnds(w)
    \* Only a job with an attempt left backs off.
    <2>1. slot[w] # Idle /\ slot[w].job \in Job /\ slot[w].job.attempt \in 1 .. MaxAttempts
          /\ slot[w].job.attempt < MaxAttempts /\ slot[w].job.attempt + 1 \in 1 .. MaxAttempts
      BY <1>3, HeldJob, MaxAttemptsAssumption DEF BackoffEnds, Idle, TypeOK
    <2>2. UNCHANGED <<stored, request, aside>>
      BY <1>3 DEF BackoffEnds
    <2>3. CASE ~Durable
      <3>1. Attempt(slot[w].job) \in Job /\ Attempt(slot[w].job).attempt \in 1 .. MaxAttempts
        BY <2>1 DEF Attempt, Job
      <3>2. Arrive(w, Attempt(slot[w].job)) /\ UNCHANGED pending
        BY <1>3, <2>3 DEF BackoffEnds
      <3> QED
        BY <2>2, <3>1, <3>2, ArriveTypes DEF TypeOK, aside
    <2>4. CASE Durable
      <3>1. /\ slot' = [slot EXCEPT ![w] = Idle] /\ UNCHANGED <<row, memory>>
            /\ pending' = Append(pending, slot[w].job)
        BY <1>3, <2>4 DEF BackoffEnds
      <3>2. pending' \in Seq(Job) /\ \A i \in DOMAIN pending' : pending'[i].attempt < MaxAttempts
        BY <2>1, <3>1, AppendedJob DEF TypeOK
      <3> QED
        BY <2>2, <3>1, <3>2 DEF TypeOK, row, memory, aside
    <2> QED
      BY <2>3, <2>4
  <1>4. CASE StageAborted(w)
    <2>1. slot[w].job \in Job /\ slot[w].job.attempt \in 1 .. MaxAttempts
      BY <1>4, HeldJob DEF StageAborted, Idle
    <2> QED
      BY <1>4, <2>1, LeaveTypes DEF StageAborted, row, memory, aside, TypeOK
  <1>5. CASE StageFailsRetryably(w)
    <2> DEFINE job == slot[w].job
    <2>1. slot[w].pc = "executing" /\ slot[w] # Idle
      BY <1>5 DEF StageFailsRetryably, Returns, Idle
    <2>2. slot[w] \in Busy /\ job \in Job /\ job.run \in Runs /\ job.stage \in Stages
          /\ job.payload \in Payloads /\ job.attempt \in 1 .. MaxAttempts
      BY <2>1, BusySlot
    <2>3. results' \in [Runs -> [Stages -> Result]]
      BY <1>5, <2>2, RecordTypes DEF StageFailsRetryably
    <2>4. UNCHANGED <<status, currentStage, stored, memory, pending, request, aside>>
      BY <1>5 DEF StageFailsRetryably
    <2>5. CASE ~LastAttempt(job)
      <3>1. slot' = [slot EXCEPT ![w].pc = "backoff"]
        BY <1>5, <2>5 DEF StageFailsRetryably
      <3>2. [slot[w] EXCEPT !.pc = "backoff"] \in Busy
            /\ [slot[w] EXCEPT !.pc = "backoff"].job = job
        BY <2>2 DEF Busy
      <3>3. job.attempt < MaxAttempts
        BY <2>2, <2>5, MaxAttemptsAssumption DEF LastAttempt
      <3> QED
        BY <2>2, <2>3, <2>4, <3>1, <3>2, <3>3 DEF TypeOK, memory, aside
    <2>6. CASE LastAttempt(job)
      <3>1. Leave(w, job)
        BY <1>5, <2>6 DEF StageFailsRetryably
      <3> QED
        BY <2>2, <2>3, <2>4, <3>1, LeaveTypes DEF TypeOK, memory, aside
    <2> QED
      BY <2>5, <2>6
  <1>6. CASE Proceed(w)
    <2>1. slot[w] # Idle /\ slot[w].pc # "completed"
          /\ UNCHANGED <<results, stored, saving, aborted, request, setup, astray>>
      BY <1>6 DEF Proceed, Idle
    <2>2. CASE Fail(w)
      BY <2>1, <2>2, FailTypes DEF TypeOK
    <2>3. CASE Advance(w)
      BY <2>1, <2>3, AdvanceTypes DEF TypeOK
    <2> QED
      BY <1>6, <2>2, <2>3 DEF Proceed
  <1>7. ASSUME NEW outcome \in {"succeeded", "failed"}, StageSettles(w, outcome)
        PROVE  TypeOK'
    <2>1. slot[w] # Idle /\ slot[w].pc # "completed"
      BY <1>7 DEF StageSettles, Returns, Idle
    <2>2. results' \in [Runs -> [Stages -> Result]]
      BY <1>7, <2>1, BusySlot, RecordTypes DEF StageSettles
    <2>3. [slot[w] EXCEPT !.pc = outcome] \in Busy
          /\ [slot[w] EXCEPT !.pc = outcome].job = slot[w].job
          /\ [slot[w] EXCEPT !.pc = outcome].pc # "backoff"
      BY <2>1, BusySlot DEF Busy
    <2>4. slot' = [slot EXCEPT ![w].pc = outcome]
          /\ UNCHANGED <<status, currentStage, stored, memory, pending, request, aside>>
      BY <1>7 DEF StageSettles
    <2> QED
      BY <2>1, <2>2, <2>3, <2>4, BusySlot DEF TypeOK, memory, aside
  <1>8. CASE Acknowledge(w)
    BY <1>8 DEF Acknowledge, TypeOK, row, memory, aside
  <1> QED
    BY <1>1, <1>2, <1>3, <1>4, <1>5, <1>6, <1>7, <1>8 DEF WorkerStep

\* A client's step keeps the types: starting, cancelling, resuming.
LEMMA ClientTypes ==
    ASSUME TypeOK, NEW r \in Runs
    PROVE  /\ \A p \in Payloads : StartCreates(r, p) => TypeOK'
           /\ StartSaves(r) => TypeOK'
           /\ StartFailsToSave(r) => TypeOK'
           /\ Cancel(r) => TypeOK'
           /\ \A p \in Payloads \cup {None} : PayloadChanges(r, p) => TypeOK'
           /\ \A q \in Requests : ResumeReads(q, r) => TypeOK'
PROOF
  <1>1. ASSUME NEW p \in Payloads, StartCreates(r, p) PROVE TypeOK'
    BY <1>1 DEF StartCreates, TypeOK, RunStatus, aside
  <1>2. ASSUME StartSaves(r) PROVE TypeOK'
    <2>1. saving[r] \in Payloads /\ 1 \in Stages
      BY <1>2, NumStagesAssumption DEF StartSaves, TypeOK, Stages
    <2>2. Track(r, saving[r]) /\ UNCHANGED <<row, aborted, slot, request, setup, astray>>
      BY <1>2 DEF StartSaves
    <2>3. CASE Enqueue(r, 1, saving[r])
      BY <1>2, <2>1, <2>2, <2>3, TrackTypes, EnqueueTypes DEF StartSaves, Enqueue, TypeOK, row
    <2>4. CASE EnqueueRefused
      BY <1>2, <2>1, <2>2, <2>4, TrackTypes, RefusedTypes DEF StartSaves, TypeOK, row
    <2> QED
      BY <1>2, <2>3, <2>4 DEF StartSaves
  <1>3. ASSUME StartFailsToSave(r) PROVE TypeOK'
    BY <1>3 DEF StartFailsToSave, TypeOK, row, aside
  <1>4. ASSUME Cancel(r) PROVE TypeOK'
    <2>1. results' \in [Runs -> [Stages -> Result]]
      BY <1>4, RecordTypes DEF Cancel, TypeOK
    <2>2. aborted' \in [Runs -> SUBSET Nat]
      BY <1>4 DEF Cancel, TypeOK, Entry
    <2> QED
      BY <1>4, <2>1, <2>2 DEF Cancel, Untrack, TypeOK, RunStatus, aside
  <1>5. ASSUME NEW p \in Payloads \cup {None}, PayloadChanges(r, p) PROVE TypeOK'
    <2>1. spent' \in [resumes : 0 .. MaxResumes, crashes : 0 .. MaxCrashes, edits : 0 .. MaxEdits, refusals : 0 .. MaxRefusals]
      <3>1. spent \in [resumes : 0 .. MaxResumes, crashes : 0 .. MaxCrashes, edits : 0 .. MaxEdits, refusals : 0 .. MaxRefusals]
        BY DEF TypeOK
      <3>2. spent.edits + 1 \in 0 .. MaxEdits
        BY <1>5, <3>1, BoundsAssumption DEF PayloadChanges
      <3> QED
        BY <1>5, <3>1, <3>2 DEF PayloadChanges
    <2> QED
      BY <1>5, <2>1 DEF PayloadChanges, TypeOK, row, memory
  <1>6. ASSUME NEW q \in Requests, ResumeReads(q, r) PROVE TypeOK'
    <2>1. spent' \in [resumes : 0 .. MaxResumes, crashes : 0 .. MaxCrashes, edits : 0 .. MaxEdits, refusals : 0 .. MaxRefusals]
      <3>1. spent \in [resumes : 0 .. MaxResumes, crashes : 0 .. MaxCrashes, edits : 0 .. MaxEdits, refusals : 0 .. MaxRefusals]
        BY DEF TypeOK
      <3>2. spent.resumes + 1 \in 0 .. MaxResumes
        BY <1>6, <3>1, BoundsAssumption DEF ResumeReads
      <3> QED
        BY <1>6, <3>1, <3>2 DEF ResumeReads
    <2>2. request' \in [Requests -> Loading \cup Refused \cup {Idle}]
      <3>1. [pc |-> "loading", run |-> r, results |-> results[r]] \in Loading
        BY DEF Loading, TypeOK
      <3>2. [pc |-> "refused", run |-> r] \in Refused
        BY DEF Refused
      <3> QED
        BY <1>6, <3>1, <3>2 DEF ResumeReads, TypeOK
    <2> QED
      BY <1>6, <2>1, <2>2 DEF ResumeReads, TypeOK, RunStatus, memory
  <1> QED
    BY <1>1, <1>2, <1>3, <1>4, <1>5, <1>6

LEMMA LoadTypes ==
    ASSUME TypeOK, NEW q \in Requests
    PROVE  /\ ResumeFindsNoPayload(q) => TypeOK'
           /\ ResumeLoads(q) => TypeOK'
PROOF
  <1>1. ASSUME ResumeFindsNoPayload(q) PROVE TypeOK'
    BY <1>1 DEF ResumeFindsNoPayload, TypeOK, row, memory, aside
  <1>2. ASSUME ResumeLoads(q) PROVE TypeOK'
    <2> DEFINE r == request[q].run
               p == stored[r]
               s == FirstStageToRun(request[q].results, p)
    <2>1. request[q] \in Loading /\ r \in Runs
      BY <1>2 DEF ResumeLoads, TypeOK, Loading, Refused, Idle
    <2>2. p \in Payloads
      BY <1>2, <2>1 DEF ResumeLoads, TypeOK
    <2>3. request' = [request EXCEPT ![q] = Idle]
          /\ UNCHANGED <<currentStage, results, stored, saving, aborted, slot, setup>>
      BY <1>2 DEF ResumeLoads
    <2>4. CASE ~MayMove(status[r], "queued")
      BY <1>2, <2>3, <2>4 DEF ResumeLoads, TypeOK
    <2>5. CASE MayMove(status[r], "queued")
      <3>1. status' = [status EXCEPT ![r] = "queued"] /\ astray' \in SUBSET Runs
        BY <1>2, <2>1, <2>5 DEF ResumeLoads, TypeOK
      <3>2. s \in Stages
        BY FirstStageExists
      <3>3. CASE Track(r, p) /\ Enqueue(r, s, p)
        <4>1. inFlight' \in [Runs -> Entry \cup {None}] /\ minted' \in [Runs -> Nat]
          BY <2>1, <2>2, <3>3, TrackTypes
        <4>2. pending' \in Seq(Job) /\ \A i \in DOMAIN pending' : pending'[i].attempt < MaxAttempts
          BY <2>1, <2>2, <3>2, <3>3, EnqueueTypes
        <4> QED
          BY <2>1, <2>3, <3>1, <3>3, <4>1, <4>2 DEF Enqueue, TypeOK, RunStatus
      <3>4. CASE EnqueueRefused /\ Untrack(r) /\ UNCHANGED minted
        BY <2>1, <2>3, <3>1, <3>4, RefusedTypes DEF Untrack, TypeOK, RunStatus
      <3> QED
        BY <1>2, <2>5, <3>3, <3>4 DEF ResumeLoads
    <2> QED
      BY <2>4, <2>5
  <1> QED
    BY <1>1, <1>2

LEMMA CrashTypes ==
    ASSUME TypeOK, IsFiniteSet(Slots)
    PROVE  /\ Crash => TypeOK'
           /\ CrashBetweenWrites => TypeOK'
PROOF
  <1>1. ASSUME Crash PROVE TypeOK'
    BY <1>1, LoseMemoryTypes DEF Crash, row, TypeOK
  <1>2. ASSUME CrashBetweenWrites PROVE TypeOK'
    <2>1. currentStage' \in [Runs -> Stages \cup {None}]
      BY <1>2 DEF CrashBetweenWrites, TypeOK
    <2>2. ASSUME NEW r \in Runs, currentStage[r] # None, UNCHANGED status,
                 Record(r, currentStage[r], "cancelled", None), LoseMemory({r})
          PROVE  TypeOK'
      <3>1. results' \in [Runs -> [Stages -> Result]]
        BY <2>2, RecordTypes DEF TypeOK
      <3> QED
        BY <2>1, <2>2, <3>1, LoseMemoryTypes DEF TypeOK
    <2>3. ASSUME NEW w \in Slots, UNCHANGED results, LoseMemory({}),
                 status' = [status EXCEPT ![slot[w].job.run] = "succeeded"]
          PROVE  TypeOK'
      BY <2>1, <2>3, LoseMemoryTypes DEF TypeOK, RunStatus
    <2> QED
      BY <1>2, <2>2, <2>3 DEF CrashBetweenWrites
  <1> QED
    BY <1>1, <1>2

LEMMA TypeStep ==
    ASSUME TypeOK, IsFiniteSet(Slots), [Next]_vars
    PROVE  TypeOK'
PROOF
  <1>1. CASE Next
    BY <1>1, WorkerTypes, ClientTypes, LoadTypes, CrashTypes DEF Next
  <1>2. CASE UNCHANGED vars
    BY <1>2 DEF vars, row, memory, aside, TypeOK
  <1> QED
    BY <1>1, <1>2

\* Every variable keeps its type, and no job is handled more than MaxAttempts
\* times, with either queue.
THEOREM TypeCorrect ==
    ASSUME IsFiniteSet(Slots)
    PROVE  Spec => []TypeOK
PROOF
  <1>1. Init => TypeOK
    BY TypeInit
  <1>2. TypeOK /\ [Next]_vars => TypeOK'
    BY TypeStep
  <1> QED
    BY <1>1, <1>2, PTL DEF Spec

-----------------------------------------------------------------------------
\* The invariant.

\* The slot's job is one of run r, also when only its report is missing.
Holds(w, r) == slot[w] # Idle /\ slot[w].job.run = r

\* Every stage before the job's is checkpointed on the job's payload.
Ready(job) ==
    \A before \in 1 .. job.stage - 1 :
        Checkpointed(results[job.run], before, job.payload)

\* A run without an entry in the map has a job only if Redis kept it over a crash.
KeptByRedis == Durable /\ spent.crashes > 0

\* The work in slot w, if its run goes on: the entry is the one in the map, what came
\* before it is there, it would hand on the payload it was given, and the checkpoint of
\* its own stage is what the handler takes it for.  If its run was cancelled, it knows.
WorkIsDue(w) ==
    LET r == slot[w].job.run
    IN /\ status[r] \notin Terminal =>
             /\ status[r] = "running"
             /\ inFlight[r] = slot[w].entry
             /\ Ready(slot[w].job)
             /\ slot[w].entry.payload = slot[w].job.payload
             /\ slot[w].pc = "picked" => slot[w].done = IsDone(slot[w].job)
             /\ slot[w].pc = "executing" => ~IsDone(slot[w].job)
             /\ slot[w].pc = "succeeded" => IsDone(slot[w].job)
       /\ status[r] = "cancelled" /\ slot[w].pc \in {"picked", "executing"} => Cancelled(w)

\* The job at place i of the queue, if its run goes on.
JobIsDue(i) ==
    LET r == pending[i].run
    IN status[r] \notin Terminal =>
          /\ Ready(pending[i])
          /\ IF inFlight[r] = None THEN KeptByRedis
             ELSE inFlight[r].payload = pending[i].payload

Complete(r) ==
    status[r] = "succeeded" =>
        \E p \in Payloads : \A s \in Stages : Checkpointed(results[r], s, p)

\* What holds of every run that has not gone astray.
Sound(r) ==
    /\ status[r] \notin Terminal => OneJob(r)
    /\ \A w \in Slots : Working(w, r) => WorkIsDue(w)
    /\ \A i \in DOMAIN pending : pending[i].run = r => JobIsDue(i)
    /\ Complete(r)
    /\ status[r] \in {"absent", "succeeded", "failed"} =>
          inFlight[r] = None /\ \A w \in Slots : ~Working(w, r)
    /\ status[r] \in {"succeeded", "failed"} /\ Waiting(r) => KeptByRedis
    /\ saving[r] # None =>
          /\ status[r] \in {"queued", "cancelled"}
          /\ inFlight[r] = None
          /\ ~HasJob(r)
    /\ status[r] = "absent" =>
          saving[r] = None /\ ~Waiting(r) /\ \A w \in Slots : ~Holds(w, r)

\* A resume loads the payload of a run that exists.
ResumedExists ==
    \A q \in Requests :
        request[q].pc = "loading" => status[request[q].run] # "absent"

Inv == TypeOK /\ ResumedExists /\ \A r \in Runs \ astray : Sound(r)

\* A step leaves the row of x alone, or moves it as RunLifecycle says.
RowMoves(x) ==
    \/ status'[x] = status[x] /\ results'[x] = results[x]
    \/ /\ results'[x] = results[x]
       /\ \/ status[x] = "absent" /\ status'[x] = "queued"
          \/ status[x] \in {"queued", "paused"} /\ status'[x] = "running"
          \/ status[x] = "running" /\ status'[x] = "failed"
          \/ status[x] = "failed" /\ status'[x] = "queued"
          \/ /\ status[x] = "running" /\ status'[x] = "succeeded"
             /\ \E p \in Payloads : \A s \in Stages : Checkpointed(results[x], s, p)
    \/ /\ status[x] \in {"queued", "running", "paused"}
       /\ status'[x] \in {status[x], "cancelled"}
       /\ \/ results'[x] = results[x]
          \/ \E s \in Stages : results'[x] =
                [results[x] EXCEPT ![s] = [status |-> "cancelled", hash |-> None]]
    \/ /\ status[x] = "running" /\ status'[x] = "running"
       /\ \E s \in Stages, p \in Payloads, outcome \in {"succeeded", "failed"} :
             /\ \A before \in 1 .. s - 1 : Checkpointed(results[x], before, p)
             /\ ~Checkpointed(results[x], s, p)
             /\ results'[x] = [results[x] EXCEPT ![s] = [status |-> outcome, hash |-> p]]

Sealed(x) ==
    status[x] \in {"succeeded", "cancelled"} => currentStage'[x] = currentStage[x]

\* What a step of somebody else leaves of x: its row and the map's entry, its jobs where
\* they were or all of them d places further, its handlers as they were or through.
RowKept(x) ==
    /\ status'[x] = status[x] /\ currentStage'[x] = currentStage[x]
    /\ results'[x] = results[x] /\ saving'[x] = saving[x]
    /\ inFlight'[x] = inFlight[x] /\ aborted'[x] = aborted[x]

QueueKept(x, d) ==
    \A i \in DOMAIN pending' : pending'[i].run = x =>
        i + d \in DOMAIN pending /\ pending[i + d] = pending'[i]

SlotsKept(x) ==
    \A w \in Slots : slot'[w] # Idle /\ slot'[w].job.run = x =>
        \/ slot'[w] = slot[w]
        \/ slot'[w].pc = "completed" /\ status[x] # "absent"

QueueIsTheSame == Durable' = Durable /\ spent'.crashes = spent.crashes

\* What a step does to a run that is not astray after it.
Kept(x) == Sound(x)' /\ RowMoves(x) /\ Sealed(x)

-----------------------------------------------------------------------------
\* What the invariant says of a run in three situations.

LEMMA EntryIsNotNone == None \notin Entry
  BY NoneAssumption DEF Entry

\* A handler at work: its run is running and it is the only job, or it was cancelled.
LEMMA AtWork ==
    ASSUME TypeOK, NEW x \in Runs, Sound(x), NEW w \in Slots, Working(w, x)
    PROVE  /\ status[x] \in {"running", "cancelled"}
           /\ saving[x] = None
           /\ WorkIsDue(w)
           /\ status[x] = "running" =>
                 /\ inFlight[x] = slot[w].entry
                 /\ \A v \in Slots : Working(v, x) => v = w
                 /\ ~Waiting(x)
PROOF
  <1>1. slot[w] # Idle /\ slot[w].job.run = x /\ WorkIsDue(w)
    BY DEF Sound, Working, Idle
  <1>2. status[x] \notin Terminal => status[x] = "running" /\ inFlight[x] = slot[w].entry
    BY <1>1 DEF WorkIsDue
  <1>3. status[x] \in {"running", "cancelled"}
    BY <1>2 DEF Sound, Terminal
  <1>4. saving[x] = None
    BY DEF Sound, HasJob
  <1>5. status[x] = "running" => OneJob(x)
    BY DEF Sound, Terminal
  <1> QED
    BY <1>1, <1>2, <1>3, <1>4, <1>5 DEF OneJob, Terminal

\* A job at the head of the queue: it is the only one, if its run goes on.
LEMMA FirstInLine ==
    ASSUME TypeOK, NEW x \in Runs, Sound(x), pending # <<>>, Head(pending).run = x,
           status[x] \notin Terminal
    PROVE  /\ status[x] # "absent" /\ saving[x] = None
           /\ JobIsDue(1) /\ Head(pending) = pending[1]
           /\ \A v \in Slots : ~Working(v, x)
           /\ \A i \in DOMAIN Tail(pending) : Tail(pending)[i].run # x
PROOF
  <1>1. pending \in Seq(Job)
    BY DEF TypeOK
  <1>2. 1 \in DOMAIN pending /\ Head(pending) = pending[1]
    BY <1>1, TakenJob
  <1>3. Waiting(x) /\ JobIsDue(1)
    BY <1>2 DEF Waiting, Sound
  <1>4. OneJob(x)
    BY DEF Sound
  <1>5. \A i \in DOMAIN Tail(pending) : Tail(pending)[i].run # x
    BY <1>1, <1>2, <1>4, TakenJob DEF OneJob
  <1> QED
    BY <1>2, <1>3, <1>4, <1>5 DEF OneJob, Sound, HasJob

\* Nobody holds the run: no handler, and a job only if Redis kept it.
LEMMA NotInFlight ==
    ASSUME TypeOK, NEW x \in Runs, Sound(x), inFlight[x] = None,
           status[x] # "cancelled", status[x] # "absent"
    PROVE  /\ \A w \in Slots : ~Working(w, x)
           /\ Waiting(x) => KeptByRedis
PROOF
  <1>1. ASSUME NEW w \in Slots, Working(w, x) PROVE FALSE
    <2>1. status[x] = "running" /\ inFlight[x] = slot[w].entry
      BY <1>1, AtWork
    <2>2. slot[w].entry \in Entry
      BY <1>1, BusySlot DEF Working, Idle
    <2> QED
      BY <2>1, <2>2, EntryIsNotNone
  <1>2. ASSUME Waiting(x) PROVE KeptByRedis
    <2>1. PICK i \in DOMAIN pending : pending[i].run = x
      BY <1>2 DEF Waiting
    <2>2. CASE status[x] \notin Terminal
      BY <2>1, <2>2 DEF Sound, JobIsDue
    <2>3. CASE status[x] \in Terminal
      BY <1>2, <2>3 DEF Sound, Terminal
    <2> QED
      BY <2>2, <2>3
  <1> QED
    BY <1>1, <1>2

-----------------------------------------------------------------------------
\* Four situations in which the next state is sound of a run.

\* The step is another's: the row and the map's entry are as they were, its jobs are
\* where they were or one place further, its handlers are as they were or through.
LEMMA UntouchedRun ==
    ASSUME TypeOK, TypeOK', NEW x \in Runs, Sound(x), NEW d \in {0, 1},
           RowKept(x), QueueKept(x, d), SlotsKept(x), QueueIsTheSame
    PROVE  Kept(x)
PROOF
  <1>1. \A w \in Slots : Working(w, x)' => Working(w, x) /\ slot'[w] = slot[w]
    BY DEF SlotsKept, Working, Idle
  <1>2. Waiting(x)' => Waiting(x)
    BY DEF QueueKept, Waiting
  <1>3. HasJob(x)' => HasJob(x)
    BY <1>1, <1>2 DEF HasJob
  <1>4. ASSUME OneJob(x) PROVE OneJob(x)'
    <2>1. pending' \in Seq(Job)
      BY DEF TypeOK
    <2>2. \A i, j \in DOMAIN pending' :
            pending'[i].run = x /\ pending'[j].run = x => i = j
      <3> SUFFICES ASSUME NEW i \in DOMAIN pending', NEW j \in DOMAIN pending',
                          pending'[i].run = x, pending'[j].run = x
                   PROVE  i = j
        OBVIOUS
      <3>1. i \in Nat /\ j \in Nat
        BY <2>1
      <3>2. i + d = j + d
        BY <1>4 DEF QueueKept, OneJob
      <3> QED
        BY <3>1, <3>2
    <2> QED
      BY <1>1, <1>2, <1>4, <2>2 DEF OneJob
  <1>5. ASSUME NEW w \in Slots, Working(w, x)' PROVE WorkIsDue(w)'
    <2>1. WorkIsDue(w) /\ slot'[w] = slot[w] /\ slot[w].job.run = x
      BY <1>1, <1>5 DEF Sound, Working
    <2> QED
      BY <2>1 DEF RowKept, WorkIsDue, Ready, IsDone, Cancelled
  <1>6. ASSUME NEW i \in DOMAIN pending', pending'[i].run = x PROVE JobIsDue(i)'
    <2>1. i + d \in DOMAIN pending /\ pending[i + d] = pending'[i] /\ JobIsDue(i + d)
      BY <1>6 DEF QueueKept, Sound
    <2> QED
      BY <1>6, <2>1 DEF RowKept, QueueIsTheSame, JobIsDue, Ready, KeptByRedis
  <1>7. status[x] = "absent" => \A w \in Slots : ~Holds(w, x)'
    BY DEF SlotsKept, Sound, Holds
  <1> QED
    BY <1>1, <1>2, <1>3, <1>4, <1>5, <1>6, <1>7 
       DEF Sound, Complete, KeptByRedis, RowKept, QueueIsTheSame, Kept, RowMoves, Sealed

\* Its one job is in slot w, or it has none.
LEMMA SoundAtWork ==
    ASSUME NEW x \in Runs, NEW w \in Slots,
           status'[x] \in {"queued", "running", "paused"}, saving'[x] = None, ~Waiting(x)',
           \A v \in Slots : Working(v, x)' => v = w,
           Working(w, x)' => WorkIsDue(w)'
    PROVE  Sound(x)'
PROOF
  <1>1. OneJob(x)'
    BY DEF OneJob, Waiting
  <1>2. \A i \in DOMAIN pending' : pending'[i].run # x
    BY DEF Waiting
  <1> QED
    BY <1>1, <1>2 DEF Sound, Complete

\* Its one job is in the queue, or it has none.
LEMMA SoundInLine ==
    ASSUME NEW x \in Runs,
           status'[x] \in {"queued", "running", "paused"}, saving'[x] = None,
           \A v \in Slots : ~Working(v, x)',
           \A i, j \in DOMAIN pending' : pending'[i].run = x /\ pending'[j].run = x => i = j,
           \A i \in DOMAIN pending' : pending'[i].run = x => JobIsDue(i)'
    PROVE  Sound(x)'
PROOF
  <1>1. OneJob(x)'
    BY DEF OneJob
  <1> QED
    BY <1>1 DEF Sound, Complete

\* It is over: nothing is at work on it, and a job of it was kept by Redis.
LEMMA SoundAtRest ==
    ASSUME NEW x \in Runs, status'[x] \in {"failed", "succeeded"}, saving'[x] = None,
           inFlight'[x] = None, \A v \in Slots : ~Working(v, x)',
           Waiting(x)' => KeptByRedis', Complete(x)'
    PROVE  Sound(x)'
PROOF
  <1>1. \A i \in DOMAIN pending' : pending'[i].run = x => JobIsDue(i)'
    BY DEF JobIsDue, Terminal
  <1> QED
    BY <1>1 DEF Sound, Terminal

\* It was cancelled, and whoever works on it knows.
LEMMA SoundCancelled ==
    ASSUME NEW x \in Runs, status'[x] = "cancelled", saving'[x] = None,
           \A w \in Slots : Working(w, x)' /\ slot'[w].pc \in {"picked", "executing"}
               => Cancelled(w)'
    PROVE  Sound(x)'
PROOF
  <1>1. \A w \in Slots : Working(w, x)' => WorkIsDue(w)'
    BY DEF WorkIsDue, Working, Terminal
  <1>2. \A i \in DOMAIN pending' : pending'[i].run = x => JobIsDue(i)'
    BY DEF JobIsDue, Terminal
  <1> QED
    BY <1>1, <1>2 DEF Sound, Terminal, Complete

-----------------------------------------------------------------------------
\* What steps of others are to x.

LEMMA SameQueue ==
    ASSUME TypeOK, NEW x \in Runs, UNCHANGED pending
    PROVE  QueueKept(x, 0)
PROOF
  <1>1. \A i \in DOMAIN pending : i + 0 = i
    BY DEF TypeOK
  <1> QED
    BY <1>1 DEF QueueKept

LEMMA OtherJobEnqueued ==
    ASSUME TypeOK, NEW x \in Runs, NEW j \in Job, j.run # x, pending' = Append(pending, j)
    PROVE  QueueKept(x, 0)
PROOF
  <1>1. pending \in Seq(Job)
    BY DEF TypeOK
  <1>2. \A i \in DOMAIN pending : i + 0 = i
    BY <1>1
  <1> QED
    BY <1>1, <1>2, AppendedJob DEF QueueKept

LEMMA OtherRunEnqueued ==
    ASSUME TypeOK, NEW x \in Runs, NEW r \in Runs, r # x, NEW s \in Stages,
           NEW p \in Payloads, Enqueue(r, s, p) \/ EnqueueRefused
    PROVE  QueueKept(x, 0) /\ spent'.crashes = spent.crashes
PROOF
  <1>1. CASE Enqueue(r, s, p)
    <2>1. NewJob(r, s, p) \in Job /\ NewJob(r, s, p).run # x
      BY DEF NewJob, Job
    <2> QED
      BY <1>1, <2>1, OtherJobEnqueued DEF Enqueue
  <1>2. CASE EnqueueRefused
    BY <1>2, SameQueue DEF EnqueueRefused, TypeOK
  <1> QED
    BY <1>1, <1>2

LEMMA FirstTaken ==
    ASSUME TypeOK, NEW x \in Runs, pending # <<>>, pending' = Tail(pending)
    PROVE  QueueKept(x, 1)
PROOF
  <1>1. pending \in Seq(Job)
    BY DEF TypeOK
  <1> QED
    BY <1>1, TakenJob DEF QueueKept

LEMMA SameSlots ==
    ASSUME NEW x, UNCHANGED slot
    PROVE  SlotsKept(x)
  BY DEF SlotsKept

LEMMA SlotGivenUp ==
    ASSUME TypeOK, NEW x \in Runs, NEW w \in Slots, NEW job \in Job, Leave(w, job)
    PROVE  /\ \A v \in Slots : v # w => slot'[v] = slot[v]
           /\ ~Working(w, x)'
           /\ job.run # x \/ status[x] # "absent" => SlotsKept(x)
PROOF
  <1>1. /\ \A v \in Slots : v # w => slot'[v] = slot[v]
        /\ slot'[w] = IF Durable THEN [pc |-> "completed", job |-> job] ELSE Idle
    BY DEF Leave, TypeOK
  <1> QED
    BY <1>1 DEF Working, SlotsKept, Idle

-----------------------------------------------------------------------------
\* Starting, cancelling, editing.

LEMMA StartKeeps ==
    ASSUME TypeOK, TypeOK', NEW x \in Runs, Sound(x), NEW r \in Runs
    PROVE  /\ \A p \in Payloads : StartCreates(r, p) => Kept(x)
           /\ StartSaves(r) => Kept(x)
           /\ StartFailsToSave(r) => Kept(x)
           /\ \A p \in Payloads \cup {None} : PayloadChanges(r, p) => Kept(x)
PROOF
  <1>1. ASSUME NEW p \in Payloads, StartCreates(r, p) PROVE Kept(x)
    <2>0. SlotsKept(x) /\ QueueKept(x, 0) /\ QueueIsTheSame
      BY <1>1, SameSlots, SameQueue DEF StartCreates, QueueIsTheSame, Durable, aside
    <2>1. CASE r # x
      BY <1>1, <2>0, <2>1, UntouchedRun DEF StartCreates, RowKept, TypeOK
    <2>2. CASE r = x
      <3>1. /\ status[x] = "absent" /\ status'[x] = "queued" /\ results'[x] = results[x]
            /\ UNCHANGED <<pending, slot, inFlight>>
        BY <1>1, <2>2 DEF StartCreates, TypeOK
      <3>2. inFlight[x] = None /\ ~HasJob(x)
        BY <3>1 DEF Sound, HasJob, Holds, Working, Idle
      <3>3. ~HasJob(x)' /\ inFlight'[x] = None
        BY <3>1, <3>2 DEF HasJob, Waiting, Working
      <3>4. OneJob(x)' /\ \A i \in DOMAIN pending' : pending'[i].run # x
        BY <3>3 DEF OneJob, HasJob, Waiting
      <3> QED
        BY <3>1, <3>3, <3>4 DEF Sound, HasJob, Complete, Kept, RowMoves, Sealed
    <2> QED
      BY <2>1, <2>2
  <1>2. ASSUME StartSaves(r) PROVE Kept(x)
    <2>1. /\ saving[r] \in Payloads /\ 1 \in Stages
          /\ Track(r, saving[r])
          /\ Enqueue(r, 1, saving[r]) \/ EnqueueRefused
          /\ UNCHANGED <<row, aborted, slot, setup>>
          /\ saving' = [saving EXCEPT ![r] = None]
      BY <1>2, NumStagesAssumption DEF StartSaves, TypeOK, Stages
    <2>2. CASE r # x
      <3>1. RowKept(x) /\ SlotsKept(x)
        BY <2>1, <2>2, SameSlots DEF RowKept, Track, row, TypeOK
      <3>2. QueueKept(x, 0) /\ spent'.crashes = spent.crashes
        BY <2>1, <2>2, OtherRunEnqueued
      <3> QED
        BY <2>1, <3>1, <3>2, UntouchedRun DEF QueueIsTheSame, Durable
    <2>3. CASE r = x
      <3>1. /\ status[x] \in {"queued", "cancelled"} /\ ~HasJob(x) /\ saving[x] # None
        BY <1>2, <2>3 DEF StartSaves, Sound
      <3>2. /\ status'[x] = status[x] /\ results'[x] = results[x] /\ saving'[x] = None
            /\ currentStage'[x] = currentStage[x]
            /\ inFlight'[x] = NewEntry(x, saving[x])
            /\ \A v \in Slots : ~Working(v, x)'
        BY <2>1, <2>3, <3>1 DEF Track, row, TypeOK, HasJob, Working
      <3>3. \A i \in DOMAIN pending' : pending'[i].run = x =>
              i = Len(pending) + 1 /\ pending'[i] = NewJob(x, 1, saving[x])
        <4>1. pending \in Seq(Job) /\ NewJob(x, 1, saving[x]) \in Job
          BY <2>1, <2>3 DEF TypeOK, NewJob, Job
        <4>2. CASE Enqueue(r, 1, saving[r])
          BY <2>3, <3>1, <4>1, <4>2, AppendedJob DEF Enqueue, HasJob, Waiting
        <4>3. CASE EnqueueRefused
          BY <3>1, <4>3 DEF EnqueueRefused, HasJob, Waiting
        <4> QED
          BY <2>1, <4>2, <4>3
      <3>4. NewEntry(x, saving[x]).payload = saving[x] /\ NewEntry(x, saving[x]) # None
        BY <2>1, <2>3, EntryIsNotNone DEF NewEntry, Entry, TypeOK
      <3>5. \A i \in DOMAIN pending' : pending'[i].run = x => JobIsDue(i)'
        BY <3>2, <3>3, <3>4 DEF JobIsDue, Ready, NewJob
      <3>6. Sound(x)'
        <4>1. CASE status[x] = "queued"
          BY <3>2, <3>3, <3>5, <4>1, SoundInLine
        <4>2. CASE status[x] = "cancelled"
          BY <3>2, <4>2, SoundCancelled
        <4> QED
          BY <3>1, <4>1, <4>2
      <3> QED
        BY <3>1, <3>2, <3>6 DEF Kept, RowMoves, Sealed
    <2> QED
      BY <2>2, <2>3
  <1>3. ASSUME StartFailsToSave(r) PROVE Kept(x)
    <2>1. /\ UNCHANGED <<row, inFlight, aborted, pending, slot, aside>>
          /\ saving' = [saving EXCEPT ![r] = None]
      BY <1>3 DEF StartFailsToSave
    <2>2. /\ SlotsKept(x) /\ QueueKept(x, 0) /\ QueueIsTheSame
      BY <2>1, SameSlots, SameQueue DEF QueueIsTheSame, Durable, aside
    <2>3. CASE r # x
      BY <2>1, <2>2, <2>3, UntouchedRun DEF RowKept, row, TypeOK
    <2>4. CASE r = x
      <3>1. status[x] \in {"queued", "cancelled"} /\ ~HasJob(x)
        BY <1>3, <2>4 DEF StartFailsToSave, Sound
      <3>2. /\ status'[x] = status[x] /\ results'[x] = results[x] /\ saving'[x] = None
            /\ currentStage'[x] = currentStage[x]
            /\ \A v \in Slots : ~Working(v, x)'
            /\ \A i \in DOMAIN pending' : pending'[i].run # x
        BY <2>1, <2>4, <3>1 DEF row, TypeOK, HasJob, Working, Waiting
      <3>3. Sound(x)'
        BY <3>1, <3>2, SoundInLine, SoundCancelled
      <3> QED
        BY <3>2, <3>3 DEF Kept, RowMoves, Sealed
    <2> QED
      BY <2>3, <2>4
  <1>4. ASSUME NEW p \in Payloads \cup {None}, PayloadChanges(r, p) PROVE Kept(x)
    <2>1. RowKept(x)
      BY <1>4 DEF PayloadChanges, RowKept, row, memory
    <2>2. SlotsKept(x) /\ QueueKept(x, 0)
      BY <1>4, SameSlots, SameQueue DEF PayloadChanges
    <2>3. QueueIsTheSame
      BY <1>4 DEF PayloadChanges, QueueIsTheSame, Durable, TypeOK
    <2> QED
      BY <2>1, <2>2, <2>3, UntouchedRun
  <1> QED
    BY <1>1, <1>2, <1>3, <1>4

LEMMA CancelKeeps ==
    ASSUME TypeOK, TypeOK', NEW x \in Runs, Sound(x), NEW r \in Runs, Cancel(r)
    PROVE  Kept(x)
PROOF
  <1>1. /\ SlotsKept(x) /\ QueueKept(x, 0) /\ QueueIsTheSame
    BY SameSlots, SameQueue DEF Cancel, QueueIsTheSame, Durable, aside
  <1>2. CASE r # x
    BY <1>1, <1>2, UntouchedRun DEF Cancel, Untrack, Record, RowKept, TypeOK
  <1>3. CASE r = x
    <2>1. /\ status[x] \notin Terminal \cup {"absent"}
          /\ status[x] \in {"queued", "running", "paused"}
          /\ status'[x] = "cancelled"
          /\ UNCHANGED <<currentStage, saving, slot>>
      BY <1>3 DEF Cancel, TypeOK, RunStatus, Terminal
    <2>2. \/ results'[x] = results[x]
          \/ \E s \in Stages : results'[x] =
                [results[x] EXCEPT ![s] = [status |-> "cancelled", hash |-> None]]
      BY <1>3 DEF Cancel, Record, TypeOK
    <2>3. ASSUME NEW w \in Slots, Working(w, x)' PROVE Cancelled(w)' /\ saving'[x] = None
      <3>1. Working(w, x) /\ slot'[w] = slot[w] /\ slot[w].job.run = x
        BY <2>1, <2>3 DEF Working
      <3>2. inFlight[x] = slot[w].entry /\ saving[x] = None
        BY <2>1, <3>1, AtWork DEF Terminal
      <3>3. slot[w].entry \in Entry
        BY <3>1, BusySlot DEF Working, Idle
      <3>4. inFlight[x].controller \in aborted'[x]
        BY <1>3, <3>2, <3>3, EntryIsNotNone DEF Cancel, TypeOK
      <3> QED
        BY <2>1, <3>1, <3>2, <3>4 DEF Cancelled
    <2>4. Sound(x)'
      <3>1. CASE saving[x] = None
        BY <2>1, <2>3, <3>1, SoundCancelled
      <3>2. CASE saving[x] # None
        <4>1. ~HasJob(x) /\ inFlight'[x] = None /\ UNCHANGED <<pending, slot, saving>>
          BY <1>3, <3>2 DEF Sound, Cancel, Untrack, TypeOK
        <4>2. ~HasJob(x)'
          BY <4>1 DEF HasJob, Working, Waiting
        <4> QED
          BY <2>1, <4>1, <4>2 DEF Sound, HasJob, Waiting, Complete, Terminal
      <3> QED
        BY <3>1, <3>2
    <2> QED
      BY <2>1, <2>2, <2>4 DEF Kept, RowMoves, Sealed
  <1> QED
    BY <1>2, <1>3

-----------------------------------------------------------------------------
\* Resuming.

LEMMA ResumeReadsKeeps ==
    ASSUME TypeOK, TypeOK', NEW x \in Runs, Sound(x), NEW r \in Runs, NEW q \in Requests,
           ResumeReads(q, r)
    PROVE  Kept(x)
PROOF
  <1>1. /\ SlotsKept(x) /\ QueueKept(x, 0) /\ QueueIsTheSame
    BY SameSlots, SameQueue DEF ResumeReads, QueueIsTheSame, Durable, TypeOK
  <1>2. CASE r # x \/ status'[x] = status[x]
    BY <1>1, <1>2, UntouchedRun DEF ResumeReads, RowKept, memory, TypeOK
  <1>3. CASE r = x /\ status'[x] # status[x]
    <2>1. /\ MayMove(status[x], "failed") /\ status'[x] = "failed"
          /\ inFlight[x] = None
          /\ UNCHANGED <<results, memory, pending, slot, setup>>
      BY <1>3 DEF ResumeReads, MayResume, TypeOK
    <2>2. status[x] = "running"
      <3>1. status[x] \in {"queued", "running", "paused"}
        BY <1>3, <2>1 DEF ResumeReads, MayResume, TypeOK, RunStatus
      <3> QED
        BY <2>1, <3>1 DEF MayMove, Transitions
    <2>3. (\A w \in Slots : ~Working(w, x)) /\ (Waiting(x) => KeptByRedis)
      BY <2>1, <2>2, NotInFlight
    <2>4. (\A w \in Slots : ~Working(w, x)') /\ (Waiting(x)' => KeptByRedis')
      BY <1>1, <2>1, <2>3 DEF Working, Waiting, KeptByRedis, QueueIsTheSame
    <2>5. saving'[x] = None /\ inFlight'[x] = None
      BY <2>1, <2>2 DEF Sound, memory
    <2>6. Sound(x)'
      BY <2>1, <2>4, <2>5, SoundAtRest DEF Complete
    <2> QED
      BY <2>1, <2>2, <2>6 DEF Kept, RowMoves, Sealed
  <1> QED
    BY <1>2, <1>3

LEMMA ResumeFindsNoPayloadKeeps ==
    ASSUME TypeOK, TypeOK', NEW x \in Runs, Sound(x), NEW q \in Requests,
           ResumeFindsNoPayload(q)
    PROVE  Kept(x)
PROOF
  <1>1. UNCHANGED <<row, memory, pending, slot, aside>>
    BY DEF ResumeFindsNoPayload
  <1>2. /\ RowKept(x) /\ SlotsKept(x) /\ QueueKept(x, 0) /\ QueueIsTheSame
    BY <1>1, SameSlots, SameQueue DEF RowKept, QueueIsTheSame, Durable, row, memory, aside
  <1> QED
    BY <1>2, UntouchedRun

LEMMA ResumeLoadsKeeps ==
    ASSUME TypeOK, TypeOK', NEW x \in Runs, Sound(x), x \notin astray', NEW q \in Requests,
           ResumeLoads(q)
    PROVE  Kept(x)
PROOF
  <1> DEFINE r == request[q].run
             p == stored[r]
             s == FirstStageToRun(request[q].results, p)
  <1>1. request[q] \in Loading /\ r \in Runs /\ p \in Payloads
    BY DEF ResumeLoads, TypeOK, Loading, Refused, Idle
  <1>2. /\ UNCHANGED <<currentStage, results, saving, aborted, slot, setup>>
        /\ SlotsKept(x)
    BY SameSlots DEF ResumeLoads
  <1>3. s \in Stages
        /\ \A before \in 1 .. s - 1 : Checkpointed(request[q].results, before, p)
    BY FirstStageExists
  <1>4. CASE ~MayMove(status[r], "queued")
    <2>1. UNCHANGED <<status, inFlight, pending, spent>>
      BY <1>4 DEF ResumeLoads
    <2> QED
      BY <1>2, <2>1, SameQueue, UntouchedRun DEF RowKept, QueueIsTheSame, Durable
  <1>5. CASE MayMove(status[r], "queued") /\ r # x
    <2>1. /\ status' = [status EXCEPT ![r] = "queued"]
          /\ \/ Track(r, p) /\ Enqueue(r, s, p)
             \/ EnqueueRefused /\ Untrack(r)
      BY <1>5 DEF ResumeLoads
    <2>2. RowKept(x)
      BY <1>2, <1>5, <2>1 DEF RowKept, Track, Untrack, TypeOK
    <2>3. QueueKept(x, 0) /\ spent'.crashes = spent.crashes
      BY <1>1, <1>3, <1>5, <2>1, OtherRunEnqueued
    <2> QED
      BY <1>2, <2>2, <2>3, UntouchedRun DEF QueueIsTheSame, Durable
  <1>6. CASE MayMove(status[r], "queued") /\ r = x
    <2>1. /\ status'[x] = "queued"
          /\ \/ Track(x, p) /\ Enqueue(x, s, p)
             \/ EnqueueRefused /\ Untrack(x)
          /\ ~Overtaken(q) /\ ~(Durable /\ Waiting(x))
      BY <1>6 DEF ResumeLoads, TypeOK
    \* The row is still the one the request read, and nothing of the run is left.
    <2>2. status[x] = "failed" /\ request[q].results = results[x]
      BY <1>6, <2>1 DEF Overtaken
    <2>3. /\ ~Waiting(x) /\ inFlight[x] = None /\ saving[x] = None
          /\ \A w \in Slots : ~Working(w, x)
      BY <2>1, <2>2 DEF Sound, KeptByRedis
    <2>4. \A w \in Slots : ~Working(w, x)'
      BY <1>2, <2>3 DEF Working
    <2>5. \A i \in DOMAIN pending' : pending'[i].run = x =>
            /\ i = Len(pending) + 1 /\ pending'[i] = NewJob(x, s, p)
            /\ inFlight'[x] = NewEntry(x, p)
      <3>1. pending \in Seq(Job) /\ NewJob(x, s, p) \in Job
        BY <1>1, <1>3 DEF TypeOK, NewJob, Job
      <3>2. CASE Track(x, p) /\ Enqueue(x, s, p)
        BY <2>3, <3>1, <3>2, AppendedJob DEF Enqueue, Track, Waiting, TypeOK
      <3>3. CASE EnqueueRefused
        BY <2>3, <3>3 DEF EnqueueRefused, Waiting
      <3> QED
        BY <2>1, <3>2, <3>3
    <2>6. NewEntry(x, p).payload = p /\ NewEntry(x, p) # None
      BY <1>1, EntryIsNotNone DEF NewEntry, Entry, TypeOK
    <2>7. \A before \in 1 .. s - 1 : Checkpointed(results'[x], before, p)
      BY <1>2, <1>3, <2>2 DEF Checkpointed
    <2>8. \A i \in DOMAIN pending' : pending'[i].run = x => JobIsDue(i)'
      BY <2>5, <2>6, <2>7 DEF JobIsDue, Ready, NewJob
    <2>9. Sound(x)'
      <3>1. status'[x] \in {"queued", "running", "paused"} /\ saving'[x] = None
        BY <1>2, <2>1, <2>3
      <3> HIDE DEF r, p, s
      <3> QED
        BY <2>4, <2>5, <2>8, <3>1, SoundInLine
    <2> QED
      BY <1>2, <2>1, <2>2, <2>9 DEF Kept, RowMoves, Sealed
  <1> QED
    BY <1>4, <1>5, <1>6

-----------------------------------------------------------------------------
\* A job arrives in a slot.

LEMMA ArrivesElsewhere ==
    ASSUME TypeOK, NEW x \in Runs, Sound(x), NEW w \in Slots, NEW job \in Job,
           job.run # x \/ status[x] \in Terminal, Arrive(w, job)
    PROVE  RowKept(x) /\ SlotsKept(x)
PROOF
  <1>1. CASE status[job.run] \in Terminal
    <2>1. Leave(w, job) /\ UNCHANGED <<row, memory>>
      BY <1>1 DEF Arrive
    <2>2. job.run # x \/ status[x] # "absent"
      BY DEF Terminal
    <2> QED
      BY <2>1, <2>2, SlotGivenUp DEF RowKept, row, memory
  <1>2. CASE status[job.run] \notin Terminal
    <2>1. job.run # x
      BY <1>2
    <2>2. /\ status' = [status EXCEPT ![job.run] = "running"]
          /\ inFlight' \in {inFlight, [inFlight EXCEPT ![job.run] = NewEntry(job.run, job.payload)]}
          /\ slot' = [slot EXCEPT ![w] = [pc |-> "picked", job |-> job,
                 entry |-> EntryFor(job), done |-> IsDone(job)]]
          /\ UNCHANGED <<currentStage, results, saving, aborted>>
      BY <1>2 DEF Arrive, MakeRunning, Track
    <2>3. RowKept(x)
      BY <2>1, <2>2 DEF RowKept, TypeOK
    <2>4. SlotsKept(x)
      BY <2>1, <2>2 DEF SlotsKept, TypeOK
    <2> QED
      BY <2>3, <2>4
  <1> QED
    BY <1>1, <1>2

LEMMA ArrivesKeeps ==
    ASSUME TypeOK, NEW x \in Runs, NEW w \in Slots, NEW job \in Job, job.run = x,
           status[x] \in {"queued", "running", "paused"}, saving[x] = None, Ready(job),
           inFlight[x] # None => inFlight[x].payload = job.payload,
           \A v \in Slots : v # w => ~Working(v, x),
           ~Waiting(x)', Arrive(w, job)
    PROVE  Kept(x)
PROOF
  <1> DEFINE entry == EntryFor(job)
  <1>1. /\ status'[x] = "running"
        /\ slot' = [slot EXCEPT ![w] =
               [pc |-> "picked", job |-> job, entry |-> entry, done |-> IsDone(job)]]
        /\ UNCHANGED <<currentStage, results, saving, aborted>>
        /\ IF inFlight[x] = None THEN Track(x, job.payload) ELSE UNCHANGED <<inFlight, minted>>
    BY DEF Arrive, MakeRunning, Terminal, TypeOK
  <1>2. inFlight'[x] = entry /\ entry.payload = job.payload
    BY <1>1 DEF EntryFor, NewEntry, Track, TypeOK
  <1>3. /\ slot'[w].pc = "picked" /\ slot'[w].job = job /\ slot'[w].entry = entry
        /\ slot'[w].done = IsDone(job)
    BY <1>1 DEF TypeOK
  <1> HIDE DEF entry
  <1>4. WorkIsDue(w)'
    BY <1>1, <1>2, <1>3 DEF WorkIsDue, Ready, IsDone, Terminal
  <1>5. \A v \in Slots : Working(v, x)' => v = w
    BY <1>1 DEF Working, TypeOK
  <1>6. Sound(x)'
    BY <1>1, <1>4, <1>5, SoundAtWork
  <1> QED
    BY <1>1, <1>6 DEF Kept, RowMoves, Sealed

LEMMA PickUpKeeps ==
    ASSUME TypeOK, TypeOK', NEW x \in Runs, Sound(x), NEW w \in Slots, PickUp(w)
    PROVE  Kept(x)
PROOF
  <1> DEFINE job == Attempt(Head(pending))
  <1>1. /\ pending \in Seq(Job) /\ pending # <<>> /\ Head(pending) \in Job
        /\ pending' = Tail(pending) /\ Arrive(w, job) /\ slot[w] = Idle
        /\ UNCHANGED aside
    BY TakenJob DEF PickUp, TypeOK
  <1>2. /\ job \in Job /\ job.run = Head(pending).run /\ job.stage = Head(pending).stage
        /\ job.payload = Head(pending).payload
    BY <1>1, AttemptedJob
  <1>3. QueueKept(x, 1) /\ QueueIsTheSame
    BY <1>1, FirstTaken DEF QueueIsTheSame, Durable, aside
  <1> HIDE DEF job
  <1>4. CASE job.run # x \/ status[x] \in Terminal
    BY <1>1, <1>2, <1>3, <1>4, ArrivesElsewhere, UntouchedRun
  <1>5. CASE job.run = x /\ status[x] \notin Terminal
    <2>1. /\ status[x] # "absent" /\ saving[x] = None
          /\ JobIsDue(1) /\ Head(pending) = pending[1]
          /\ \A v \in Slots : ~Working(v, x)
          /\ ~Waiting(x)'
      BY <1>1, <1>2, <1>5, FirstInLine DEF Waiting
    <2>2. Ready(job) /\ (inFlight[x] # None => inFlight[x].payload = job.payload)
      BY <1>2, <1>5, <2>1 DEF JobIsDue, Ready
    <2>3. status[x] \in {"queued", "running", "paused"}
      BY <1>5, <2>1 DEF TypeOK, RunStatus, Terminal
    <2> QED
      BY <1>1, <1>2, <1>5, <2>1, <2>2, <2>3, ArrivesKeeps
  <1> QED
    BY <1>4, <1>5

LEMMA BackoffEndsKeeps ==
    ASSUME TypeOK, TypeOK', NEW x \in Runs, Sound(x), NEW w \in Slots, BackoffEnds(w)
    PROVE  Kept(x)
PROOF
  <1> DEFINE old == slot[w].job
             job == Attempt(old)
  <1>1. slot[w].pc = "backoff" /\ slot[w] # Idle /\ old \in Job /\ UNCHANGED aside
    BY HeldJob DEF BackoffEnds, Idle
  <1>2. /\ job \in Job /\ job.run = old.run /\ job.stage = old.stage
        /\ job.payload = old.payload
    BY <1>1, AttemptedJob
  <1>3. QueueIsTheSame
    BY <1>1 DEF QueueIsTheSame, Durable, aside
  <1>4. old.run = x => Working(w, x)
    BY <1>1 DEF Working
  <1>5. CASE ~Durable
    <2>1. Arrive(w, job) /\ UNCHANGED pending
      BY <1>5 DEF BackoffEnds
    <2> HIDE DEF job
    <2>2. CASE job.run # x \/ status[x] \in Terminal
      BY <1>2, <1>3, <2>1, <2>2, SameQueue, ArrivesElsewhere, UntouchedRun
    <2>3. CASE job.run = x /\ status[x] \notin Terminal
      <3>1. /\ status[x] = "running" /\ saving[x] = None /\ WorkIsDue(w)
            /\ inFlight[x] = slot[w].entry /\ ~Waiting(x)
            /\ \A v \in Slots : Working(v, x) => v = w
        BY <1>2, <1>4, <2>3, AtWork DEF Terminal
      <3>2. Ready(job) /\ inFlight[x].payload = job.payload
        BY <1>2, <2>3, <3>1 DEF WorkIsDue, Ready, Terminal
      <3>3. ~Waiting(x)'
        BY <2>1, <3>1 DEF Waiting
      <3> QED
        BY <1>2, <2>1, <2>3, <3>1, <3>2, <3>3, ArrivesKeeps
    <2> QED
      BY <2>2, <2>3
  <1>6. CASE Durable
    <2>1. /\ slot' = [slot EXCEPT ![w] = Idle] /\ UNCHANGED <<row, memory>>
          /\ pending' = Append(pending, old)
      BY <1>6 DEF BackoffEnds
    <2>2. CASE old.run # x
      <3>1. QueueKept(x, 0) /\ RowKept(x) /\ SlotsKept(x)
        BY <1>1, <2>1, <2>2, OtherJobEnqueued DEF RowKept, SlotsKept, row, memory, TypeOK
      <3> QED
        BY <1>3, <3>1, UntouchedRun
    <2>3. CASE old.run = x
      <3>1. /\ status[x] \in {"running", "cancelled"} /\ saving[x] = None /\ WorkIsDue(w)
            /\ status[x] = "running" =>
                  /\ inFlight[x] = slot[w].entry /\ ~Waiting(x)
                  /\ \A v \in Slots : Working(v, x) => v = w
        BY <1>4, <2>3, AtWork
      <3>2. /\ UNCHANGED <<status, results, currentStage, saving, inFlight, aborted>>
            /\ \A v \in Slots : Working(v, x)' => v # w /\ slot'[v] = slot[v] /\ Working(v, x)
        BY <2>1 DEF row, memory, Working, Idle, TypeOK
      <3>3. CASE status[x] = "cancelled"
        <4>1. \A v \in Slots : Working(v, x)' /\ slot'[v].pc \in {"picked", "executing"}
                => Cancelled(v)'
          BY <3>2, <3>3 DEF Sound, WorkIsDue, Cancelled, Working
        <4>2. Sound(x)'
          BY <3>1, <3>2, <3>3, <4>1, SoundCancelled
        <4> QED
          BY <3>2, <3>3, <4>2 DEF Kept, RowMoves, Sealed
      <3>4. CASE status[x] = "running"
        <4>1. \A v \in Slots : ~Working(v, x)'
          BY <3>1, <3>2, <3>4
        <4>2. \A i \in DOMAIN pending' : pending'[i].run = x =>
                i = Len(pending) + 1 /\ pending'[i] = old
          BY <1>1, <2>1, <3>1, <3>4, AppendedJob DEF Waiting, TypeOK
        <4>3. Ready(old) /\ slot[w].entry.payload = old.payload /\ inFlight[x] # None
          <5>1. slot[w].entry \in Entry
            BY <1>1, BusySlot
          <5> QED
            BY <2>3, <3>1, <3>4, <5>1, EntryIsNotNone DEF WorkIsDue, Terminal
        <4> HIDE DEF old
        <4>4. \A i \in DOMAIN pending' : pending'[i].run = x => JobIsDue(i)'
          BY <2>3, <3>1, <3>2, <3>4, <4>2, <4>3 DEF JobIsDue, Ready
        <4>5. Sound(x)'
          BY <3>1, <3>2, <3>4, <4>1, <4>2, <4>4, SoundInLine
        <4> QED
          BY <3>2, <3>4, <4>5 DEF Kept, RowMoves, Sealed
      <3> QED
        BY <3>1, <3>3, <3>4
    <2> QED
      BY <2>2, <2>3
  <1> QED
    BY <1>5, <1>6

-----------------------------------------------------------------------------
\* A handler goes on.

\* It lets go of its run, and nothing else happens.
LEMMA LeavingKeeps ==
    ASSUME TypeOK, TypeOK', NEW x \in Runs, Sound(x), NEW w \in Slots, slot[w] # Idle,
           slot[w].pc # "completed", Leave(w, slot[w].job),
           UNCHANGED <<row, saving, inFlight, aborted, pending, aside>>
    PROVE  Kept(x)
PROOF
  <1>1. slot[w].job \in Job
    BY HeldJob
  <1>2. slot[w].job.run = x => status[x] # "absent"
    BY DEF Sound, Holds
  <1>3. RowKept(x) /\ SlotsKept(x) /\ QueueIsTheSame
    BY <1>1, <1>2, SlotGivenUp DEF RowKept, QueueIsTheSame, Durable, row, aside
  <1> QED
    BY <1>3, SameQueue, UntouchedRun

LEMMA FailKeeps ==
    ASSUME TypeOK, TypeOK', NEW x \in Runs, Sound(x), NEW w \in Slots, slot[w] # Idle,
           slot[w].pc # "completed", Fail(w),
           UNCHANGED <<results, saving, aborted, setup, astray>>
    PROVE  Kept(x)
PROOF
  <1> DEFINE job == slot[w].job
  <1>1. /\ job \in Job /\ Leave(w, job) /\ Untrack(job.run)
        /\ UNCHANGED <<currentStage, pending, spent>>
    BY HeldJob DEF Fail
  <1>2. QueueKept(x, 0) /\ QueueIsTheSame
    BY <1>1, SameQueue DEF QueueIsTheSame, Durable
  <1>3. CASE job.run # x
    <2>1. RowKept(x)
      BY <1>1, <1>3 DEF Fail, Untrack, RowKept, TypeOK
    <2> QED
      BY <1>1, <1>2, <1>3, <2>1, SlotGivenUp, UntouchedRun
  <1>4. CASE job.run = x
    <2>1. Working(w, x)
      BY <1>4, BusySlot DEF Working, Busy
    <2>2. /\ status[x] \in {"running", "cancelled"} /\ saving[x] = None
          /\ status[x] = "running" =>
                ~Waiting(x) /\ \A v \in Slots : Working(v, x) => v = w
      BY <2>1, AtWork
    <2>3. /\ inFlight'[x] = None /\ ~Working(w, x)' /\ results'[x] = results[x]
          /\ \A v \in Slots : v # w => slot'[v] = slot[v]
      BY <1>1, <1>4, SlotGivenUp DEF Untrack, TypeOK
    <2>4. CASE status[x] = "running"
      <3>1. status'[x] = "failed"
        BY <1>4, <2>4 DEF Fail, MayMove, Transitions, TypeOK
      <3>2. \A v \in Slots : ~Working(v, x)'
        BY <2>2, <2>3, <2>4 DEF Working
      <3>3. ~Waiting(x)'
        BY <1>1, <2>2, <2>4 DEF Waiting
      <3>4. Sound(x)'
        BY <2>2, <2>3, <3>1, <3>2, <3>3, SoundAtRest DEF Complete
      <3> QED
        BY <2>3, <2>4, <3>1, <3>4 DEF Kept, RowMoves, Sealed
    <2>5. CASE status[x] = "cancelled"
      <3>1. status'[x] = "cancelled"
        BY <1>4, <2>5 DEF Fail, MayMove, Transitions, TypeOK
      <3>2. \A v \in Slots : Working(v, x)' /\ slot'[v].pc \in {"picked", "executing"}
                => Cancelled(v)'
        <4> SUFFICES ASSUME NEW v \in Slots, Working(v, x)',
                            slot'[v].pc \in {"picked", "executing"}
                     PROVE  Cancelled(v)'
          OBVIOUS
        <4>1. slot'[v] = slot[v] /\ Working(v, x)
          BY <2>3 DEF Working
        <4> QED
          BY <2>5, <4>1 DEF Sound, WorkIsDue, Cancelled, Working
      <3>3. Sound(x)'
        BY <2>2, <3>1, <3>2, SoundCancelled
      <3> QED
        BY <1>1, <2>3, <2>5, <3>1, <3>3 DEF Kept, RowMoves, Sealed
    <2> QED
      BY <2>2, <2>4, <2>5
  <1> QED
    BY <1>3, <1>4

\* The next stage's job, or the end of the run: the job's own stage is done.
LEMMA AdvanceKeeps ==
    ASSUME TypeOK, TypeOK', NEW x \in Runs, Sound(x), NEW w \in Slots, slot[w] # Idle,
           slot[w].pc # "completed", Advance(w),
           slot[w].job.run = x /\ status[x] = "running" => IsDone(slot[w].job),
           UNCHANGED <<results, saving, aborted, setup, astray>>
    PROVE  Kept(x)
PROOF
  <1> DEFINE job == slot[w].job
             next == job.stage + 1
             p == slot[w].entry.payload
  <1>1. /\ job \in Job /\ job.run \in Runs /\ job.stage \in Stages /\ Leave(w, job)
        /\ slot[w].entry \in Entry /\ p \in Payloads
    BY BusySlot DEF Advance, Entry
  <1>2. ~LastStage(job.stage) =>
          /\ next \in Stages
          /\ Enqueue(job.run, next, p) \/ EnqueueRefused
          /\ UNCHANGED <<status, currentStage, inFlight>>
    BY <1>1, NumStagesAssumption DEF Advance, LastStage, Stages
  <1>3. LastStage(job.stage) =>
          /\ Untrack(job.run) /\ UNCHANGED <<pending, spent>>
          /\ IF MayMove(status[job.run], "succeeded")
             THEN /\ status' = [status EXCEPT ![job.run] = "succeeded"]
                  /\ currentStage' = [currentStage EXCEPT ![job.run] = None]
             ELSE UNCHANGED <<status, currentStage>>
    BY DEF Advance
  <1>4. CASE job.run # x
    <2>1. RowKept(x)
      BY <1>1, <1>2, <1>3, <1>4 DEF Untrack, RowKept, TypeOK
    <2>2. QueueKept(x, 0) /\ spent'.crashes = spent.crashes
      BY <1>1, <1>2, <1>3, <1>4, SameQueue, OtherRunEnqueued
    <2> QED
      BY <1>1, <1>4, <2>1, <2>2, SlotGivenUp, UntouchedRun DEF QueueIsTheSame, Durable
  <1>5. CASE job.run = x
    <2>1. Working(w, x)
      BY <1>5, BusySlot DEF Working, Busy
    <2>2. /\ status[x] \in {"running", "cancelled"} /\ saving[x] = None /\ WorkIsDue(w)
          /\ status[x] = "running" =>
                /\ inFlight[x] = slot[w].entry /\ ~Waiting(x)
                /\ \A v \in Slots : Working(v, x) => v = w
      BY <2>1, AtWork
    <2>3. /\ ~Working(w, x)' /\ results'[x] = results[x] /\ saving'[x] = None
          /\ \A v \in Slots : v # w => slot'[v] = slot[v]
      BY <1>1, <2>2, SlotGivenUp
    <2>4. CASE status[x] = "cancelled"
      <3>1. status'[x] = "cancelled" /\ currentStage'[x] = currentStage[x]
        BY <1>2, <1>3, <1>5, <2>4 DEF MayMove, Transitions
      <3>2. \A v \in Slots : Working(v, x)' /\ slot'[v].pc \in {"picked", "executing"}
                => Cancelled(v)'
        <4> SUFFICES ASSUME NEW v \in Slots, Working(v, x)',
                            slot'[v].pc \in {"picked", "executing"}
                     PROVE  Cancelled(v)'
          OBVIOUS
        <4>1. slot'[v] = slot[v] /\ Working(v, x)
          BY <2>3 DEF Working
        <4> QED
          BY <2>4, <4>1 DEF Sound, WorkIsDue, Cancelled, Working
      <3>3. Sound(x)'
        BY <2>3, <3>1, <3>2, SoundCancelled
      <3> QED
        BY <2>3, <2>4, <3>1, <3>3 DEF Kept, RowMoves, Sealed
    <2>5. CASE status[x] = "running"
      <3>1. /\ Ready(job) /\ IsDone(job) /\ p = job.payload /\ inFlight[x] = slot[w].entry
        BY <1>5, <2>2, <2>5 DEF WorkIsDue, Terminal
      <3>2. \A before \in 1 .. job.stage : Checkpointed(results[x], before, p)
        BY <1>1, <1>5, <3>1 DEF Ready, IsDone, Stages
      <3>3. \A v \in Slots : ~Working(v, x)'
        BY <2>2, <2>3, <2>5 DEF Working
      <3>4. CASE ~LastStage(job.stage)
        <4>1. status'[x] = "running" /\ inFlight'[x] = slot[w].entry
          BY <1>2, <2>5, <3>1, <3>4
        <4>2. \A i \in DOMAIN pending' : pending'[i].run = x =>
                i = Len(pending) + 1 /\ pending'[i] = NewJob(x, next, p)
          <5>1. pending \in Seq(Job) /\ NewJob(x, next, p) \in Job
            BY <1>1, <1>2, <3>4 DEF TypeOK, NewJob, Job
          <5>2. CASE Enqueue(job.run, next, p)
            BY <1>5, <2>2, <2>5, <5>1, <5>2, AppendedJob DEF Enqueue, Waiting
          <5>3. CASE EnqueueRefused
            BY <2>2, <2>5, <5>3 DEF EnqueueRefused, Waiting
          <5> QED
            BY <1>2, <3>4, <5>2, <5>3
        <4>3. \A before \in 1 .. next - 1 : Checkpointed(results'[x], before, p)
          BY <1>1, <2>3, <3>2 DEF Stages
        <4>4. inFlight'[x] # None /\ inFlight'[x].payload = p
          BY <1>1, <4>1, EntryIsNotNone
        <4> HIDE DEF p, next, job
        <4>5. \A i \in DOMAIN pending' : pending'[i].run = x => JobIsDue(i)'
          BY <4>2, <4>3, <4>4 DEF JobIsDue, Ready, NewJob
        <4>6. Sound(x)'
          BY <2>3, <3>3, <4>1, <4>2, <4>5, SoundInLine
        <4> QED
          BY <2>3, <2>5, <4>1, <4>6 DEF Kept, RowMoves, Sealed
      <3>5. CASE LastStage(job.stage)
        <4>1. status'[x] = "succeeded" /\ inFlight'[x] = None /\ ~Waiting(x)'
          BY <1>3, <1>5, <2>2, <2>5, <3>5 DEF MayMove, Transitions, Untrack, Waiting, TypeOK
        <4>2. \A s \in Stages : Checkpointed(results[x], s, p)
          BY <1>1, <3>2, <3>5 DEF LastStage, Stages
        <4>3. \E y \in Payloads : \A s \in Stages : Checkpointed(results[x], s, y)
          BY <1>1, <4>2
        <4>4. Sound(x)'
          BY <2>3, <3>3, <4>1, <4>3, SoundAtRest DEF Complete
        <4> QED
          BY <2>3, <2>5, <4>1, <4>3, <4>4 DEF Kept, RowMoves, Sealed
      <3> QED
        BY <3>4, <3>5
    <2> QED
      BY <2>2, <2>4, <2>5
  <1> QED
    BY <1>4, <1>5

LEMMA DecideKeeps ==
    ASSUME TypeOK, TypeOK', NEW x \in Runs, Sound(x), NEW w \in Slots,
           Decide(w)
    PROVE  Kept(x)
PROOF
  <1> DEFINE job == slot[w].job
  <1>1. /\ slot[w].pc = "picked" /\ slot[w] # Idle /\ slot[w].pc # "completed"
        /\ job \in Job /\ slot[w] \in Busy
        /\ UNCHANGED <<results, stored, saving, aborted, request, setup, astray>>
    BY BusySlot DEF Decide, Idle
  <1>2. CASE Fail(w)
    BY <1>1, <1>2, FailKeeps
  <1>3. CASE slot[w].done /\ Advance(w)
    <2>1. job.run = x /\ status[x] = "running" => IsDone(job)
      BY <1>1, <1>3 DEF Sound, Working, WorkIsDue, Terminal
    <2> QED
      BY <1>1, <1>3, <2>1, AdvanceKeeps
  <1>4. CASE /\ Leave(w, job)
             /\ UNCHANGED <<status, currentStage, inFlight, minted, pending, spent>>
    BY <1>1, <1>4, LeavingKeeps DEF row, aside
  <1>5. CASE /\ ~slot[w].done /\ ~Cancelled(w)
             /\ currentStage' = [currentStage EXCEPT ![job.run] = job.stage]
             /\ slot' = [slot EXCEPT ![w].pc = "executing"]
             /\ UNCHANGED <<status, inFlight, minted, pending, spent>>
    <2>1. QueueKept(x, 0) /\ QueueIsTheSame
      BY <1>1, <1>5, SameQueue DEF QueueIsTheSame, Durable
    <2>2. CASE job.run # x
      <3>1. RowKept(x)
        BY <1>1, <1>5, <2>2 DEF RowKept, TypeOK
      <3>2. slot'[w].job = job /\ \A v \in Slots : v # w => slot'[v] = slot[v]
        BY <1>1, <1>5 DEF TypeOK, Busy
      <3>3. SlotsKept(x)
        BY <2>2, <3>2 DEF SlotsKept
      <3> QED
        BY <2>1, <3>1, <3>3, UntouchedRun
    <2>3. CASE job.run = x
      <3>1. Working(w, x)
        BY <1>1, <2>3 DEF Working
      <3>2. /\ status[x] \in {"running", "cancelled"} /\ saving[x] = None /\ WorkIsDue(w)
            /\ status[x] = "running" =>
                  /\ inFlight[x] = slot[w].entry /\ ~Waiting(x)
                  /\ \A v \in Slots : Working(v, x) => v = w
        BY <3>1, AtWork
      <3>3. status[x] = "running"
        BY <1>1, <1>5, <2>3, <3>2 DEF WorkIsDue
      <3>4. /\ slot'[w].job = job /\ slot'[w].entry = slot[w].entry
            /\ slot'[w].pc = "executing" /\ \A v \in Slots : v # w => slot'[v] = slot[v]
        BY <1>1, <1>5 DEF TypeOK, Busy
      <3>5. WorkIsDue(w)'
        BY <1>1, <1>5, <2>3, <3>2, <3>3, <3>4
           DEF WorkIsDue, Ready, IsDone, Terminal, Cancelled
      <3>6. (\A v \in Slots : Working(v, x)' => v = w) /\ ~Waiting(x)'
        BY <1>5, <3>2, <3>3, <3>4 DEF Working, Waiting
      <3>7. Sound(x)'
        BY <1>1, <1>5, <3>2, <3>3, <3>5, <3>6, SoundAtWork
      <3> QED
        BY <1>1, <1>5, <3>3, <3>7 DEF Kept, RowMoves, Sealed
    <2> QED
      BY <2>2, <2>3
  <1> QED
    BY <1>2, <1>3, <1>4, <1>5 DEF Decide

\* A stage has an outcome, which is looked at because nobody cancelled the run.
LEMMA OutcomeKeeps ==
    ASSUME TypeOK, TypeOK', NEW x \in Runs, Sound(x), NEW w \in Slots, Returns(w),
           NEW outcome \in {"succeeded", "failed"},
           Record(slot[w].job.run, slot[w].job.stage, outcome, slot[w].job.payload),
           UNCHANGED <<status, currentStage, stored, memory, pending, request, aside>>,
           \A v \in Slots : v # w => slot'[v] = slot[v],
           \/ /\ slot'[w].pc \in {"succeeded", "failed", "backoff"}
              /\ slot'[w].pc = "succeeded" => outcome = "succeeded"
              /\ slot'[w].job = slot[w].job /\ slot'[w].entry = slot[w].entry
           \/ Leave(w, slot[w].job)
    PROVE  Kept(x)
PROOF
  <1> DEFINE job == slot[w].job
  <1>1. /\ slot[w].pc = "executing" /\ ~Cancelled(w) /\ slot[w] # Idle
        /\ job \in Job /\ job.run \in Runs /\ job.stage \in Stages /\ job.payload \in Payloads
    BY BusySlot DEF Returns, Idle
  <1>2. QueueKept(x, 0) /\ QueueIsTheSame
    BY SameQueue DEF QueueIsTheSame, Durable, aside
  <1>3. CASE job.run # x
    <2>1. RowKept(x)
      BY <1>1, <1>3 DEF Record, RowKept, memory, TypeOK
    <2>2. SlotsKept(x)
      BY <1>1, <1>3, SlotGivenUp DEF SlotsKept
    <2> QED
      BY <1>2, <2>1, <2>2, UntouchedRun
  <1>4. CASE job.run = x
    <2>1. Working(w, x)
      BY <1>1, <1>4 DEF Working
    <2>2. /\ status[x] \in {"running", "cancelled"} /\ saving[x] = None /\ WorkIsDue(w)
          /\ status[x] = "running" =>
                /\ inFlight[x] = slot[w].entry /\ ~Waiting(x)
                /\ \A v \in Slots : Working(v, x) => v = w
      BY <2>1, AtWork
    <2>3. status[x] = "running"
      BY <1>1, <1>4, <2>2 DEF WorkIsDue
    <2>4. /\ Ready(job) /\ ~IsDone(job) /\ slot[w].entry.payload = job.payload
      BY <1>1, <1>4, <2>2, <2>3 DEF WorkIsDue, Terminal
    <2>5. results'[x] =
            [results[x] EXCEPT ![job.stage] = [status |-> outcome, hash |-> job.payload]]
      BY <1>1, <1>4 DEF Record, TypeOK
    <2>6. /\ \A before \in 1 .. job.stage - 1 : Checkpointed(results'[x], before, job.payload)
          /\ outcome = "succeeded" => Checkpointed(results'[x], job.stage, job.payload)
      <3>1. results[x] \in [Stages -> Result]
        BY DEF TypeOK
      <3>2. results'[x][job.stage] = [status |-> outcome, hash |-> job.payload]
        BY <1>1, <2>5, <3>1
      <3>3. ASSUME NEW before \in 1 .. job.stage - 1 PROVE results'[x][before] = results[x][before]
        <4>1. before \in Stages /\ before # job.stage
          BY <1>1, NumStagesAssumption DEF Stages
        <4> QED
          BY <2>5, <3>1, <4>1
      <3>4. \A before \in 1 .. job.stage - 1 : Checkpointed(results[x], before, job.payload)
        BY <1>4, <2>4 DEF Ready
      <3> HIDE DEF job
      <3> QED
        BY <3>2, <3>3, <3>4 DEF Checkpointed
    <2>7. Working(w, x)' => WorkIsDue(w)'
      <3>1. CASE Leave(w, job)
        BY <1>1, <3>1, SlotGivenUp
      <3>2. CASE /\ slot'[w].pc \in {"succeeded", "failed", "backoff"}
                 /\ slot'[w].pc = "succeeded" => outcome = "succeeded"
                 /\ slot'[w].job = job /\ slot'[w].entry = slot[w].entry
        BY <1>4, <2>2, <2>3, <2>4, <2>6, <3>2 DEF WorkIsDue, Ready, IsDone, memory, Terminal
      <3> QED
        BY <3>1, <3>2
    <2>8. (\A v \in Slots : Working(v, x)' => v = w) /\ ~Waiting(x)'
      BY <2>2, <2>3 DEF Working, Waiting
    <2>9. Sound(x)'
      BY <2>2, <2>3, <2>7, <2>8, SoundAtWork DEF memory
    <2>10. RowMoves(x)
      <3>1. /\ \A before \in 1 .. job.stage - 1 : Checkpointed(results[x], before, job.payload)
            /\ ~Checkpointed(results[x], job.stage, job.payload)
        BY <1>4, <2>4 DEF Ready, IsDone
      <3>2. status[x] = "running" /\ status'[x] = "running"
        BY <2>3
      <3>3. job.stage \in Stages /\ job.payload \in Payloads
        BY <1>1
      <3> HIDE DEF job
      <3>4. \E s \in Stages, p \in Payloads, o \in {"succeeded", "failed"} :
              /\ \A before \in 1 .. s - 1 : Checkpointed(results[x], before, p)
              /\ ~Checkpointed(results[x], s, p)
              /\ results'[x] = [results[x] EXCEPT ![s] = [status |-> o, hash |-> p]]
        BY <2>5, <3>1, <3>3
      <3> QED
        BY <3>2, <3>4 DEF RowMoves
    <2> QED
      BY <2>9, <2>10 DEF Kept, Sealed
  <1> QED
    BY <1>3, <1>4

\* What a worker does keeps the run, whatever it works on.
LEMMA WorkerKeeps ==
    ASSUME TypeOK, TypeOK', NEW x \in Runs, Sound(x), NEW w \in Slots, WorkerStep(w)
    PROVE  Kept(x)
PROOF
  <1> DEFINE job == slot[w].job
  <1>1. CASE PickUp(w)
    BY <1>1, PickUpKeeps
  <1>2. CASE Decide(w)
    BY <1>2, DecideKeeps
  <1>3. CASE BackoffEnds(w)
    BY <1>3, BackoffEndsKeeps
  <1>4. CASE Acknowledge(w)
    <2>1. SlotsKept(x)
      BY <1>4 DEF Acknowledge, SlotsKept, TypeOK
    <2>2. RowKept(x) /\ QueueKept(x, 0) /\ QueueIsTheSame
      BY <1>4, SameQueue DEF Acknowledge, RowKept, QueueIsTheSame, Durable, row, memory, aside
    <2> QED
      BY <2>1, <2>2, UntouchedRun
  <1>5. CASE StageAborted(w)
    BY <1>5, LeavingKeeps DEF StageAborted, memory, Idle
  <1>6. CASE StageFailsRetryably(w)
    <2>1. /\ Returns(w) /\ Record(job.run, job.stage, "failed", job.payload)
          /\ UNCHANGED <<status, currentStage, stored, memory, pending, request, aside>>
      BY <1>6 DEF StageFailsRetryably
    <2>2. slot[w] \in Busy
      BY <2>1, BusySlot DEF Returns, Idle
    <2>3. \/ /\ slot'[w].pc = "backoff" /\ slot'[w].job = job
             /\ slot'[w].entry = slot[w].entry
             /\ \A v \in Slots : v # w => slot'[v] = slot[v]
          \/ Leave(w, job)
      BY <1>6, <2>2 DEF StageFailsRetryably, TypeOK, Busy
    <2>4. \A v \in Slots : v # w => slot'[v] = slot[v]
      BY <2>3 DEF Leave, TypeOK
    <2> QED
      BY <2>1, <2>3, <2>4, OutcomeKeeps
  <1>7. ASSUME NEW outcome \in {"succeeded", "failed"}, StageSettles(w, outcome)
        PROVE  Kept(x)
    <2>1. /\ Returns(w) /\ Record(job.run, job.stage, outcome, job.payload)
          /\ UNCHANGED <<status, currentStage, stored, memory, pending, request, aside>>
          /\ slot' = [slot EXCEPT ![w].pc = outcome]
      BY <1>7 DEF StageSettles
    <2>2. slot[w] \in Busy
      BY <2>1, BusySlot DEF Returns, Idle
    <2>3. /\ slot'[w].pc = outcome /\ slot'[w].job = job /\ slot'[w].entry = slot[w].entry
          /\ \A v \in Slots : v # w => slot'[v] = slot[v]
      BY <2>1, <2>2 DEF TypeOK, Busy
    <2> QED
      BY <2>1, <2>3, OutcomeKeeps
  <1>8. CASE Proceed(w)
    <2>1. /\ slot[w] # Idle /\ slot[w].pc \in {"succeeded", "failed"}
          /\ UNCHANGED <<results, stored, saving, aborted, request, setup, astray>>
      BY <1>8 DEF Proceed, Idle
    <2>2. CASE Fail(w)
      BY <2>1, <2>2, FailKeeps
    <2>3. CASE slot[w].pc = "succeeded" /\ Advance(w)
      <3>1. job.run = x /\ status[x] = "running" => IsDone(job)
        BY <2>3 DEF Sound, Working, WorkIsDue, Terminal
      <3> QED
        BY <2>1, <2>3, <3>1, AdvanceKeeps
    <2> QED
      BY <1>8, <2>2, <2>3 DEF Proceed
  <1> QED
    BY <1>1, <1>2, <1>3, <1>4, <1>5, <1>6, <1>7, <1>8 DEF WorkerStep

-----------------------------------------------------------------------------
\* Crashes.

\* The jobs that are left after a crash: none, or with Redis the ones that were waiting
\* and the one in a slot, of which a run that goes on had only one.
LEMMA LeftByCrash ==
    ASSUME TypeOK, IsFiniteSet(Slots), NEW x \in Runs, Sound(x), x \notin astray',
           NEW cutOff \in SUBSET Runs, LoseMemory(cutOff)
    PROVE  /\ inFlight'[x] = None /\ saving'[x] = None
           /\ \A w \in Slots : slot'[w] = Idle
           /\ Durable' = Durable
           /\ Waiting(x)' => KeptByRedis' /\ status[x] # "absent"
           /\ status[x] \notin Terminal =>
                 /\ \A i, j \in DOMAIN pending' :
                       pending'[i].run = x /\ pending'[j].run = x => i = j
                 /\ \A i \in DOMAIN pending' : pending'[i].run = x =>
                       \A before \in 1 .. pending'[i].stage - 1 :
                           Checkpointed(results[x], before, pending'[i].payload)
PROOF
  <1>1. /\ inFlight'[x] = None /\ saving'[x] = None
        /\ \A w \in Slots : slot'[w] = Idle
        /\ Durable' = Durable /\ spent'.crashes = spent.crashes + 1
    BY DEF LoseMemory, Durable, TypeOK
  <1>2. CASE ~Durable
    <2>1. pending' = <<>>
      BY <1>2 DEF LoseMemory
    <2> QED
      BY <1>1, <2>1 DEF Waiting
  <1>3. CASE Durable
    <2>1. PICK jobs \in Redelivered : pending' = pending \o jobs
      BY <1>3 DEF LoseMemory
    <2>2. /\ jobs \in Seq(Job) /\ pending \in Seq(Job)
      BY RedeliveredJobs DEF TypeOK
    <2>3. PICK held \in [DOMAIN jobs -> {w \in Slots : slot[w] # Idle}] :
            /\ \A i \in DOMAIN jobs : jobs[i] = Unfinished(slot[held[i]].job)
            /\ \A i, j \in DOMAIN jobs : held[i] = held[j] => i = j
      BY RedeliveredJobs
    <2>4. \A i \in DOMAIN pending' :
            \/ i \in DOMAIN pending /\ pending'[i] = pending[i]
            \/ /\ i \notin DOMAIN pending
               /\ i - Len(pending) \in DOMAIN jobs
               /\ pending'[i] = jobs[i - Len(pending)]
      BY <2>1, <2>2
    <2>5. KeptByRedis'
      BY <1>1, <1>3 DEF KeptByRedis, TypeOK
    <2>6. \A k \in DOMAIN jobs :
            /\ jobs[k].run = slot[held[k]].job.run
            /\ jobs[k].stage = slot[held[k]].job.stage
            /\ jobs[k].payload = slot[held[k]].job.payload
      <3> SUFFICES ASSUME NEW k \in DOMAIN jobs
                   PROVE  /\ jobs[k].run = slot[held[k]].job.run
                          /\ jobs[k].stage = slot[held[k]].job.stage
                          /\ jobs[k].payload = slot[held[k]].job.payload
        OBVIOUS
      <3>1. slot[held[k]].job \in Job
        BY <2>3, HeldJob
      <3> QED
        BY <2>3, <3>1 DEF Unfinished, Job
    <2>7. ASSUME Waiting(x)' PROVE status[x] # "absent"
      <3>1. PICK i \in DOMAIN pending' : pending'[i].run = x
        BY <2>7 DEF Waiting
      <3>2. CASE i \in DOMAIN pending /\ pending'[i] = pending[i]
        BY <3>1, <3>2 DEF Waiting, Sound
      <3>3. CASE i - Len(pending) \in DOMAIN jobs /\ pending'[i] = jobs[i - Len(pending)]
        <4>1. held[i - Len(pending)] \in Slots /\ Holds(held[i - Len(pending)], x)
          BY <2>3, <2>6, <3>1, <3>3 DEF Holds
        <4> QED
          BY <4>1 DEF Sound
      <3> QED
        BY <2>4, <3>2, <3>3
    <2>8. ASSUME status[x] \notin Terminal
          PROVE  /\ \A i, j \in DOMAIN pending' :
                       pending'[i].run = x /\ pending'[j].run = x => i = j
                 /\ \A i \in DOMAIN pending' : pending'[i].run = x =>
                       \A before \in 1 .. pending'[i].stage - 1 :
                           Checkpointed(results[x], before, pending'[i].payload)
      \* No report about it was missing, so every job of it given back was at work.
      <3>1. \A w \in Slots : Holds(w, x) => Working(w, x)
        <4> SUFFICES ASSUME NEW w \in Slots, Holds(w, x) PROVE Working(w, x)
          OBVIOUS
        <4>1. slot[w].pc # "completed"
          BY <1>3, <2>8 DEF LoseMemory, Holds
        <4> QED
          BY <4>1, BusySlot DEF Holds, Working, Busy
      <3>2. \A k \in DOMAIN jobs : jobs[k].run = x => Working(held[k], x) /\ held[k] \in Slots
        BY <2>3, <2>6, <3>1 DEF Holds
      <3>3. OneJob(x)
        BY <2>8 DEF Sound
      <3>4. ASSUME NEW i \in DOMAIN pending', NEW j \in DOMAIN pending',
                   pending'[i].run = x, pending'[j].run = x
            PROVE  i = j
        <4>1. CASE i \in DOMAIN pending /\ pending'[i] = pending[i]
                   /\ j \in DOMAIN pending /\ pending'[j] = pending[j]
          BY <3>3, <3>4, <4>1 DEF OneJob
        <4>2. ASSUME NEW k \in DOMAIN jobs, jobs[k].run = x PROVE ~Waiting(x)
          BY <3>2, <3>3, <4>2 DEF OneJob
        <4>3. CASE i - Len(pending) \in DOMAIN jobs /\ pending'[i] = jobs[i - Len(pending)]
                   /\ j - Len(pending) \in DOMAIN jobs /\ pending'[j] = jobs[j - Len(pending)]
          <5>1. i - Len(pending) = j - Len(pending)
            BY <2>3, <3>2, <3>3, <3>4, <4>3 DEF OneJob
          <5>2. i \in Nat /\ j \in Nat /\ Len(pending) \in Nat
            BY <2>1, <2>2
          <5> QED
            BY <5>1, <5>2
        <4> QED
          BY <2>4, <3>4, <4>1, <4>2, <4>3 DEF Waiting
      <3>5. ASSUME NEW i \in DOMAIN pending', pending'[i].run = x,
                   NEW before \in 1 .. pending'[i].stage - 1
            PROVE  Checkpointed(results[x], before, pending'[i].payload)
        <4>1. CASE i \in DOMAIN pending /\ pending'[i] = pending[i]
          BY <2>8, <3>5, <4>1 DEF Sound, JobIsDue, Ready
        <4>2. CASE i - Len(pending) \in DOMAIN jobs /\ pending'[i] = jobs[i - Len(pending)]
          <5>1. PICK w \in Slots : /\ Working(w, x) /\ slot[w].job.stage = pending'[i].stage
                                   /\ slot[w].job.payload = pending'[i].payload
            BY <2>6, <3>2, <3>5, <4>2
          <5>2. slot[w].job.run = x /\ Ready(slot[w].job)
            BY <2>8, <5>1 DEF Sound, WorkIsDue, Working
          <5> QED
            BY <3>5, <5>1, <5>2 DEF Ready
        <4> QED
          BY <2>4, <4>1, <4>2
      <3> QED
        BY <3>4, <3>5
    <2> QED
      BY <1>1, <2>5, <2>7, <2>8
  <1> QED
    BY <1>2, <1>3

\* After a crash that left the results of x alone and its status too, or made it
\* succeeded as it should.
LEMMA CrashKeepsRow ==
    ASSUME TypeOK, TypeOK', IsFiniteSet(Slots), NEW x \in Runs, Sound(x), x \notin astray',
           NEW cutOff \in SUBSET Runs, LoseMemory(cutOff), results'[x] = results[x],
           \/ status'[x] = status[x]
           \/ /\ status[x] = "running" /\ status'[x] = "succeeded"
              /\ \E p \in Payloads : \A s \in Stages : Checkpointed(results[x], s, p)
    PROVE  Sound(x)' /\ RowMoves(x)
PROOF
  <1>1. /\ inFlight'[x] = None /\ saving'[x] = None
        /\ \A w \in Slots : slot'[w] = Idle
        /\ Waiting(x)' => KeptByRedis' /\ status[x] # "absent"
        /\ status[x] \notin Terminal =>
              /\ \A i, j \in DOMAIN pending' :
                    pending'[i].run = x /\ pending'[j].run = x => i = j
              /\ \A i \in DOMAIN pending' : pending'[i].run = x =>
                    \A before \in 1 .. pending'[i].stage - 1 :
                        Checkpointed(results[x], before, pending'[i].payload)
    BY LeftByCrash
  <1>2. \A w \in Slots : ~Working(w, x)' /\ ~Holds(w, x)'
    BY <1>1 DEF Working, Holds, Idle
  <1>3. RowMoves(x)
    BY DEF RowMoves
  <1>4. CASE status'[x] \in {"failed", "succeeded"}
    <2>1. Complete(x)'
      BY DEF Complete, Sound
    <2> QED
      BY <1>1, <1>2, <1>3, <1>4, <2>1, SoundAtRest
  <1>5. CASE status'[x] = "cancelled"
    BY <1>1, <1>2, <1>3, <1>5, SoundCancelled
  <1>6. CASE status'[x] \in {"queued", "running", "paused"}
    <2>1. \A i \in DOMAIN pending' : pending'[i].run = x => JobIsDue(i)' /\ KeptByRedis'
      BY <1>1, <1>6 DEF JobIsDue, Ready, Waiting, Terminal
    <2>2. \A i, j \in DOMAIN pending' : pending'[i].run = x /\ pending'[j].run = x => i = j
      BY <1>1, <1>6 DEF Terminal
    <2> QED
      BY <1>1, <1>2, <1>3, <1>6, <2>1, <2>2, SoundInLine
  <1>7. CASE status'[x] = "absent"
    <2>1. status[x] = "absent" /\ \A i \in DOMAIN pending' : pending'[i].run # x
      BY <1>1, <1>7 DEF Waiting
    <2> QED
      BY <1>1, <1>2, <1>3, <1>7, <2>1 DEF Sound, OneJob, HasJob, Waiting, Complete
  <1> QED
    BY <1>4, <1>5, <1>6, <1>7 DEF TypeOK, RunStatus

LEMMA CrashKeeps ==
    ASSUME TypeOK, TypeOK', IsFiniteSet(Slots), NEW x \in Runs, Sound(x), x \notin astray',
           Crash \/ CrashBetweenWrites
    PROVE  Kept(x)
PROOF
  <1>0. Sealed(x)
    BY DEF Crash, CrashBetweenWrites, row, Sealed
  <1>1. CASE Crash
    BY <1>0, <1>1, CrashKeepsRow DEF Crash, row, Kept
  <1>2. ASSUME NEW r \in Runs, status[r] \notin Terminal \cup {"absent"},
               currentStage[r] # None, Record(r, currentStage[r], "cancelled", None),
               UNCHANGED status, LoseMemory({r})
        PROVE  Kept(x)
    <2>1. CASE r # x
      BY <1>0, <1>2, <2>1, CrashKeepsRow DEF Record, Kept, TypeOK
    <2>2. CASE r = x
      <3>1. /\ ~Durable /\ pending' = <<>> /\ saving'[x] = None
            /\ \A w \in Slots : slot'[w] = Idle
        BY <1>2, <2>2 DEF LoseMemory
      <3>2. status[x] \in {"queued", "running", "paused"} /\ status'[x] = status[x]
        BY <1>2, <2>2 DEF TypeOK, RunStatus, Terminal
      <3>3. \A w \in Slots : ~Working(w, x)'
        BY <3>1 DEF Working, Idle
      <3>4. Sound(x)'
        BY <3>1, <3>2, <3>3, SoundInLine
      <3>5. RowMoves(x)
        BY <1>2, <2>2, <3>2 DEF Record, RowMoves, TypeOK
      <3> QED
        BY <1>0, <3>4, <3>5 DEF Kept
    <2> QED
      BY <2>1, <2>2
  <1>3. ASSUME NEW w \in Slots, slot[w].pc = "succeeded", LastStage(slot[w].job.stage),
               MayMove(status[slot[w].job.run], "succeeded"),
               status' = [status EXCEPT ![slot[w].job.run] = "succeeded"],
               UNCHANGED results, LoseMemory({})
        PROVE  Kept(x)
    <2>1. CASE slot[w].job.run # x
      BY <1>0, <1>3, <2>1, CrashKeepsRow DEF Kept, TypeOK
    <2>2. CASE slot[w].job.run = x
      <3>1. Working(w, x) /\ slot[w].job \in Job /\ slot[w] # Idle
        BY <1>3, <2>2, BusySlot DEF Working, Idle
      <3>2. status[x] = "running" /\ WorkIsDue(w)
        BY <1>3, <2>2, <3>1, AtWork DEF MayMove, Transitions
      <3>3. Ready(slot[w].job) /\ IsDone(slot[w].job)
        BY <1>3, <2>2, <3>2 DEF WorkIsDue, Terminal
      <3>4. \A s \in Stages : Checkpointed(results[x], s, slot[w].job.payload)
        BY <1>3, <2>2, <3>3, NumStagesAssumption DEF Ready, IsDone, LastStage, Stages
      <3>5. \E p \in Payloads : \A s \in Stages : Checkpointed(results[x], s, p)
        BY <3>1, <3>4 DEF Job
      <3>6. status'[x] = "succeeded" /\ results'[x] = results[x]
        BY <1>3, <2>2 DEF TypeOK
      <3> QED
        BY <1>0, <1>3, <3>2, <3>5, <3>6, CrashKeepsRow DEF Kept
    <2> QED
      BY <2>1, <2>2
  <1> QED
    BY <1>1, <1>2, <1>3 DEF CrashBetweenWrites

-----------------------------------------------------------------------------
\* Every step.

\* A run that is not astray after a step was kept by it.
LEMMA StepKeeps ==
    ASSUME TypeOK, TypeOK', IsFiniteSet(Slots), NEW x \in Runs, Sound(x), x \notin astray',
           [Next]_vars
    PROVE  Kept(x)
PROOF
  <1>1. CASE UNCHANGED vars
    <2>1. RowKept(x) /\ QueueKept(x, 0) /\ SlotsKept(x) /\ QueueIsTheSame
      BY <1>1, SameQueue, SameSlots
         DEF vars, row, memory, aside, RowKept, QueueIsTheSame, Durable
    <2> QED
      BY <2>1, UntouchedRun
  <1>2. CASE \E w \in Slots : WorkerStep(w)
    BY <1>2, WorkerKeeps
  <1>3. CASE Crash \/ CrashBetweenWrites
    BY <1>3, CrashKeeps
  <1>4. ASSUME NEW q \in Requests,
               \/ \E r \in Runs : ResumeReads(q, r)
               \/ ResumeFindsNoPayload(q) \/ ResumeLoads(q)
        PROVE  Kept(x)
    BY <1>4, ResumeReadsKeeps, ResumeFindsNoPayloadKeeps, ResumeLoadsKeeps
  <1>5. ASSUME NEW r \in Runs,
               \/ \E p \in Payloads : StartCreates(r, p)
               \/ StartSaves(r) \/ StartFailsToSave(r) \/ Cancel(r)
               \/ \E p \in Payloads \cup {None} : PayloadChanges(r, p)
        PROVE  Kept(x)
    BY <1>5, StartKeeps, CancelKeeps
  <1> QED
    BY <1>1, <1>2, <1>3, <1>4, <1>5 DEF Next

\* Who is astray stays it.  Whose row is final does not go astray.
LEMMA GoingAstray ==
    ASSUME Inv, [Next]_vars, NEW x \in Runs
    PROVE  /\ x \in astray => x \in astray'
           /\ x \in astray' /\ x \notin astray =>
                  status[x] \in {"queued", "running", "paused", "failed"}
PROOF
  <1>1. CASE UNCHANGED <<setup, spent, astray>> \/ UNCHANGED <<setup, astray>>
    BY <1>1
  <1>2. ASSUME NEW q \in Requests, ResumeLoads(q)
        PROVE  /\ x \in astray => x \in astray'
               /\ x \in astray' /\ x \notin astray =>
                      status[x] \in {"queued", "running", "paused", "failed"}
    <2> DEFINE r == request[q].run
    <2>1. r \in Runs /\ status[r] \in RunStatus
      <3>1. request[q] \in Loading
        BY <1>2 DEF Inv, ResumeLoads, TypeOK, Loading, Refused, Idle
      <3>2. r \in Runs
        BY <3>1 DEF Loading
      <3> QED
        BY <1>2, <3>2 DEF Inv, ResumeLoads, ResumedExists, TypeOK
    <2>2. CASE astray' = astray
      BY <2>2
    <2>3. CASE MayMove(status[r], "queued") /\ astray' = astray \cup {r}
      <3>1. status[r] \in {"queued", "failed"}
        BY <2>1, <2>3 DEF MayMove, Transitions, RunStatus
      <3> QED
        BY <2>3, <3>1
    <2> QED
      BY <1>2, <2>2, <2>3 DEF ResumeLoads
  <1>3. ASSUME NEW cutOff \in SUBSET Runs, LoseMemory(cutOff),
               \A r \in cutOff : status[r] \notin Terminal \cup {"absent"}
        PROVE  /\ x \in astray => x \in astray'
               /\ x \in astray' /\ x \notin astray =>
                      status[x] \in {"queued", "running", "paused", "failed"}
    <2>1. ASSUME x \in astray', x \notin astray PROVE status[x] \notin Terminal \cup {"absent"}
      <3>1. CASE x \in cutOff
        BY <1>3, <3>1
      <3>2. ASSUME status[x] \notin Terminal, NEW w \in Slots, slot[w].pc = "completed",
                   slot[w].job.run = x
            PROVE  status[x] # "absent"
        BY <2>1, <3>2 DEF Inv, Sound, Holds, Idle
      <3> QED
        BY <1>3, <2>1, <3>1, <3>2 DEF LoseMemory
    <2> QED
      BY <1>3, <2>1 DEF LoseMemory, Inv, TypeOK, RunStatus, Terminal
  <1>4. CASE Crash \/ CrashBetweenWrites
    BY <1>3, <1>4 DEF Crash, CrashBetweenWrites
  <1>5. ASSUME NEW w \in Slots, WorkerStep(w) PROVE UNCHANGED <<setup, astray>>
    BY <1>5 DEF WorkerStep, PickUp, Decide, BackoffEnds, Acknowledge, StageAborted,
                StageFailsRetryably, Proceed, StageSettles, aside
  <1>6. ASSUME NEW r \in Runs,
               \/ \E p \in Payloads : StartCreates(r, p)
               \/ StartSaves(r) \/ StartFailsToSave(r) \/ Cancel(r)
               \/ \E p \in Payloads \cup {None} : PayloadChanges(r, p)
               \/ \E q \in Requests : ResumeReads(q, r)
        PROVE  UNCHANGED <<setup, astray>>
    BY <1>6 DEF StartCreates, StartSaves, StartFailsToSave, Cancel, PayloadChanges,
                ResumeReads, aside
  <1>7. ASSUME NEW q \in Requests, ResumeFindsNoPayload(q) PROVE UNCHANGED <<setup, astray>>
    BY <1>7 DEF ResumeFindsNoPayload, aside
  <1>8. CASE UNCHANGED vars
    BY <1>8 DEF vars, aside
  <1> QED
    BY <1>1, <1>2, <1>4, <1>5, <1>6, <1>7, <1>8 DEF Next

LEMMA ResumedExistsStep ==
    ASSUME TypeOK, TypeOK', ResumedExists, [Next]_vars
    PROVE  ResumedExists'
PROOF
  <1> SUFFICES ASSUME NEW q \in Requests, request'[q].pc = "loading"
               PROVE  status'[request'[q].run] # "absent"
    BY DEF ResumedExists
  <1> DEFINE Came == request'[q] = request[q] \/ \E r \in Runs : ResumeReads(q, r)
  \* No step makes a row disappear.
  <1>1. ASSUME NEW x \in Runs, status[x] # "absent" PROVE status'[x] # "absent"
    <2>1. ASSUME NEW w \in Slots, WorkerStep(w) PROVE status'[x] # "absent"
      <3>1. ASSUME NEW job, Arrive(w, job) PROVE status'[x] # "absent"
        BY <1>1, <3>1 DEF Arrive, MakeRunning, row, TypeOK
      <3>2. ASSUME Fail(w) \/ Advance(w) PROVE status'[x] # "absent"
        BY <1>1, <3>2 DEF Fail, Advance, TypeOK
      <3> QED
        BY <1>1, <2>1, <3>1, <3>2
           DEF WorkerStep, PickUp, Decide, BackoffEnds, Acknowledge, StageAborted,
               StageFailsRetryably, Proceed, StageSettles, row
    <2>2. ASSUME NEW r \in Runs,
                 \/ \E p \in Payloads : StartCreates(r, p)
                 \/ StartSaves(r) \/ StartFailsToSave(r) \/ Cancel(r)
                 \/ \E p \in Payloads \cup {None} : PayloadChanges(r, p)
                 \/ \E p \in Requests : ResumeReads(p, r)
          PROVE  status'[x] # "absent"
      BY <1>1, <2>2 DEF StartCreates, StartSaves, StartFailsToSave, Cancel, PayloadChanges,
                        ResumeReads, row, TypeOK
    <2>3. ASSUME NEW p \in Requests, ResumeFindsNoPayload(p) \/ ResumeLoads(p)
          PROVE  status'[x] # "absent"
      BY <1>1, <2>3 DEF ResumeFindsNoPayload, ResumeLoads, row, TypeOK
    <2>4. CASE Crash \/ CrashBetweenWrites \/ UNCHANGED vars
      BY <1>1, <2>4 DEF Crash, CrashBetweenWrites, vars, row, TypeOK
    <2> QED
      BY <2>1, <2>2, <2>3, <2>4 DEF Next
  <1>2. Came
    <2>1. ASSUME NEW w \in Slots, WorkerStep(w) PROVE Came
      BY <2>1 DEF WorkerStep, PickUp, Decide, BackoffEnds, Acknowledge, StageAborted,
                  StageFailsRetryably, Proceed, StageSettles
    <2>2. ASSUME NEW r \in Runs,
                 \/ \E p \in Payloads : StartCreates(r, p)
                 \/ StartSaves(r) \/ StartFailsToSave(r) \/ Cancel(r)
                 \/ \E p \in Payloads \cup {None} : PayloadChanges(r, p)
          PROVE  Came
      BY <2>2 DEF StartCreates, StartSaves, StartFailsToSave, Cancel, PayloadChanges
    <2>3. ASSUME NEW p \in Requests, NEW r \in Runs, ResumeReads(p, r) PROVE Came
      <3>1. CASE p = q
        BY <2>3, <3>1
      <3>2. CASE p # q
        BY <2>3, <3>2 DEF ResumeReads, TypeOK
      <3> QED
        BY <3>1, <3>2
    <2>4. ASSUME NEW p \in Requests, ResumeFindsNoPayload(p) \/ ResumeLoads(p) PROVE Came
      <3>1. request' = [request EXCEPT ![p] = Idle]
        BY <2>4 DEF ResumeFindsNoPayload, ResumeLoads
      <3>2. p # q
        BY <3>1 DEF Idle, TypeOK
      <3> QED
        BY <3>1, <3>2 DEF TypeOK
    <2>5. CASE Crash \/ CrashBetweenWrites \/ UNCHANGED vars
      BY <2>5 DEF Crash, CrashBetweenWrites, LoseMemory, Idle, vars
    <2> QED
      BY <2>1, <2>2, <2>3, <2>4, <2>5 DEF Next
  <1>3. request'[q] \in Loading /\ request'[q].run \in Runs
    BY DEF TypeOK, Loading, Refused, Idle
  <1>4. CASE request'[q] = request[q]
    BY <1>1, <1>3, <1>4 DEF ResumedExists
  <1>5. ASSUME NEW r \in Runs, ResumeReads(q, r) PROVE status'[request'[q].run] # "absent"
    BY <1>1, <1>3, <1>5 DEF ResumeReads, MayResume, TypeOK
  <1> QED
    BY <1>2, <1>4, <1>5

LEMMA InvInit == Init => Inv
PROOF
  <1> SUFFICES ASSUME Init PROVE Inv
    OBVIOUS
  <1>1. /\ \A r \in Runs : status[r] = "absent" /\ inFlight[r] = None /\ saving[r] = None
        /\ \A w \in Slots : slot[w] = Idle
        /\ pending = <<>>
        /\ \A q \in Requests : request[q] = Idle
    BY DEF Init
  <1>2. \A r \in Runs : Sound(r)
    BY <1>1 DEF Sound, OneJob, Working, Waiting, HasJob, Holds, Complete, Idle, Terminal
  <1>3. ResumedExists
    BY <1>1 DEF ResumedExists, Idle
  <1> QED
    BY <1>2, <1>3, TypeInit DEF Inv

LEMMA InvStep ==
    ASSUME Inv, IsFiniteSet(Slots), [Next]_vars
    PROVE  Inv'
PROOF
  <1>1. TypeOK /\ TypeOK' /\ ResumedExists'
    BY TypeStep, ResumedExistsStep DEF Inv
  <1>2. ASSUME NEW r \in Runs, r \notin astray' PROVE Sound(r)'
    <2>1. Sound(r)
      BY <1>2, GoingAstray DEF Inv
    <2> QED
      BY <1>1, <1>2, <2>1, StepKeeps DEF Kept
  <1> QED
    BY <1>1, <1>2 DEF Inv

LEMMA InvAlways ==
    ASSUME IsFiniteSet(Slots)
    PROVE  Spec => []Inv
PROOF
  <1>1. Inv /\ [Next]_vars => Inv'
    BY InvStep
  <1> QED
    BY <1>1, InvInit, PTL DEF Spec

-----------------------------------------------------------------------------
\* What follows, for every run that has not gone astray.

\* A run that is not over has at most one job, waiting or in a slot, whichever queue
\* there is and however many resumes interleave: a second one takes a resume that was
\* overtaken while it read the payload, or Redis handing out a job whose next one, or
\* whose resume, is already there, and nothing else.
THEOREM OneJobPerRunHolds ==
    ASSUME IsFiniteSet(Slots)
    PROVE  Spec => []OneJobPerRun
PROOF
  <1>1. Inv => OneJobPerRun
    BY DEF Inv, Sound, OneJobPerRun
  <1> QED
    BY <1>1, InvAlways, PTL

\* The controller a working handler holds is the one in the map, until the run stops.
THEOREM CancelAlwaysReachesWork ==
    ASSUME IsFiniteSet(Slots)
    PROVE  Spec => []CancelReachesWork
PROOF
  <1>1. Inv => CancelReachesWork
    BY AtWork DEF Inv, CancelReachesWork, Terminal
  <1> QED
    BY <1>1, InvAlways, PTL

\* A run that succeeded or failed has no handler at work and no entry in the map, and
\* no job that Redis did not keep over a crash.
THEOREM SettledRunsAreQuiet ==
    ASSUME IsFiniteSet(Slots)
    PROVE  Spec => []SettledRunIsQuiet
PROOF
  <1>1. Inv => SettledRunIsQuiet
    BY DEF Inv, Sound, SettledRunIsQuiet, KeptByRedis
  <1> QED
    BY <1>1, InvAlways, PTL

\* Work that may still write is due.
LEMMA ExecutingIsDue ==
    ASSUME Inv, NEW w \in Slots, slot[w].pc = "executing", ~Cancelled(w),
           slot[w].job.run \notin astray
    PROVE  Ready(slot[w].job) /\ ~IsDone(slot[w].job)
PROOF
  <1>1. slot[w].job.run \in Runs /\ Working(w, slot[w].job.run)
    BY BusySlot DEF Inv, Idle, Working
  <1>2. WorkIsDue(w) /\ status[slot[w].job.run] \in {"running", "cancelled"}
    BY <1>1, AtWork DEF Inv
  <1> QED
    BY <1>2 DEF WorkIsDue, Terminal

\* A stage is executed only on top of checkpoints of every earlier stage made from the
\* same payload, for any number of stages, crashes, edits and resumes.
THEOREM CheckpointsAreInOrder ==
    ASSUME IsFiniteSet(Slots)
    PROVE  Spec => []CheckpointsInOrder
PROOF
  <1>1. Inv => CheckpointsInOrder
    BY ExecutingIsDue DEF CheckpointsInOrder, Ready
  <1> QED
    BY <1>1, InvAlways, PTL

\* A stage that succeeded on the payload is not executed again, also when Redis hands
\* its job out a second time.
THEOREM FinishedStagesAreNotRerun ==
    ASSUME IsFiniteSet(Slots)
    PROVE  Spec => []FinishedStageIsNotRerun
PROOF
  <1>1. Inv => FinishedStageIsNotRerun
    BY ExecutingIsDue DEF FinishedStageIsNotRerun, IsDone
  <1> QED
    BY <1>1, InvAlways, PTL

\* A run that succeeded has every stage it asked for checkpointed on one payload.
THEOREM SucceededRunsAreComplete ==
    ASSUME IsFiniteSet(Slots)
    PROVE  Spec => []SucceededRunIsComplete
PROOF
  <1>1. Inv => SucceededRunIsComplete
    BY DEF Inv, Sound, Complete, SucceededRunIsComplete
  <1> QED
    BY <1>1, InvAlways, PTL

\* The row of a run that was cancelled or succeeded is never written again.
THEOREM FinalRunsAreSealed ==
    ASSUME IsFiniteSet(Slots)
    PROVE  Spec => FinalRunIsSealed
PROOF
  <1> DEFINE StaysSealed == \A r \in Runs \ astray :
               status[r] \in {"succeeded", "cancelled"} =>
                   /\ status'[r] = status[r]
                   /\ currentStage'[r] = currentStage[r]
                   /\ results'[r] = results[r]
  <1>1. Inv /\ [Next]_vars => StaysSealed
    <2> SUFFICES ASSUME Inv, [Next]_vars, NEW r \in Runs, r \notin astray,
                        status[r] \in {"succeeded", "cancelled"}
                 PROVE  /\ status'[r] = status[r]
                        /\ currentStage'[r] = currentStage[r]
                        /\ results'[r] = results[r]
      OBVIOUS
    <2>1. r \notin astray'
      BY GoingAstray
    <2>2. Kept(r)
      BY <2>1, StepKeeps, TypeStep DEF Inv
    <2> QED
      BY <2>2 DEF Kept, RowMoves, Sealed
  <1> HIDE DEF StaysSealed
  <1>2. Spec => [][StaysSealed]_vars
    BY <1>1, InvAlways, PTL DEF Spec
  <1> QED
    BY <1>2 DEF StaysSealed, FinalRunIsSealed

-----------------------------------------------------------------------------
\* Refinement.

\* What RowMoves says is what RunLifecycle allows.
LEMMA RowMovesLive ==
    ASSUME NEW x \in Runs, x \notin astray, x \notin astray', RowMoves(x)
    PROVE  Lifecycle!Step(x) \/ Lifecycle!Stay(x)
PROOF
  <1> DEFINE St == [r \in Runs |-> IF r \in astray THEN "astray" ELSE status[r]]
             Re == [r \in Runs |-> IF r \in astray THEN [s \in Stages |-> NoResult]
                                                   ELSE results[r]]
  <1>1. St[x] = status[x] /\ Re[x] = results[x] /\ St'[x] = status'[x] /\ Re'[x] = results'[x]
    OBVIOUS
  <1>2. CASE status'[x] = status[x] /\ results'[x] = results[x]
    BY <1>1, <1>2 DEF Lifecycle!Stay, Lifecycle!SameStatus, Lifecycle!SameResults
  <1>3. CASE /\ results'[x] = results[x]
             /\ \/ status[x] = "absent" /\ status'[x] = "queued"
                \/ status[x] \in {"queued", "paused"} /\ status'[x] = "running"
                \/ status[x] = "running" /\ status'[x] = "failed"
                \/ status[x] = "failed" /\ status'[x] = "queued"
    <2>1. \/ Lifecycle!Create(x) \/ Lifecycle!Begin(x)
          \/ Lifecycle!Fail(x) \/ Lifecycle!Requeue(x)
      BY <1>1, <1>3 DEF Lifecycle!Create, Lifecycle!Begin, Lifecycle!Fail,
           Lifecycle!Requeue, Lifecycle!Move, Lifecycle!SameResults
    <2> QED
      BY <2>1 DEF Lifecycle!Step
  <1>4. CASE /\ status[x] = "running" /\ status'[x] = "succeeded"
             /\ results'[x] = results[x]
             /\ \E p \in Payloads : \A s \in Stages : Checkpointed(results[x], s, p)
    <2>1. Lifecycle!Succeed(x)
      BY <1>1, <1>4 DEF Lifecycle!Succeed, Lifecycle!Move, Lifecycle!SameResults,
           Lifecycle!Done, Lifecycle!Stages, Stages, Checkpointed
    <2> QED
      BY <2>1 DEF Lifecycle!Step
  <1>5. CASE /\ status[x] \in {"queued", "running", "paused"}
             /\ status'[x] \in {status[x], "cancelled"}
             /\ \/ results'[x] = results[x]
                \/ \E s \in Stages : results'[x] =
                      [results[x] EXCEPT ![s] = [status |-> "cancelled", hash |-> None]]
    <2>1. Lifecycle!Cancel(x) \/ Lifecycle!CancelCutOff(x) \/ Lifecycle!Stay(x)
      BY <1>1, <1>5 DEF Lifecycle!Cancel, Lifecycle!CancelCutOff, Lifecycle!Stay,
           Lifecycle!Move, Lifecycle!Note, Lifecycle!SameStatus, Lifecycle!SameResults,
           Lifecycle!Stages, Stages
    <2> QED
      BY <2>1 DEF Lifecycle!Step
  <1>6. ASSUME status[x] = "running", status'[x] = "running", NEW s \in Stages,
               NEW p \in Payloads, NEW outcome \in {"succeeded", "failed"},
               \A before \in 1 .. s - 1 : Checkpointed(results[x], before, p),
               ~Checkpointed(results[x], s, p),
               results'[x] = [results[x] EXCEPT ![s] = [status |-> outcome, hash |-> p]]
        PROVE  Lifecycle!Step(x)
    <2>1. Lifecycle!Due(x, s, p)
      BY <1>1, <1>6 DEF Lifecycle!Due, Lifecycle!Done, Checkpointed
    <2>2. Lifecycle!Note(x, s, outcome, p)
      BY <1>1, <1>6 DEF Lifecycle!Note
    <2>3. Lifecycle!FinishStage(x, s, p) \/ Lifecycle!FailStage(x, s, p)
      BY <1>1, <1>6, <2>1, <2>2
         DEF Lifecycle!FinishStage, Lifecycle!FailStage, Lifecycle!SameStatus
    <2> QED
      BY <2>3 DEF Lifecycle!Step, Lifecycle!Stages, Stages
  <1> QED
    BY <1>2, <1>3, <1>4, <1>5, <1>6 DEF RowMoves

\* Whoever reads the rows sees RunLifecycle: a step of the runner moves the row of each
\* run by an action of RunLifecycle, leaves it alone, or loses its hold on the run.
THEOREM RunnerImplementsLifecycle ==
    ASSUME IsFiniteSet(Slots)
    PROVE  Spec => ImplementsLifecycle
PROOF
  <1>1. Init => Lifecycle!Init
    BY DEF Init, NoResult, Lifecycle!Init, Lifecycle!NoResults, Lifecycle!Stages, Stages
  <1>2. Inv /\ [Next]_vars => Lifecycle!Next
    <2> SUFFICES ASSUME Inv, [Next]_vars PROVE Lifecycle!Next
      OBVIOUS
    <2>1. ASSUME NEW x \in Runs PROVE Lifecycle!Step(x) \/ Lifecycle!Stay(x)
      <3>1. CASE x \notin astray'
        <4>1. x \notin astray /\ Sound(x)
          BY <3>1, GoingAstray DEF Inv
        <4>2. Kept(x)
          BY <3>1, <4>1, StepKeeps, TypeStep DEF Inv
        <4> QED
          BY <3>1, <4>1, <4>2, RowMovesLive DEF Kept
      <3>2. CASE x \in astray
        <4>1. x \in astray'
          BY <3>2, GoingAstray
        <4>2. Lifecycle!Stay(x)
          BY <3>2, <4>1 DEF Lifecycle!Stay, Lifecycle!SameStatus, Lifecycle!SameResults
        <4> QED
          BY <4>2
      <3>3. CASE x \in astray' /\ x \notin astray
        <4>1. status[x] \in {"queued", "running", "paused", "failed"}
          BY <3>3, GoingAstray
        <4>2. Lifecycle!GoAstray(x)
          BY <3>3, <4>1 DEF Lifecycle!GoAstray, Lifecycle!Move, Lifecycle!NoResults,
               Lifecycle!Stages, Stages, NoResult
        <4> QED
          BY <4>2 DEF Lifecycle!Step
      <3> QED
        BY <3>1, <3>2, <3>3
    <2> QED
      BY <2>1 DEF Lifecycle!Next
  <1> QED
    BY <1>1, <1>2, InvAlways, PTL DEF Spec, ImplementsLifecycle, Lifecycle!Spec

=============================================================================
