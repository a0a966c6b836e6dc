------------------------------ MODULE ModelCalls ------------------------------
(***************************************************************************)
(* A stage's calls to models: the route (providers/routing), the chain of  *)
(* models it is walked along, the repair loop of a structured call         *)
(* (prompt-kit), what one request can come to (providers/http), and the    *)
(* row the stage leaves in the ledger (apps/api/story/stage-spend).        *)
(*                                                                         *)
(* There are two ways.  A stage (story, cast, world) gives the structured  *)
(* call every model of the route as a backend of its own, each asked       *)
(* directly.  Style derivation gives it one backend, which asks the        *)
(* router, which walks the route with retries and failover; the image      *)
(* calls of the style probe and of production do the same with an answer   *)
(* that needs no repair.  Story, cast and probe hand on the run's signal,  *)
(* the others do not.                                                      *)
(*                                                                         *)
(* An answer either validates or does not; what it says is left out.  A    *)
(* deadline is an error like another that is worth retrying.  Tokens are   *)
(* counted in answers.  The guard is in Metering.                          *)
(*                                                                         *)
(* Definitions named Broken... are not the code, see PipelineRunner.       *)
(***************************************************************************)
EXTENDS Naturals, Lists, FiniteSets, FiniteSetsExt

CONSTANTS
    Models,
    NoModel,
    Catalogue,    \* the models whose price is known
    Price,        \* of each of them, the nominal price of a call
    Dialect,      \* the schema dialect of each model
    Settings,     \* what a stage may be configured with, see Setting
    Calls,        \* structured calls of the stage
    MaxRepairs,   \* per backend
    MaxAttempts   \* maxAttemptsPerModel

Policies == {"cheapest", "best", "balanced"}

\* stage, task: a binding of its own, or none; rule, cap: the rule's chain and its ceiling,
\* or none; capable: what a registered adapter can do the task with; structured: of these,
\* and of the others, which can return JSON; signal: whether calls are given the run's.
Setting ==
    [way : {"stage", "routed"}, stage : Models \cup {NoModel}, pinned : BOOLEAN,
     task : Models \cup {NoModel}, rule : Seq(Models), cap : Nat \cup {NoModel},
     policy : Policies, capable : SUBSET Models, structured : SUBSET Models,
     signal : BOOLEAN]

ASSUME SettingsAssumption == Settings \subseteq Setting
ASSUME CatalogueAssumption ==
    /\ NoModel \notin Models \cup Nat
    /\ Catalogue \subseteq Models /\ IsFiniteSet(Catalogue) /\ Price \in [Catalogue -> Nat]
ASSUME BoundsAssumption ==
    Calls \in Nat \ {0} /\ MaxRepairs \in Nat /\ MaxAttempts \in Nat \ {0}

VARIABLES
    setting,
    cancelled,  \* the run was cancelled
    stage,      \* the stage: [pc, left, used, row]
    call,       \* the structured call in progress
    wire        \* over the wire: answers read, and requests sent after a cancel

vars == <<setting, cancelled, stage, call, wire>>

-----------------------------------------------------------------------------
\* The route.

Optional(m) == IF m = NoModel THEN <<>> ELSE <<m>>

\* orderings: cheapest, dearest, or free first and then cheapest, which is cheapest too.
MayPrecede(policy, a, b) ==
    IF policy = "best" THEN Price[a] >= Price[b] ELSE Price[a] <= Price[b]

\* What has a price and an adapter, sorted.
FromCatalogue(s) ==
    CHOOSE models \in SetToSeqs(Catalogue \cap s.capable) :
        \A i, j \in DOMAIN models : i < j => MayPrecede(s.policy, models[i], models[j])

Candidates(s) ==
    LET configured == Optional(s.stage) \o Optional(s.task) \o s.rule
    IN IF configured = <<>> THEN FromCatalogue(s) ELSE configured

\* The rule's ceiling refuses what has no price.
IsAffordable(s, m) == s.cap = NoModel \/ (m \in Catalogue /\ Price[m] <= s.cap)

\* Not the code: a pin is only the first candidate.
BrokenIsPinned(s) == FALSE

IsPinned(s) == s.stage # NoModel /\ s.pinned

\* The chain of the route; none if nothing can serve the task.
Chain(s) ==
    IF IsPinned(s) THEN Filter(<<s.stage>>, s.capable)
    ELSE Dedupe(Filter(Candidates(s), {m \in s.capable : IsAffordable(s, m)}))

\* The backends of a structured call: of each, the models it walks along.
Backends(s) ==
    IF s.way = "routed" THEN (IF Chain(s) = <<>> THEN <<>> ELSE <<Chain(s)>>)
    ELSE LET able == Filter(Chain(s), s.structured)
         IN [i \in DOMAIN able |-> <<able[i]>>]

-----------------------------------------------------------------------------

NoCall == [pc |-> "none"]

\* The requests a structured call can make: each backend is begun once and repaired, and a
\* repair walks the models of the backend again.
Most(s) ==
    (MaxRepairs + 1) *
        (IF s.way = "routed" THEN MaxAttempts * Len(Chain(s)) ELSE Len(Backends(s)))

\* A backend's turn begins: its own dialect, its own conversation.  quoted: the models
\* whose answers the conversation quotes.
Opening(backend, b, tries) ==
    [pc |-> "asking", b |-> b, repair |-> 0, link |-> 1, attempt |-> 1,
     dialect |-> Dialect[backend[1]], quoted |-> <<>>, given |-> {}, tries |-> tries]

Init ==
    /\ setting \in Settings
    /\ cancelled = FALSE
    /\ stage = [pc |-> "idle", left |-> Calls, used |-> 0, row |-> "none"]
    /\ call = NoCall
    /\ wire = [read |-> 0, late |-> 0]

Asked == Backends(setting)[call.b][call.link]

\* meteredStageWork, once the guard has let it through: the head of the route is priced.
Begin ==
    /\ stage.pc = "idle" /\ ~cancelled
    /\ IF Backends(setting) = <<>>
       THEN stage' = [stage EXCEPT !.pc = "failed"] /\ UNCHANGED call
       ELSE /\ stage' = [stage EXCEPT !.pc = "calling"]
            /\ call' = Opening(Backends(setting)[1], 1, 0)
    /\ UNCHANGED <<setting, cancelled, wire>>

\* Before anything is sent: a cancelled stage makes no call and leaves no row.
Refuse ==
    /\ stage.pc = "idle" /\ cancelled
    /\ stage' = [stage EXCEPT !.pc = "failed"]
    /\ UNCHANGED <<setting, cancelled, call, wire>>

-----------------------------------------------------------------------------
\* An error, and how far it goes.  cancelled: the signal; local: of the request itself, it
\* never leaves; unsupported: the adapter says so before it sends; refused: the provider
\* says so; failed: a status, a rate limit, a deadline, a body that cannot be read.

IsRetryable(kind) == kind = "failed"

\* failoverOn: rate-limit, timeout, provider, unsupported.
FailsOver(kind) == kind \in {"unsupported", "refused", "failed"}

\* Not the code: one attempt more than there are, and attempts that are not counted.
BrokenMayRetry(kind) == IsRetryable(kind) /\ call.attempt <= MaxAttempts

BrokenNextAttempt(attempt) == attempt

NextAttempt(attempt) == attempt + 1

\* withRetry; a story stage asks its adapters without it.
MayRetry(kind) == IsRetryable(kind) /\ call.attempt < MaxAttempts

\* Only a stage leaves a row.
Recorded(row) == IF setting.way = "stage" THEN row ELSE "none"

\* The stage fails: with its estimate in the ledger, unless it was cancelled.
Fails(kind) ==
    /\ stage' = [stage EXCEPT !.pc = "failed",
                              !.row = Recorded(IF kind = "cancelled" THEN "none" ELSE "estimate")]
    /\ call' = NoCall

\* Not the code: one conversation for all backends.
BrokenNextTurn(c, backend) == [Opening(backend, c.b + 1, c.tries) EXCEPT !.quoted = c.quoted]

NextTurn(c, backend) ==
    [Opening(backend, c.b + 1, c.tries) EXCEPT !.given = c.given \cup {Asked}]

\* The next backend, whatever the error was; after the last the stage fails.
Escalates(kind) ==
    IF call.b < Len(Backends(setting))
    THEN /\ call' = NextTurn(call, Backends(setting)[call.b + 1])
         /\ UNCHANGED stage
    ELSE Fails(kind)

Errs(kind) ==
    IF setting.way = "routed" /\ MayRetry(kind)
    THEN /\ call' = [call EXCEPT !.pc = "waiting", !.attempt = NextAttempt(@)]
         /\ UNCHANGED stage
    ELSE IF setting.way = "routed" /\ FailsOver(kind)
                /\ call.link < Len(Backends(setting)[call.b])
    THEN /\ call' = [call EXCEPT !.pc = "asking", !.link = @ + 1, !.attempt = 1,
                                 !.given = @ \cup {Asked}]
         /\ UNCHANGED stage
    ELSE Escalates(kind)

\* The backoff, or what the provider asked for; the signal is not given to it.
Wait ==
    /\ call.pc = "waiting"
    /\ call' = [call EXCEPT !.pc = "asking"]
    /\ UNCHANGED <<setting, cancelled, stage, wire>>

\* Not the code: the signal is only for the request in flight.
BrokenIsStopped == FALSE

\* #send, before anything is sent: of a request that has a signal.
IsStopped == cancelled /\ setting.signal

\* An adapter is asked: it errs at once, or a request goes out.
Send ==
    /\ call.pc = "asking"
    /\ IF IsStopped THEN Errs("cancelled") /\ UNCHANGED wire
       ELSE \/ /\ \E kind \in {"local", "unsupported"} : Errs(kind)
               /\ UNCHANGED wire
            \/ /\ call' = [call EXCEPT !.pc = "out",
                                       !.tries = Min({@, Most(setting)}) + 1]
               /\ wire' = [wire EXCEPT !.late = IF cancelled THEN 1 ELSE @]
               /\ UNCHANGED stage
    /\ UNCHANGED <<setting, cancelled>>

-----------------------------------------------------------------------------
\* What comes of a request.

\* The run was cancelled: the request is torn down, or its body cannot be read any more.
TornDown ==
    /\ call.pc = "out" /\ IsStopped
    /\ \E kind \in {"cancelled", "failed"} : Errs(kind)
    /\ UNCHANGED <<setting, cancelled, wire>>

ErrorAnswers ==
    /\ call.pc = "out" /\ ~(cancelled /\ setting.signal)
    /\ \E kind \in {"refused", "failed"} : Errs(kind)
    /\ UNCHANGED <<setting, cancelled, wire>>

\* Not the code: only the answer that is accepted is counted.
BrokenUsageOf(isAccepted, used) == IF isAccepted THEN used + 1 ELSE used

\* noteUsage, before the answer is looked at, and the sum of the traces.
UsageOf(isAccepted, used) == used + 1

\* The row of a stage that succeeds is what its traces add up to.
Accepted ==
    IF stage.left = 1
    THEN /\ stage' = [stage EXCEPT !.pc = "succeeded", !.left = 0,
                                   !.used = UsageOf(TRUE, @), !.row = Recorded("traces")]
         /\ call' = NoCall
    ELSE /\ stage' = [stage EXCEPT !.left = @ - 1, !.used = UsageOf(TRUE, @)]
         /\ call' = Opening(Backends(setting)[1], 1, 0)

\* A repair turn quotes the answer and asks the same backend again, from its first model.
Repairs ==
    /\ stage' = [stage EXCEPT !.used = UsageOf(FALSE, @)]
    /\ call' = [call EXCEPT !.pc = "asking", !.repair = @ + 1, !.link = 1, !.attempt = 1,
                            !.quoted = Append(@, Asked), !.given = {}]

Unusable ==
    IF call.repair < MaxRepairs THEN Repairs
    ELSE IF call.b < Len(Backends(setting))
    THEN /\ stage' = [stage EXCEPT !.used = UsageOf(FALSE, @)]
         /\ call' = NextTurn(call, Backends(setting)[call.b + 1])
    ELSE /\ stage' = [stage EXCEPT !.pc = "failed", !.used = UsageOf(FALSE, @),
                                   !.row = Recorded("estimate")]
         /\ call' = NoCall

Answers ==
    /\ call.pc = "out" /\ ~(cancelled /\ setting.signal)
    /\ wire' = [wire EXCEPT !.read = @ + 1]
    /\ Accepted \/ Unusable
    /\ UNCHANGED <<setting, cancelled>>

\* Between its calls a stage sees the cancel itself, and leaves its loop: with what it has
\* it goes on to its last calls, the world stage's semantic passes say, or ends.
BreaksOff ==
    /\ cancelled /\ setting.way = "stage"
    /\ call.pc = "asking" /\ call.b = 1 /\ call.repair = 0 /\ stage.left < Calls
    /\ \/ /\ \E left \in 1 .. stage.left - 1 : stage' = [stage EXCEPT !.left = left]
          /\ UNCHANGED call
       \/ /\ stage' = [stage EXCEPT !.pc = "succeeded", !.left = 0, !.row = "traces"]
          /\ call' = NoCall
    /\ UNCHANGED <<setting, cancelled, wire>>

Cancel ==
    /\ ~cancelled /\ stage.pc \in {"idle", "calling"}
    /\ cancelled' = TRUE
    /\ UNCHANGED <<setting, stage, call, wire>>

Work == Begin \/ Refuse \/ Wait \/ Send \/ TornDown \/ ErrorAnswers \/ Answers \/ BreaksOff

Next == Work \/ Cancel

\* Every await ends: a request has a deadline (combineSignals), a wait its time.
Spec == Init /\ [][Next]_vars /\ WF_vars(Work)

-----------------------------------------------------------------------------
\* Properties.

\* The variables have their types, and the cursors stay inside what they walk.
TypeOK ==
    /\ setting \in Settings /\ cancelled \in BOOLEAN
    /\ stage.pc \in {"idle", "calling", "succeeded", "failed"}
    /\ stage.left \in 0 .. Calls /\ stage.row \in {"none", "estimate", "traces"}
    /\ wire \in [read : Nat, late : 0 .. 1]
    /\ (stage.pc = "calling") <=> (call # NoCall)
    /\ call # NoCall =>
          /\ call.pc \in {"asking", "waiting", "out"}
          /\ call.b \in DOMAIN Backends(setting)
          /\ call.link \in DOMAIN Backends(setting)[call.b]
          /\ call.repair \in 0 .. MaxRepairs /\ call.attempt \in 1 .. MaxAttempts

\* However answers and errors alternate, one structured call makes at most so many
\* requests: repairs begin the walk again, and escalations begin the repairs again.
RequestsAreBounded == TypeOK /\ (call # NoCall => call.tries <= Most(setting))

\* A stage that is pinned asks its model and no other, and fails rather than go elsewhere
\* (provider/capability.ts: "the stage fails rather than silently running on a model the
\* author did not choose"); nobody asks a model that cannot do the task, or that its rule
\* finds too dear; and one that was given up on, after its attempts or for good, is not
\* asked the same again further down the chain, whatever list it is on.
OnlyChosenModelsAreAsked ==
    call # NoCall =>
        /\ Asked \in setting.capable
        /\ setting.stage # NoModel /\ setting.pinned => Asked = setting.stage
        /\ ~IsPinned(setting) => IsAffordable(setting, Asked)
        /\ setting.way = "stage" => Asked \in setting.structured
        /\ Asked \notin call.given

\* Where the calls are given the signal, nothing leaves after a cancel: not by a retry, which
\* does not see the signal, nor by a failover, a repair or an escalation (json-http.ts: "a
\* cancelled call must provably make zero requests").
CancelledStageIsSilent == setting.signal => wire.late = 0

\* What a stage that succeeds leaves in the ledger is every answer it got, those that were
\* repaired and those of models it left behind among them (stage-spend.ts: "the number that
\* was billed rather than the number the successful turn used").
RowCountsEveryAnswer == stage.row = "traces" => stage.used = wire.read

\* A story stage's model is shown no answer but its own: a conversation does not survive an
\* escalation.
RepairsQuoteTheirModel ==
    call # NoCall /\ setting.way = "stage" => ToSet(call.quoted) \subseteq {Asked}

\* Every stage comes to an end, whatever the models answer.
EveryStageEnds == stage.pc = "calling" ~> stage.pc \in {"succeeded", "failed"}

\* What comments of the code say and the code does not do.

\* routed-structured.backend.ts: "Re-dialect the schema per adapter: the chain can cross
\* providers mid-call and Gemini rejects the schema Ollama is happy with."
SchemaFitsTheModel == call # NoCall => call.dialect = Dialect[Asked]

\* stage-spend.ts: "The estimate is the caller's, and it is a ceiling."  In calls.
EstimateIsACeiling == stage.row = "traces" => stage.used <= Calls

\* stage-spend.ts: "the ledger row names the model the work was actually routed to".
RowNamesTheModel ==
    call # NoCall /\ call.pc = "out" /\ setting.way = "stage" => Asked = Chain(setting)[1]

\* pipeline-runner.service.ts, cancel: "The abort signal reaches the provider call".  The
\* world stage does not give it to its calls.
SignalReachesTheCall == wire.late = 0

\* metered-call.ts: "a cancel writes no further rows".  A body that is torn down while it
\* is read is an error of the provider (json-http.ts), and recorded as one.
CancelWritesNoRow == [][cancelled => stage'.row = stage.row]_vars

\* metered-call.ts: of a cancelled stage the only thing that is not recorded is what was in
\* flight ("a provider may still charge for a request it had already started").
OnlyTheLastIsUnrecorded == stage.pc = "failed" /\ stage.row = "none" => wire.read = 0

=============================================================================
