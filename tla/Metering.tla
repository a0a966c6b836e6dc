------------------------------- MODULE Metering -------------------------------
(***************************************************************************)
(* What a project's model calls cost and how they are kept under its       *)
(* ceilings: the budget guard before a call, the meter and the durable     *)
(* ledger after it (apps/api/src/cost, providers/src/cost), for the two    *)
(* ways the API makes calls: a stage's metered work, and the image calls   *)
(* of asset production.                                                    *)
(*                                                                         *)
(* A caller is a stage of a run, or one of the chains in which production  *)
(* works on several assets at once.  The meter is memory; the usage rows   *)
(* and the run's spentNanoUsd are in the database.  Of the meter's records *)
(* the guard reads three sums, and of the rows the report reads one per    *)
(* run, so sums are kept.  A step ends where a caller awaits a provider,   *)
(* the registry or the blob store.                                         *)
(*                                                                         *)
(* An image call is billed at most its quote.  A stage is quoted once, for *)
(* the calls it means to make at an assumed size, and billed what the      *)
(* traces of all its requests add up to, repairs and escalations included; *)
(* nothing ties that to the quote.  Both are priced by the model that was  *)
(* quoted: a call quoted nothing, of a free model, is billed nothing even  *)
(* where another model answered, and is left out.                          *)
(*                                                                         *)
(* Definitions named Broken... are not the code, see PipelineRunner.       *)
(***************************************************************************)
EXTENDS Naturals, Sequences, FiniteSets

CONSTANTS
    Runs,          \* the project's runs
    Callers,       \* stages and chains that can make calls at the same time
    MaxQuote,      \* the largest quote
    MaxBill,       \* the most that the requests of one metered call come to
    Budgets,       \* budgets a run may be given
    RunLimit,      \* perRunNanoUsd of the policy; None where there is no ceiling
    DayLimit,      \* perDayNanoUsd
    ProjectLimit,  \* perProjectNanoUsd
    None,
    MaxCalls,      \* bound: calls made
    MaxCrashes,    \* bound: crashes of the process
    MaxFaults      \* bound: writes that fail

ASSUME CallersAssumption == IsFiniteSet(Callers) /\ Callers # {}
ASSUME MaxQuoteAssumption == MaxQuote \in Nat \ {0}
ASSUME MaxBillAssumption == MaxBill \in Nat /\ MaxQuote <= MaxBill
ASSUME LimitsAssumption ==
    /\ None \notin Nat
    /\ Budgets \subseteq Nat
    /\ {RunLimit, DayLimit, ProjectLimit} \subseteq Nat \cup {None}
ASSUME BoundsAssumption == {MaxCalls, MaxCrashes, MaxFaults} \subseteq Nat

VARIABLES
    budget,   \* the run's own ceiling, or None (RunBudget)
    meter,    \* the sums of the in-memory records
    rows,     \* per run: the sum of its usage rows
    bill,     \* per run: spentNanoUsd of its row
    aborted,  \* the runs that were cancelled
    caller,   \* what each caller is doing
    late,     \* per run: calls made after it was cancelled
    spent     \* how much of each bound has been used

vars == <<budget, meter, rows, bill, aborted, caller, late, spent>>

-----------------------------------------------------------------------------
\* The meter.  The day's records are kept in order: they leave the window one by one.

Quotes == 1 .. MaxQuote

NoRecords == [run |-> [r \in Runs |-> 0], project |-> 0, day |-> 0, recent |-> <<>>]

\* record
Recorded(r, cost) ==
    [run |-> [meter.run EXCEPT ![r] = @ + cost], project |-> meter.project + cost,
     day |-> meter.day + cost, recent |-> Append(meter.recent, cost)]

Idle == [pc |-> "idle"]

Working == [pc : {"metered", "resolving", "loading", "drawing", "storing"}, run : Runs,
            quote : 0 .. MaxQuote]

-----------------------------------------------------------------------------
\* The guard.

\* #guardFor: a run's own ceiling takes the place of the policy's.
Ceiling(r) == IF budget[r] = None THEN RunLimit ELSE budget[r]

Under(limit, amount) == limit # None => amount <= limit

BrokenAllowed(r, quote) ==
    /\ Under(Ceiling(r), meter.run[r])
    /\ Under(DayLimit, meter.day)
    /\ Under(ProjectLimit, meter.project)

\* check
Allowed(r, quote) ==
    /\ Under(Ceiling(r), meter.run[r] + quote)
    /\ Under(DayLimit, meter.day + quote)
    /\ Under(ProjectLimit, meter.project + quote)

-----------------------------------------------------------------------------
Init ==
    /\ budget \in [Runs -> Budgets \cup {None}]
    /\ meter = NoRecords
    /\ rows = [r \in Runs |-> 0]
    /\ bill = [r \in Runs |-> 0]
    /\ aborted = {}
    /\ caller = [c \in Callers |-> Idle]
    /\ late = [r \in Runs |-> 0]
    /\ spent = [calls |-> 0, crashes |-> 0, faults |-> 0]

Becomes(c, pc, r, quote) ==
    caller' = [caller EXCEPT ![c] = [pc |-> pc, run |-> r, quote |-> quote]]

Rests(c) == caller' = [caller EXCEPT ![c] = Idle]

\* A call leaves for the provider.
Call(c, pc, r, quote) ==
    /\ spent.calls < MaxCalls
    /\ spent' = [spent EXCEPT !.calls = @ + 1]
    /\ Becomes(c, pc, r, quote)
    /\ late' = IF r \in aborted THEN [late EXCEPT ![r] = @ + 1] ELSE late

-----------------------------------------------------------------------------
\* After a call: a record in the meter, a usage row, and the run's spentNanoUsd.

BrokenBump(r, cost) == bill' = [bill EXCEPT ![r] = cost]

Bump(r, cost) == bill' = [bill EXCEPT ![r] = @ + cost]

Insert(r, cost) == rows' = [rows EXCEPT ![r] = @ + cost]

\* appendUsage: the row, then the sum; either may be refused, and the call goes on.
AppendUsage(r, cost) ==
    \/ Insert(r, cost) /\ Bump(r, cost) /\ UNCHANGED spent
    \/ /\ spent.faults < MaxFaults
       /\ spent' = [spent EXCEPT !.faults = @ + 1]
       /\ \/ Insert(r, cost) /\ UNCHANGED bill
          \/ UNCHANGED <<rows, bill>>

Book(r, cost) ==
    /\ meter' = Recorded(r, cost)
    /\ AppendUsage(r, cost)

-----------------------------------------------------------------------------
\* MeteredCallRunner.run: the signal, the guard and the call are one step.

MeteredCall(c, r, quote) ==
    /\ caller[c] = Idle
    /\ r \notin aborted
    /\ Allowed(r, quote)
    /\ Call(c, "metered", r, quote)
    /\ UNCHANGED <<budget, meter, rows, bill, aborted>>

BrokenMeteredCallReturns(c) ==
    LET r == caller[c].run
    IN /\ caller[c].pc = "metered"
       /\ Rests(c)
       /\ \/ r \in aborted /\ UNCHANGED <<meter, rows, bill, spent>>
          \/ \E cost \in 0 .. MaxBill :
                meter' = Recorded(r, caller[c].quote) /\ AppendUsage(r, cost)
       /\ UNCHANGED <<budget, aborted, late>>

\* The outcome: torn down by the signal, and no row; a failure, booked at its
\* estimate; or a success at what its traces add up to.
MeteredCallReturns(c) ==
    LET r == caller[c].run
    IN /\ caller[c].pc = "metered"
       /\ Rests(c)
       /\ \/ r \in aborted /\ UNCHANGED <<meter, rows, bill, spent>>
          \/ Book(r, caller[c].quote)
          \/ \E cost \in 0 .. MaxBill : Book(r, cost)
       /\ UNCHANGED <<budget, aborted, late>>

-----------------------------------------------------------------------------
\* GenerateAssetVersionUseCase, from the step of a production chain that runs it.

BrokenImageBegins(c, r) ==
    /\ caller[c] = Idle
    /\ Becomes(c, "resolving", r, 0)
    /\ UNCHANGED <<budget, meter, rows, bill, aborted, late, spent>>

\* The chain has looked at the signal; then it asks the registry.
ImageBegins(c, r) ==
    /\ caller[c] = Idle
    /\ r \notin aborted
    /\ Becomes(c, "resolving", r, 0)
    /\ UNCHANGED <<budget, meter, rows, bill, aborted, late, spent>>

\* The registry has the asset, the model has no price, or the guard refuses.
ImageIsNotDrawn(c) ==
    /\ caller[c].pc = "resolving"
    /\ Rests(c)
    /\ UNCHANGED <<budget, meter, rows, bill, aborted, late, spent>>

\* The guard allows the call, and the pictures it refers to are read from the blob store.
ImageIsAllowed(c, quote) ==
    /\ caller[c].pc = "resolving"
    /\ Allowed(caller[c].run, quote)
    /\ Becomes(c, "loading", caller[c].run, quote)
    /\ UNCHANGED <<budget, meter, rows, bill, aborted, late, spent>>

\* Neither the signal nor the guard is looked at again.
ImageCall(c) ==
    /\ caller[c].pc = "loading"
    /\ Call(c, "drawing", caller[c].run, caller[c].quote)
    /\ UNCHANGED <<budget, meter, rows, bill, aborted>>

\* The image arrives, and is put into the blob store; or the call failed, which is
\* booked as nothing, or brought no image, which is booked at what it used.
ImageCallReturns(c) ==
    LET r == caller[c].run
    IN /\ caller[c].pc = "drawing"
       /\ \/ /\ \E cost \in 0 .. caller[c].quote : Becomes(c, "storing", r, cost)
             /\ UNCHANGED <<meter, rows, bill, spent>>
          \/ \E cost \in 0 .. caller[c].quote : Rests(c) /\ Book(r, cost)
       /\ UNCHANGED <<budget, aborted, late>>

\* An image that cannot be stored is an error, and is not booked.
ImageIsStored(c) ==
    /\ caller[c].pc = "storing"
    /\ Rests(c)
    /\ \/ Book(caller[c].run, caller[c].quote)
       \/ /\ spent.faults < MaxFaults
          /\ spent' = [spent EXCEPT !.faults = @ + 1]
          /\ UNCHANGED <<meter, rows, bill>>
    /\ UNCHANGED <<budget, aborted, late>>

-----------------------------------------------------------------------------
Cancel(r) ==
    /\ r \notin aborted
    /\ aborted' = aborted \cup {r}
    /\ UNCHANGED <<budget, meter, rows, bill, caller, late, spent>>

\* The oldest record of the day is a day old.
BrokenRecordAges ==
    /\ meter.recent # <<>>
    /\ meter' = [meter EXCEPT !.day = @ - Head(meter.recent)]
    /\ UNCHANGED <<budget, rows, bill, aborted, caller, late, spent>>

RecordAges ==
    /\ meter.recent # <<>>
    /\ meter' = [meter EXCEPT !.day = @ - Head(meter.recent), !.recent = Tail(@)]
    /\ UNCHANGED <<budget, rows, bill, aborted, caller, late, spent>>

\* The process dies, maybe between a usage row and the sum in the run's row.  A run
\* that was cancelled is not worked on again (PipelineRunner, FinalRunIsSealed).
Crash ==
    /\ spent.crashes < MaxCrashes
    /\ spent' = [spent EXCEPT !.crashes = @ + 1]
    /\ meter' = NoRecords
    /\ caller' = [c \in Callers |-> Idle]
    /\ \/ UNCHANGED rows
       \/ \E c \in Callers, cost \in 0 .. MaxBill :
             caller[c].pc \in {"metered", "drawing", "storing"} /\ Insert(caller[c].run, cost)
    /\ UNCHANGED <<budget, bill, aborted, late>>

-----------------------------------------------------------------------------
Next ==
    \/ \E c \in Callers :
        \/ \E r \in Runs, quote \in Quotes : MeteredCall(c, r, quote)
        \/ MeteredCallReturns(c)
        \/ \E r \in Runs : ImageBegins(c, r)
        \/ ImageIsNotDrawn(c)
        \/ \E quote \in Quotes : ImageIsAllowed(c, quote)
        \/ ImageCall(c)
        \/ ImageCallReturns(c)
        \/ ImageIsStored(c)
    \/ \E r \in Runs : Cancel(r)
    \/ RecordAges
    \/ Crash

Spec == Init /\ [][Next]_vars

-----------------------------------------------------------------------------
\* Properties.

\* The variables have their types; a record leaves the day once, so that the day's sum is
\* never negative (totalSince).
TypeOK ==
    /\ budget \in [Runs -> Budgets \cup {None}]
    /\ meter \in [run : [Runs -> Nat], project : Nat, day : Nat, recent : Seq(Nat)]
    /\ rows \in [Runs -> Nat]
    /\ bill \in [Runs -> Nat]
    /\ aborted \subseteq Runs
    /\ caller \in [Callers -> Working \cup {Idle}]
    /\ late \in [Runs -> Nat]
    /\ spent \in [calls : 0 .. MaxCalls, crashes : 0 .. MaxCrashes, faults : 0 .. MaxFaults]

\* The guard reserves nothing: calls that are out at the same time are each allowed
\* against what is already booked, and a stage is allowed at its quote and booked at its
\* bill.  By so much a ceiling may be overrun, and by no more: by less than one bill for
\* each caller, whatever fails, ages or is cancelled.  And until the process dies the meter
\* leaves out nothing that the ledger has.  (What is out is counted in units of money, so
\* many for each caller as its call can come to.)
Bill(c) == IF caller[c].pc = "metered" THEN MaxBill ELSE caller[c].quote

Held(c, mine) == IF caller[c] # Idle /\ caller[c].run \in mine THEN Bill(c) ELSE 0

InFlight(mine) == Cardinality({u \in Callers \X (1 .. MaxBill) : u[2] <= Held(u[1], mine)})

Slack == Cardinality(Callers) * MaxBill - 1

OverrunIsBounded ==
    /\ TypeOK
    /\ \A r \in Runs :
          /\ Ceiling(r) # None => meter.run[r] + InFlight({r}) <= Ceiling(r) + Slack
          /\ spent.crashes = 0 => rows[r] <= meter.run[r]
    /\ DayLimit # None => meter.day + InFlight(Runs) <= DayLimit + Slack
    /\ ProjectLimit # None => meter.project + InFlight(Runs) <= ProjectLimit + Slack

\* What a run says it spent is the sum of its usage rows, but for a write that failed
\* or a crash between the two: no more than one call's bill each.
BillIsTheLedger ==
    \A r \in Runs :
        /\ bill[r] <= rows[r]
        /\ rows[r] <= bill[r] + (spent.crashes + spent.faults) * MaxBill

\* "A cancelled run must not make one more call": no stage makes one, and of a
\* production each chain makes at most the one it was about to make.
LittleAfterCancel == \A r \in Runs : late[r] <= Cardinality(Callers)

\* What a text says and the code does not do.

\* docs/03-backlog.md, SC-3: "a run aborts rather than exceed the budget": what the
\* database says a run has spent stays within its ceiling, up to what calls that are
\* out together may add.
RunStaysInBudget ==
    \A r \in Runs : Ceiling(r) # None => rows[r] <= Ceiling(r) + Slack

=============================================================================
