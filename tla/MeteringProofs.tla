--------------------------- MODULE MeteringProofs ---------------------------
(***************************************************************************)
(* Proofs about Metering, for any runs, callers, quotes and ceilings.      *)
(*                                                                         *)
(* What the database says a run has spent; what is called after a cancel;  *)
(* and by how much the ceilings the guard reads from the meter may be      *)
(* overrun.  The first two depend on neither the meter nor the guard.      *)
(***************************************************************************)
EXTENDS Metering, FiniteSetTheorems, TLAPS

-----------------------------------------------------------------------------
\* Types, but for the meter.

Types ==
    /\ rows \in [Runs -> Nat] /\ bill \in [Runs -> Nat]
    /\ caller \in [Callers -> Working \cup {Idle}]
    /\ late \in [Runs -> Nat]
    /\ spent \in [calls : Nat, crashes : Nat, faults : Nat]

\* What a caller may go over to, and what an outcome may cost.
LEMMA BecomesTypes ==
    ASSUME Types, NEW c \in Callers, NEW r \in Runs, NEW quote \in 0 .. MaxQuote,
           NEW pc \in {"metered", "resolving", "loading", "drawing", "storing"}, Becomes(c, pc, r, quote)
    PROVE  caller' \in [Callers -> Working \cup {Idle}]
  BY DEF Types, Becomes, Working

LEMMA RestsTypes ==
    ASSUME Types, NEW c \in Callers, Rests(c)
    PROVE  caller' \in [Callers -> Working \cup {Idle}]
  BY DEF Types, Rests

LEMMA BusyCaller ==
    ASSUME Types, NEW c \in Callers, caller[c].pc # "idle"
    PROVE  /\ caller[c].run \in Runs /\ caller[c].quote \in 0 .. MaxQuote
           /\ caller[c] \in Working
  BY DEF Types, Working, Idle

-----------------------------------------------------------------------------
\* The bill.

\* How far the sum in the run's row may lag behind its usage rows.
Lag == (spent.crashes + spent.faults) * MaxBill

BillInv == Types /\ \A r \in Runs : bill[r] <= rows[r] /\ rows[r] <= bill[r] + Lag

\* One write more that is lost, one bill more.
LEMMA LagGrows ==
    ASSUME NEW x \in Nat, NEW y \in Nat
    PROVE  /\ (x + 1 + y) * MaxBill = (x + y) * MaxBill + MaxBill
           /\ (x + (y + 1)) * MaxBill = (x + y) * MaxBill + MaxBill
           /\ (x + y) * MaxBill \in Nat
  BY MaxBillAssumption

\* appendUsage, whichever of its writes is refused.
LEMMA AppendUsageBill ==
    ASSUME BillInv, NEW r \in Runs, NEW cost \in 0 .. MaxBill, AppendUsage(r, cost),
           caller' \in [Callers -> Working \cup {Idle}], late' \in [Runs -> Nat]
    PROVE  BillInv'
PROOF
  <1>1. /\ cost \in Nat /\ cost <= MaxBill /\ MaxBill \in Nat
        /\ rows \in [Runs -> Nat] /\ bill \in [Runs -> Nat]
        /\ spent.crashes \in Nat /\ spent.faults \in Nat
    BY MaxBillAssumption DEF BillInv, Types
  <1>2. Lag \in Nat /\ \A r1 \in Runs : bill[r1] <= rows[r1] /\ rows[r1] <= bill[r1] + Lag
    BY <1>1, LagGrows DEF Lag, BillInv
  <1>3. CASE Insert(r, cost) /\ Bump(r, cost) /\ UNCHANGED spent
    <2>1. Lag' = Lag /\ Types'
      BY <1>1, <1>3 DEF Lag, Insert, Bump, BillInv, Types
    <2> HIDE DEF Lag
    <2>2. \A r1 \in Runs : bill'[r1] <= rows'[r1] /\ rows'[r1] <= bill'[r1] + Lag
      BY <1>1, <1>2, <1>3 DEF Insert, Bump
    <2> QED
      BY <2>1, <2>2 DEF BillInv
  <1>4. CASE /\ spent' = [spent EXCEPT !.faults = @ + 1] /\ UNCHANGED bill
             /\ (Insert(r, cost) \/ UNCHANGED rows)
    <2>1. Lag' = Lag + MaxBill
      BY <1>1, <1>4, LagGrows DEF Lag, BillInv, Types
    <2>2. Types'
      BY <1>1, <1>4 DEF Insert, BillInv, Types
    <2> HIDE DEF Lag
    <2>3. \A r1 \in Runs : bill'[r1] <= rows'[r1] /\ rows'[r1] <= bill'[r1] + (Lag + MaxBill)
      BY <1>1, <1>2, <1>4 DEF Insert
    <2> QED
      BY <2>1, <2>2, <2>3 DEF BillInv
  <1> QED
    BY <1>3, <1>4 DEF AppendUsage

LEMMA InitBill == Init => BillInv
PROOF
  <1> SUFFICES ASSUME Init PROVE BillInv
    OBVIOUS
  <1>1. Types
    BY DEF Init, Types
  <1>2. Lag \in Nat
    BY <1>1, LagGrows DEF Lag, Types
  <1> HIDE DEF Lag
  <1>3. \A r \in Runs : bill[r] <= rows[r] /\ rows[r] <= bill[r] + Lag
    BY <1>2 DEF Init
  <1> QED
    BY <1>1, <1>3 DEF BillInv

\* Nothing is written and none of the bounds that lag counts is used.
LEMMA NothingWritten ==
    ASSUME BillInv, UNCHANGED <<rows, bill>>,
           caller' \in [Callers -> Working \cup {Idle}], late' \in [Runs -> Nat],
           spent' \in [calls : Nat, crashes : Nat, faults : Nat],
           spent'.crashes = spent.crashes, spent'.faults \in {spent.faults, spent.faults + 1}
    PROVE  BillInv'
PROOF
  <1>1. Types'
    BY DEF BillInv, Types
  <1>2. Lag \in Nat /\ Lag' \in {Lag, Lag + MaxBill} /\ MaxBill \in Nat
    BY LagGrows, MaxBillAssumption DEF Lag, BillInv, Types
  <1> HIDE DEF Lag
  <1>3. \A r \in Runs : bill'[r] <= rows'[r] /\ rows'[r] <= bill'[r] + Lag'
    BY <1>2 DEF BillInv, Types
  <1> QED
    BY <1>1, <1>3 DEF BillInv

\* A call leaves: nothing is written.
LEMMA CallBill ==
    ASSUME BillInv, NEW c \in Callers, NEW r \in Runs, NEW quote \in 0 .. MaxQuote,
           NEW pc \in {"metered", "drawing"}, Call(c, pc, r, quote), UNCHANGED <<rows, bill>>
    PROVE  BillInv'
PROOF
  <1>1. Types /\ caller' \in [Callers -> Working \cup {Idle}]
    BY BecomesTypes DEF Call, BillInv
  <1>2. late' \in [Runs -> Nat]
    BY <1>1 DEF Call, Types
  <1>3. /\ spent' \in [calls : Nat, crashes : Nat, faults : Nat]
        /\ spent'.crashes = spent.crashes /\ spent'.faults = spent.faults
    BY <1>1 DEF Call, Types
  <1> QED
    BY <1>1, <1>2, <1>3, NothingWritten

LEMMA MeteredReturnsBill ==
    ASSUME BillInv, NEW c \in Callers, MeteredCallReturns(c)
    PROVE  BillInv'
PROOF
  <1>1. /\ Types /\ Rests(c) /\ UNCHANGED late
        /\ caller[c].run \in Runs /\ caller[c].quote \in 0 .. MaxQuote
    BY BusyCaller DEF BillInv, MeteredCallReturns
  <1>2. caller' \in [Callers -> Working \cup {Idle}] /\ late' \in [Runs -> Nat]
    BY <1>1, RestsTypes DEF Types
  <1>3. CASE UNCHANGED <<rows, bill, spent>>
    BY <1>1, <1>2, <1>3, NothingWritten DEF Types
  <1>4. CASE \E cost \in 0 .. MaxBill : Book(caller[c].run, cost)
    BY <1>1, <1>2, <1>4, AppendUsageBill DEF Book
  <1>5. caller[c].quote \in 0 .. MaxBill
    BY <1>1, MaxQuoteAssumption, MaxBillAssumption
  <1> QED
    BY <1>1, <1>3, <1>4, <1>5 DEF MeteredCallReturns

LEMMA ImageReturnsBill ==
    ASSUME BillInv, NEW c \in Callers, ImageCallReturns(c)
    PROVE  BillInv'
PROOF
  <1>1. /\ Types /\ UNCHANGED late
        /\ caller[c].run \in Runs /\ caller[c].quote \in 0 .. MaxQuote
    BY BusyCaller DEF BillInv, ImageCallReturns
  <1>2. late' \in [Runs -> Nat] /\ 0 .. caller[c].quote \subseteq 0 .. MaxQuote
    BY <1>1, MaxQuoteAssumption DEF Types
  <1>3. CASE /\ \E cost \in 0 .. caller[c].quote : Becomes(c, "storing", caller[c].run, cost)
             /\ UNCHANGED <<rows, bill, spent>>
    <2>1. caller' \in [Callers -> Working \cup {Idle}]
      BY <1>1, <1>2, <1>3, BecomesTypes
    <2> QED
      BY <1>1, <1>2, <1>3, <2>1, NothingWritten DEF Types
  <1>4. ASSUME Rests(c), NEW cost \in 0 .. caller[c].quote, Book(caller[c].run, cost)
        PROVE  BillInv'
    <2>1. cost \in 0 .. MaxBill /\ caller' \in [Callers -> Working \cup {Idle}]
      BY <1>1, <1>4, RestsTypes, MaxQuoteAssumption, MaxBillAssumption
    <2> QED
      BY <1>1, <1>2, <1>4, <2>1, AppendUsageBill DEF Book
  <1> QED
    BY <1>3, <1>4 DEF ImageCallReturns

LEMMA ImageStoredBill ==
    ASSUME BillInv, NEW c \in Callers, ImageIsStored(c)
    PROVE  BillInv'
PROOF
  <1>1. /\ Types /\ Rests(c) /\ UNCHANGED late
        /\ caller[c].run \in Runs /\ caller[c].quote \in 0 .. MaxQuote
    BY BusyCaller DEF BillInv, ImageIsStored
  <1>2. caller' \in [Callers -> Working \cup {Idle}] /\ late' \in [Runs -> Nat]
    BY <1>1, RestsTypes DEF Types
  <1>3. CASE Book(caller[c].run, caller[c].quote)
    <2>1. caller[c].quote \in 0 .. MaxBill
      BY <1>1, MaxQuoteAssumption, MaxBillAssumption
    <2> QED
      BY <1>1, <1>2, <1>3, <2>1, AppendUsageBill DEF Book
  <1>4. CASE spent' = [spent EXCEPT !.faults = @ + 1] /\ UNCHANGED <<rows, bill>>
    BY <1>1, <1>2, <1>4, NothingWritten DEF Types
  <1> QED
    BY <1>3, <1>4 DEF ImageIsStored

\* A crash may come between a usage row and the sum.
LEMMA CrashBill ==
    ASSUME BillInv, Crash
    PROVE  BillInv'
PROOF
  <1>1. /\ Types /\ MaxBill \in Nat
        /\ \A r \in Runs : bill[r] <= rows[r] /\ rows[r] <= bill[r] + Lag
    BY MaxBillAssumption DEF BillInv
  <1>2. caller' \in [Callers -> Working \cup {Idle}]
    BY DEF Crash
  <1>3. Lag \in Nat /\ Lag' = Lag + MaxBill
    BY <1>1, LagGrows DEF Crash, Lag, Types
  <1> HIDE DEF Lag
  <1>4. UNCHANGED rows \/ \E r \in Runs, cost \in 0 .. MaxBill : Insert(r, cost)
    BY <1>1, BusyCaller DEF Crash
  <1>5. rows' \in [Runs -> Nat]
    BY <1>1, <1>4 DEF Insert, Types
  <1>6. Types'
    BY <1>1, <1>2, <1>5 DEF Crash, Types
  <1>7. \A r \in Runs : bill'[r] <= rows'[r] /\ rows'[r] <= bill'[r] + (Lag + MaxBill)
    BY <1>1, <1>3, <1>4 DEF Crash, Insert, Types
  <1> QED
    BY <1>3, <1>6, <1>7 DEF BillInv

LEMMA NextBill == BillInv /\ [Next]_vars => BillInv'
PROOF
  <1> SUFFICES ASSUME BillInv, [Next]_vars PROVE BillInv'
    OBVIOUS
  <1> USE DEF BillInv
  <1>1. ASSUME NEW c \in Callers, NEW r \in Runs, NEW quote \in Quotes, MeteredCall(c, r, quote)
        PROVE  BillInv'
    BY <1>1, CallBill, MaxQuoteAssumption DEF MeteredCall, Quotes
  <1>2. ASSUME NEW c \in Callers, NEW r \in Runs, ImageBegins(c, r)
        PROVE  BillInv'
    <2>1. caller' \in [Callers -> Working \cup {Idle}]
      BY <1>2, BecomesTypes, MaxQuoteAssumption DEF ImageBegins
    <2> QED
      BY <1>2, <2>1, NothingWritten DEF ImageBegins, Types
  <1>3. ASSUME NEW c \in Callers, ImageIsNotDrawn(c)
        PROVE  BillInv'
    BY <1>3, RestsTypes, NothingWritten DEF ImageIsNotDrawn, Types
  <1>4. ASSUME NEW c \in Callers, NEW quote \in Quotes, ImageIsAllowed(c, quote)
        PROVE  BillInv'
    <2>1. quote \in 0 .. MaxQuote /\ caller[c].run \in Runs
      BY <1>4, BusyCaller, MaxQuoteAssumption DEF ImageIsAllowed, Quotes
    <2>2. caller' \in [Callers -> Working \cup {Idle}]
      BY <1>4, <2>1, BecomesTypes DEF ImageIsAllowed
    <2> QED
      BY <1>4, <2>2, NothingWritten DEF ImageIsAllowed, Types
  <1>6. ASSUME NEW c \in Callers, ImageCall(c)
        PROVE  BillInv'
    BY <1>6, BusyCaller, CallBill DEF ImageCall
  <1>5. CASE UNCHANGED <<rows, bill, caller, late, spent>>
    BY <1>5, NothingWritten DEF Types
  <1> QED
    BY <1>1, <1>2, <1>3, <1>4, <1>5, <1>6, MeteredReturnsBill, ImageReturnsBill, ImageStoredBill,
       CrashBill DEF Next, Cancel, RecordAges, vars

\* What a run's row says it spent never exceeds its usage rows, and lags behind them by at
\* most one call for each crash and each refused write, over any number of runs and callers.
THEOREM BillMatchesTheLedger == Spec => []BillIsTheLedger
PROOF
  <1>1. BillInv => BillIsTheLedger
    BY DEF BillInv, BillIsTheLedger, Lag
  <1> QED
    BY <1>1, InitBill, NextBill, PTL DEF Spec

-----------------------------------------------------------------------------
\* Calls after a cancel.

\* The chains of a run that have looked at the signal and not yet made their call.
Resolving(r) ==
    {c \in Callers : caller[c].pc \in {"resolving", "loading"} /\ caller[c].run = r}

\* Each call that a cancelled run makes uses one of them up, and there are no new ones.
FewCallsLate ==
    \A r \in Runs :
        /\ r \notin aborted => late[r] = 0
        /\ late[r] + Cardinality(Resolving(r)) <= Cardinality(Callers)

LEMMA ResolvingIsFinite ==
    ASSUME NEW r
    PROVE  /\ Cardinality(Callers) \in Nat
           /\ IsFiniteSet(Resolving(r)) /\ Cardinality(Resolving(r)) \in Nat
           /\ IsFiniteSet(Resolving(r)') /\ Cardinality(Resolving(r)') \in Nat
           /\ Cardinality(Resolving(r)') <= Cardinality(Callers)
PROOF
  <1>1. Resolving(r) \in SUBSET Callers /\ Resolving(r)' \in SUBSET Callers
    BY DEF Resolving
  <1> QED
    BY <1>1, CallersAssumption, FS_Subset, FS_CardinalityType

\* A step that begins no chain and makes no call.
LEMMA FewerResolving ==
    ASSUME Types, FewCallsLate, late' = late, aborted \subseteq aborted',
           \A r \in Runs : Resolving(r)' \subseteq Resolving(r)
    PROVE  FewCallsLate'
PROOF
  <1>1. ASSUME NEW r \in Runs
        PROVE  /\ r \notin aborted' => late'[r] = 0
               /\ late'[r] + Cardinality(Resolving(r)') <= Cardinality(Callers)
    <2>1. Cardinality(Resolving(r)') <= Cardinality(Resolving(r))
      BY ResolvingIsFinite, FS_Subset
    <2>2. late[r] \in Nat
      BY DEF Types
    <2> QED
      BY <2>1, <2>2, ResolvingIsFinite DEF FewCallsLate
  <1> QED
    BY <1>1 DEF FewCallsLate

\* A stage's call leaves in the step in which the signal is looked at.
LEMMA MeteredCallLate ==
    ASSUME Types, FewCallsLate, NEW c \in Callers, NEW r \in Runs, NEW quote,
           MeteredCall(c, r, quote)
    PROVE  FewCallsLate'
PROOF
  <1>1. \A q \in Runs : Resolving(q)' \subseteq Resolving(q)
    BY DEF MeteredCall, Call, Becomes, Types, Resolving
  <1> QED
    BY <1>1, FewerResolving DEF MeteredCall, Call

\* A chain begins only for a run that is not cancelled, and so has no late call.
LEMMA ImageBeginsLate ==
    ASSUME Types, FewCallsLate, NEW c \in Callers, NEW r \in Runs, ImageBegins(c, r)
    PROVE  FewCallsLate'
PROOF
  <1>1. ASSUME NEW q \in Runs
        PROVE  /\ q \notin aborted' => late'[q] = 0
               /\ late'[q] + Cardinality(Resolving(q)') <= Cardinality(Callers)
    <2>1. late'[q] = late[q] /\ aborted' = aborted /\ late[q] \in Nat
      BY DEF ImageBegins, Types
    <2>2. CASE q = r
      BY <2>1, <2>2, ResolvingIsFinite DEF ImageBegins, FewCallsLate
    <2>3. CASE q # r
      <3>1. Resolving(q)' \subseteq Resolving(q)
        BY <2>3 DEF ImageBegins, Becomes, Types, Resolving
      <3>2. Cardinality(Resolving(q)') <= Cardinality(Resolving(q))
        BY <3>1, ResolvingIsFinite, FS_Subset
      <3> QED
        BY <2>1, <3>2, ResolvingIsFinite DEF FewCallsLate
    <2> QED
      BY <2>2, <2>3
  <1> QED
    BY <1>1 DEF FewCallsLate

\* The one call of a chain: late if the run was cancelled meanwhile, and then one chain
\* less that could make one.
LEMMA ImageCallLate ==
    ASSUME Types, FewCallsLate, NEW c \in Callers, ImageCall(c)
    PROVE  FewCallsLate'
PROOF
  <1> DEFINE r == caller[c].run
  <1>1. r \in Runs /\ caller[c].pc = "loading"
    BY BusyCaller DEF ImageCall
  <1>2. CASE r \notin aborted
    <2>1. \A q \in Runs : Resolving(q)' \subseteq Resolving(q)
      BY DEF ImageCall, Call, Becomes, Types, Resolving
    <2> QED
      BY <1>2, <2>1, FewerResolving DEF ImageCall, Call
  <1>3. CASE r \in aborted
    <2>1. ASSUME NEW q \in Runs
          PROVE  /\ q \notin aborted' => late'[q] = 0
                 /\ late'[q] + Cardinality(Resolving(q)') <= Cardinality(Callers)
      <3>1. late'[q] = (IF q = r THEN late[q] + 1 ELSE late[q]) /\ late[q] \in Nat
        BY <1>1, <1>3 DEF ImageCall, Call, Types
      <3>2. Resolving(q)' = IF q = r THEN Resolving(q) \ {c} ELSE Resolving(q)
        BY <1>1 DEF ImageCall, Call, Becomes, Types, Resolving
      <3>3. q = r => c \in Resolving(q)
        BY <1>1 DEF Resolving
      <3>4. Cardinality(Resolving(q)') = IF q = r THEN Cardinality(Resolving(q)) - 1
                                         ELSE Cardinality(Resolving(q))
        BY <3>2, <3>3, ResolvingIsFinite, FS_RemoveElement
      <3> QED
        BY <1>3, <3>1, <3>4, ResolvingIsFinite DEF FewCallsLate, ImageCall
    <2> QED
      BY <2>1 DEF FewCallsLate
  <1> QED
    BY <1>2, <1>3

LEMMA InitLate == Init => FewCallsLate
PROOF
  <1> SUFFICES ASSUME Init, NEW r \in Runs
               PROVE  late[r] = 0 /\ late[r] + Cardinality(Resolving(r)) <= Cardinality(Callers)
    BY DEF FewCallsLate
  <1>1. Resolving(r) = {} /\ late[r] = 0
    BY DEF Init, Resolving, Idle
  <1> QED
    BY <1>1, FS_EmptySet, ResolvingIsFinite

LEMMA NextLate == Types /\ FewCallsLate /\ [Next]_vars => FewCallsLate'
PROOF
  <1> SUFFICES ASSUME Types, FewCallsLate, [Next]_vars PROVE FewCallsLate'
    OBVIOUS
  <1>1. ASSUME NEW c \in Callers,
               \/ MeteredCallReturns(c) \/ ImageIsNotDrawn(c)
               \/ ImageCallReturns(c) \/ ImageIsStored(c)
        PROVE  FewCallsLate'
    <2>1. caller'[c].pc \notin {"resolving", "loading"} /\ \A d \in Callers \ {c} : caller'[d] = caller[d]
      BY <1>1 DEF MeteredCallReturns, ImageIsNotDrawn, ImageCallReturns, ImageIsStored, Rests,
                  Becomes, Types, Idle
    <2>2. \A q \in Runs : Resolving(q)' \subseteq Resolving(q)
      BY <2>1 DEF Resolving
    <2> QED
      BY <1>1, <2>2, FewerResolving
      DEF MeteredCallReturns, ImageIsNotDrawn, ImageCallReturns, ImageIsStored
  <1>2. CASE Crash
    <2>1. \A q \in Runs : Resolving(q)' \subseteq Resolving(q)
      BY <1>2 DEF Crash, Resolving, Idle
    <2> QED
      BY <1>2, <2>1, FewerResolving DEF Crash
  <1>3. CASE UNCHANGED <<caller, late>> /\ aborted \subseteq aborted'
    <2>1. \A q \in Runs : Resolving(q)' = Resolving(q)
      BY <1>3 DEF Resolving
    <2> QED
      BY <1>3, <2>1, FewerResolving
  <1>4. ASSUME NEW c \in Callers, NEW quote \in Quotes, ImageIsAllowed(c, quote)
        PROVE  FewCallsLate'
    <2>1. \A q \in Runs : Resolving(q)' \subseteq Resolving(q)
      BY <1>4 DEF ImageIsAllowed, Becomes, Types, Resolving
    <2> QED
      BY <1>4, <2>1, FewerResolving DEF ImageIsAllowed
  <1> QED
    BY <1>1, <1>2, <1>3, <1>4, MeteredCallLate, ImageBeginsLate, ImageCallLate
    DEF Next, Cancel, RecordAges, vars

\* After a cancel, whatever is in flight: at most one call for each chain there can be, for
\* each has looked at the signal once before its only call.
THEOREM CancelledRunsCallLittle == Spec => []LittleAfterCancel
PROOF
  <1>1. BillInv /\ FewCallsLate => LittleAfterCancel
    BY ResolvingIsFinite DEF BillInv, Types, FewCallsLate, LittleAfterCancel
  <1>2. BillInv => Types
    BY DEF BillInv
  <1> QED
    BY <1>1, <1>2, InitBill, NextBill, InitLate, NextLate, PTL DEF Spec

-----------------------------------------------------------------------------
\* The ceilings.  What is out is counted in units of money; these are the units of a
\* function from callers to what each holds.

Amounts == 1 .. MaxBill

Units(held) == {u \in Callers \X Amounts : u[2] <= held[u[1]]}

LEMMA BillAssumptions == MaxBill \in Nat \ {0} /\ MaxQuote \in Nat /\ MaxQuote <= MaxBill
  BY MaxQuoteAssumption, MaxBillAssumption

\* One bill for each caller but one.
Others == (Cardinality(Callers) - 1) * MaxBill

LEMMA SlackType ==
    /\ Slack \in Nat /\ Others \in Nat /\ Slack = Others + MaxBill - 1
    /\ Cardinality(Callers) \in Nat \ {0}
PROOF
  <1>1. Cardinality(Callers) \in Nat \ {0}
    BY CallersAssumption, FS_CardinalityType, FS_EmptySet
  <1>2. ASSUME NEW n \in Nat \ {0}, NEW b \in Nat \ {0}
        PROVE  (n - 1) * b \in Nat /\ n * b = (n - 1) * b + b
    OBVIOUS
  <1>3. Others \in Nat /\ Cardinality(Callers) * MaxBill = Others + MaxBill
    BY <1>1, <1>2, BillAssumptions DEF Others
  <1> HIDE DEF Others
  <1> QED
    BY <1>1, <1>3, BillAssumptions DEF Slack

\* One caller's units.
LEMMA UnitsOfOne ==
    ASSUME NEW c, NEW n \in 0 .. MaxBill
    PROVE  IsFiniteSet({c} \X (1 .. n)) /\ Cardinality({c} \X (1 .. n)) = n
PROOF
  <1>1. IsFiniteSet(1 .. n) /\ Cardinality(1 .. n) = n /\ n \in Nat
    BY FS_Interval, BillAssumptions
  <1>2. IsFiniteSet({c}) /\ Cardinality({c}) = 1
    BY FS_Singleton
  <1> QED
    BY <1>1, <1>2, FS_Product

\* The others hold a bill each at most, whatever c holds.
LEMMA UnitsSplit ==
    ASSUME NEW held \in [Callers -> 0 .. MaxBill], NEW c \in Callers,
           NEW rest, rest = {u \in (Callers \ {c}) \X Amounts : u[2] <= held[u[1]]}
    PROVE  /\ Cardinality(rest) \in 0 .. Others
           /\ Cardinality(Units(held)) = Cardinality(rest) + held[c]
PROOF
  <1> DEFINE others == (Callers \ {c}) \X Amounts
             own == {c} \X (1 .. held[c])
  <1>1. /\ IsFiniteSet(Callers \ {c})
        /\ Cardinality(Callers \ {c}) = Cardinality(Callers) - 1
    BY CallersAssumption, FS_RemoveElement
  <1>2. IsFiniteSet(Amounts) /\ Cardinality(Amounts) = MaxBill
    BY FS_Interval, BillAssumptions DEF Amounts
  <1>3. IsFiniteSet(others) /\ Cardinality(others) = Others
    BY <1>1, <1>2, FS_Product DEF Others
  <1>4. IsFiniteSet(rest) /\ Cardinality(rest) <= Others /\ Cardinality(rest) \in Nat
    BY <1>3, FS_Subset, FS_CardinalityType
  <1>5. IsFiniteSet(own) /\ Cardinality(own) = held[c]
    BY UnitsOfOne
  <1>6. Units(held) = rest \cup own /\ rest \cap own = {}
    BY BillAssumptions DEF Units, Amounts
  <1>7. Cardinality(Units(held)) = Cardinality(rest) + held[c] - Cardinality({})
    BY <1>4, <1>5, <1>6, FS_Union
  <1> QED
    BY <1>4, <1>7, FS_EmptySet, SlackType

\* One caller holds more or less, and the others what they held.
LEMMA OneHolds ==
    ASSUME NEW held \in [Callers -> 0 .. MaxBill], NEW next \in [Callers -> 0 .. MaxBill],
           NEW c \in Callers, \A d \in Callers \ {c} : next[d] = held[d]
    PROVE  \E rest \in 0 .. Others :
              /\ Cardinality(Units(held)) = rest + held[c]
              /\ Cardinality(Units(next)) = rest + next[c]
PROOF
  <1> DEFINE rest == {u \in (Callers \ {c}) \X Amounts : u[2] <= held[u[1]]}
  <1>1. rest = {u \in (Callers \ {c}) \X Amounts : u[2] <= next[u[1]]}
    OBVIOUS
  <1> HIDE DEF rest
  <1>2. /\ Cardinality(rest) \in 0 .. Others
        /\ Cardinality(Units(held)) = Cardinality(rest) + held[c]
    BY UnitsSplit DEF rest
  <1>3. Cardinality(Units(next)) = Cardinality(rest) + next[c]
    BY <1>1, UnitsSplit
  <1> QED
    BY <1>2, <1>3

LEMMA InFlightIsUnits ==
    ASSUME NEW mine
    PROVE  InFlight(mine) = Cardinality(Units([c \in Callers |-> Held(c, mine)]))
PROOF
  <1>1. {u \in Callers \X Amounts : u[2] <= Held(u[1], mine)}
           = Units([c \in Callers |-> Held(c, mine)])
    BY DEF Units
  <1> QED
    BY <1>1 DEF InFlight, Amounts

LEMMA HeldType ==
    ASSUME caller \in [Callers -> Working \cup {Idle}], NEW mine, NEW c \in Callers
    PROVE  Held(c, mine) \in 0 .. MaxBill
  BY BillAssumptions DEF Held, Bill, Working, Idle

\* When one caller moves, what is out changes by what that one holds.
LEMMA InFlightMoves ==
    ASSUME caller \in [Callers -> Working \cup {Idle}], caller' \in [Callers -> Working \cup {Idle}],
           NEW c \in Callers, \A d \in Callers \ {c} : caller'[d] = caller[d], NEW mine
    PROVE  \E rest \in 0 .. Others :
              /\ InFlight(mine) = rest + Held(c, mine)
              /\ InFlight(mine)' = rest + Held(c, mine)'
PROOF
  <1> DEFINE held == [d \in Callers |-> Held(d, mine)]
             next == [d \in Callers |-> Held(d, mine)']
  <1>1. held \in [Callers -> 0 .. MaxBill]
    BY HeldType
  <1>2. next \in [Callers -> 0 .. MaxBill]
    BY BillAssumptions DEF Held, Bill, Working, Idle
  <1>3. \A d \in Callers \ {c} : next[d] = held[d]
    BY DEF Held, Bill
  <1>4. InFlight(mine)' = Cardinality(Units(next))
    <2>1. {u \in Callers \X Amounts : u[2] <= Held(u[1], mine)'} = Units(next)
      BY DEF Units
    <2> QED
      BY <2>1 DEF InFlight, Amounts
  <1>5. InFlight(mine) = Cardinality(Units(held))
    BY InFlightIsUnits
  <1>6. held[c] = Held(c, mine) /\ next[c] = Held(c, mine)'
    OBVIOUS
  <1> HIDE DEF held, next
  <1> QED
    BY <1>1, <1>2, <1>3, <1>4, <1>5, <1>6, OneHolds

LEMMA InFlightType ==
    ASSUME caller \in [Callers -> Working \cup {Idle}], NEW mine
    PROVE  InFlight(mine) \in Nat
PROOF
  <1> DEFINE out == {u \in Callers \X Amounts : u[2] <= Held(u[1], mine)}
  <1>1. IsFiniteSet(Callers \X Amounts)
    <2>1. IsFiniteSet(Amounts)
      BY BillAssumptions, FS_Interval DEF Amounts
    <2> QED
      BY <2>1, CallersAssumption, FS_Product
  <1>2. out \subseteq Callers \X Amounts
    OBVIOUS
  <1>3. IsFiniteSet(out)
    BY <1>1, <1>2, FS_Subset
  <1> QED
    BY <1>3, FS_CardinalityType DEF InFlight, Amounts

\* What has been metered under a ceiling and what is out.
Within(limit, metered, mine) == limit # None => metered + InFlight(mine) <= limit + Slack

\* A caller's move keeps a ceiling if the guard allowed it a quote, or if what it adds to the
\* meter it held before.
LEMMA StaysWithin ==
    ASSUME caller \in [Callers -> Working \cup {Idle}], caller' \in [Callers -> Working \cup {Idle}],
           NEW c \in Callers, \A d \in Callers \ {c} : caller'[d] = caller[d], NEW mine,
           NEW limit \in Nat \cup {None}, NEW m \in Nat, NEW n \in Nat,
           Within(limit, m, mine),
           n + Held(c, mine)' <= m + Held(c, mine) \/ Under(limit, n + 1)
    PROVE  limit # None => n + InFlight(mine)' <= limit + Slack
PROOF
  <1>1. PICK rest \in 0 .. Others : /\ InFlight(mine) = rest + Held(c, mine)
                                   /\ InFlight(mine)' = rest + Held(c, mine)'
    BY InFlightMoves
  <1>2. /\ Held(c, mine) \in Nat /\ Held(c, mine)' \in Nat /\ Held(c, mine)' <= MaxBill
        /\ rest \in Nat /\ rest <= Others /\ MaxBill \in Nat
        /\ Slack \in Nat /\ Others \in Nat /\ Slack = Others + MaxBill - 1
    BY <1>1, SlackType, BillAssumptions DEF Held, Bill, Working, Idle
  <1>3. InFlight(mine) \in Nat /\ InFlight(mine)' \in Nat
    BY <1>1, <1>2
  <1> QED
    BY <1>1, <1>2, <1>3, LimitsAssumption DEF Within, Under

\* The day's sum is that of the day's records: a record leaves it once.  The sums of the
\* records up to each of them are a function of their place.
SumsOf(recent, sums) ==
    /\ sums \in [0 .. Len(recent) -> Nat] /\ sums[0] = 0
    /\ \A i \in 1 .. Len(recent) : sums[i] = sums[i - 1] + recent[i]
    /\ \A i, j \in 0 .. Len(recent) : i <= j => sums[i] <= sums[j]

DayIsItsRecords == \E sums : SumsOf(meter.recent, sums) /\ meter.day = sums[Len(meter.recent)]

LEMMA RecordJoins ==
    ASSUME NEW recent \in Seq(Nat), NEW sums, SumsOf(recent, sums), NEW cost \in Nat
    PROVE  \E more : /\ SumsOf(Append(recent, cost), more)
                     /\ more[Len(Append(recent, cost))] = sums[Len(recent)] + cost
PROOF
  <1> DEFINE n == Len(recent)
             longer == Append(recent, cost)
             more == [i \in 0 .. n + 1 |-> IF i = n + 1 THEN sums[n] + cost ELSE sums[i]]
  <1>1. /\ n \in Nat /\ Len(longer) = n + 1 /\ longer[n + 1] = cost
        /\ \A i \in 1 .. n : longer[i] = recent[i]
    OBVIOUS
  <1>0. /\ \A i \in 0 .. n : sums[i] \in Nat
        /\ \A i, j \in 0 .. n : i <= j => sums[i] <= sums[j]
    BY DEF SumsOf
  <1> HIDE DEF n, longer
  <1>2. more \in [0 .. n + 1 -> Nat] /\ more[0] = 0
    <2>1. ASSUME NEW i \in 0 .. n + 1 PROVE more[i] \in Nat
      <3>1. i = n + 1 \/ i \in 0 .. n
        BY <1>1
      <3> QED
        BY <1>0, <1>1, <3>1
    <2>2. more[0] = 0
      BY <1>1 DEF SumsOf
    <2> QED
      BY <2>1, <2>2
  <1>3. \A i \in 1 .. n + 1 : more[i] = more[i - 1] + longer[i]
    BY <1>1 DEF SumsOf, n
  <1>4. \A i, j \in 0 .. n + 1 : i <= j => more[i] <= more[j]
    <2> SUFFICES ASSUME NEW i \in 0 .. n + 1, NEW j \in 0 .. n + 1, i <= j
                 PROVE  more[i] <= more[j]
      OBVIOUS
    <2>1. CASE j = n + 1
      <3>1. n \in 0 .. n /\ (i # n + 1 => i \in 0 .. n /\ i <= n)
        BY <1>1
      <3>2. i # n + 1 => sums[i] <= sums[n] /\ sums[i] \in Nat /\ sums[n] \in Nat
        BY <1>0, <3>1
      <3> QED
        BY <1>0, <1>1, <2>1, <3>1, <3>2
    <2>2. CASE j # n + 1
      <3>1. i \in 0 .. n /\ j \in 0 .. n /\ i # n + 1
        BY <1>1, <2>2
      <3> QED
        BY <1>0, <2>2, <3>1
    <2> QED
      BY <2>1, <2>2
  <1>5. SumsOf(longer, more)
    BY <1>1, <1>2, <1>3, <1>4 DEF SumsOf
  <1>6. more[Len(longer)] = sums[n] + cost
    BY <1>1
  <1> HIDE DEF more
  <1> QED
    BY <1>5, <1>6 DEF longer, n

LEMMA RecordLeaves ==
    ASSUME NEW recent \in Seq(Nat), recent # <<>>, NEW sums, SumsOf(recent, sums)
    PROVE  \E fewer : /\ SumsOf(Tail(recent), fewer)
                      /\ fewer[Len(Tail(recent))] = sums[Len(recent)] - Head(recent)
PROOF
  <1> DEFINE n == Len(recent)
             rest == Tail(recent)
             fewer == [i \in 0 .. n - 1 |-> sums[i + 1] - recent[1]]
  <1>1. /\ n \in Nat \ {0} /\ Len(rest) = n - 1 /\ Head(recent) = recent[1]
        /\ \A i \in 1 .. n - 1 : rest[i] = recent[i + 1]
        /\ \A i \in 1 .. n : recent[i] \in Nat
    OBVIOUS
  <1> HIDE DEF n, rest
  <1>2. /\ sums \in [0 .. n -> Nat] /\ sums[0] = 0
        /\ \A i \in 1 .. n : sums[i] = sums[i - 1] + recent[i]
        /\ \A i, j \in 0 .. n : i <= j => sums[i] <= sums[j]
    BY DEF SumsOf, n
  <1>3. sums[1] = recent[1] /\ \A i \in 0 .. n - 1 : recent[1] <= sums[i + 1]
    <2>1. 1 \in 1 .. n /\ 1 - 1 = 0 /\ recent[1] \in Nat
      BY <1>1
    <2>2. sums[1] = recent[1]
      BY <1>2, <2>1
    <2> QED
      BY <1>1, <1>2, <2>2
  <1>0. /\ \A i \in 0 .. n : sums[i] \in Nat
        /\ \A i \in 1 .. n - 1 : rest[i] \in Nat
        /\ recent[1] \in Nat
    <2>1. 1 \in 1 .. n /\ \A i \in 1 .. n - 1 : i + 1 \in 1 .. n
      BY <1>1
    <2> QED
      BY <1>1, <1>2, <2>1
  <1>4. fewer \in [0 .. n - 1 -> Nat] /\ fewer[0] = 0
    <2>1. ASSUME NEW i \in 0 .. n - 1 PROVE fewer[i] \in Nat
      <3>1. i + 1 \in 0 .. n
        BY <1>1
      <3>2. sums[i + 1] \in Nat /\ recent[1] <= sums[i + 1]
        BY <1>0, <1>3, <3>1
      <3>3. fewer[i] = sums[i + 1] - recent[1]
        OBVIOUS
      <3> HIDE DEF fewer
      <3> QED
        BY <1>0, <3>2, <3>3
    <2>2. fewer[0] = 0
      BY <1>0, <1>1, <1>3
    <2> QED
      BY <2>1, <2>2
  <1>5. ASSUME NEW i \in 1 .. n - 1
        PROVE  fewer[i] = fewer[i - 1] + rest[i]
    <2>1. /\ i \in 0 .. n - 1 /\ i - 1 \in 0 .. n - 1 /\ i + 1 \in 1 .. n /\ i \in 0 .. n
          /\ (i + 1) - 1 = i /\ (i - 1) + 1 = i
      BY <1>1
    <2>2. sums[i + 1] = sums[i] + rest[i]
      BY <1>1, <1>2, <2>1
    <2>3. fewer[i] = sums[i + 1] - recent[1] /\ fewer[i - 1] = sums[i] - recent[1]
      BY <2>1
    <2>4. sums[i] \in Nat /\ sums[i + 1] \in Nat /\ rest[i] \in Nat /\ recent[1] \in Nat
      BY <1>0, <2>1
    <2> HIDE DEF fewer
    <2> QED
      BY <2>2, <2>3, <2>4
  <1>6. ASSUME NEW i \in 0 .. n - 1, NEW j \in 0 .. n - 1, i <= j
        PROVE  fewer[i] <= fewer[j]
    <2>1. sums[i + 1] <= sums[j + 1] /\ sums[i + 1] \in Nat /\ sums[j + 1] \in Nat /\ recent[1] \in Nat
      BY <1>1, <1>2, <1>6
    <2> QED
      BY <2>1
  <1>7. fewer[n - 1] = sums[n] - Head(recent)
    BY <1>1
  <1> HIDE DEF fewer
  <1> QED
    BY <1>1, <1>4, <1>5, <1>6, <1>7 DEF SumsOf, n, rest

-----------------------------------------------------------------------------
\* The inductive invariant: types, the day's sum, and every ceiling with what is out.

CeilingsHold ==
    /\ \A r \in Runs : Within(Ceiling(r), meter.run[r], {r})
    /\ Within(DayLimit, meter.day, Runs)
    /\ Within(ProjectLimit, meter.project, Runs)

OverrunInv == TypeOK /\ DayIsItsRecords /\ CeilingsHold

LEMMA CeilingType ==
    ASSUME TypeOK, NEW r \in Runs
    PROVE  Ceiling(r) \in Nat \cup {None}
  BY LimitsAssumption DEF TypeOK, Ceiling

\* No metered amount grows by more than the caller that moves gives up; or the guard allowed
\* it a quote.
LEMMA MovesWithin ==
    ASSUME OverrunInv, TypeOK', budget' = budget, NEW c \in Callers,
           \A d \in Callers \ {c} : caller'[d] = caller[d],
           NEW r \in Runs,
           caller[c] # Idle => caller[c].run = r, caller'[c] # Idle => caller'[c].run = r,
           \A q \in Runs \ {r} : meter'.run[q] = meter.run[q],
           \/ /\ meter'.run[r] + Held(c, {r})' <= meter.run[r] + Held(c, {r})
              /\ meter'.day + Held(c, {r})' <= meter.day + Held(c, {r})
              /\ meter'.project + Held(c, {r})' <= meter.project + Held(c, {r})
           \/ /\ Under(Ceiling(r), meter'.run[r] + 1)
              /\ Under(DayLimit, meter'.day + 1)
              /\ Under(ProjectLimit, meter'.project + 1)
    PROVE  CeilingsHold'
PROOF
  <1>1. /\ caller \in [Callers -> Working \cup {Idle}] /\ caller' \in [Callers -> Working \cup {Idle}]
        /\ \A q \in Runs : meter.run[q] \in Nat /\ meter'.run[q] \in Nat
        /\ meter.day \in Nat /\ meter'.day \in Nat
        /\ meter.project \in Nat /\ meter'.project \in Nat
    BY DEF OverrunInv, TypeOK
  <1>2. Held(c, Runs) = Held(c, {r}) /\ Held(c, Runs)' = Held(c, {r})'
    BY DEF Held
  <1>3. \A q \in Runs \ {r} : Held(c, {q}) = 0 /\ Held(c, {q})' = 0
    BY DEF Held
  <1>4. /\ DayLimit \in Nat \cup {None} /\ ProjectLimit \in Nat \cup {None}
        /\ \A q \in Runs : Ceiling(q) \in Nat \cup {None} /\ Ceiling(q)' = Ceiling(q)
    BY CeilingType, LimitsAssumption DEF OverrunInv, Ceiling
  <1>5. DayLimit # None => meter'.day + InFlight(Runs)' <= DayLimit + Slack
    BY <1>1, <1>2, <1>4, StaysWithin DEF OverrunInv, CeilingsHold
  <1>6. ProjectLimit # None => meter'.project + InFlight(Runs)' <= ProjectLimit + Slack
    BY <1>1, <1>2, <1>4, StaysWithin DEF OverrunInv, CeilingsHold
  <1>7. Ceiling(r) # None => meter'.run[r] + InFlight({r})' <= Ceiling(r) + Slack
    BY <1>1, <1>4, StaysWithin DEF OverrunInv, CeilingsHold
  <1>8. ASSUME NEW q \in Runs \ {r}
        PROVE  Ceiling(q) # None => meter'.run[q] + InFlight({q})' <= Ceiling(q) + Slack
    <2>1. meter'.run[q] + Held(c, {q})' <= meter.run[q] + Held(c, {q})
      BY <1>1, <1>3
    <2> QED
      BY <1>1, <1>4, <2>1, StaysWithin DEF OverrunInv, CeilingsHold
  <1> QED
    BY <1>4, <1>5, <1>6, <1>7, <1>8 DEF CeilingsHold, Within

LEMMA RecordedIs ==
    ASSUME meter \in [run : [Runs -> Nat], project : Nat, day : Nat, recent : Seq(Nat)],
           NEW r \in Runs, NEW cost \in Nat
    PROVE  /\ Recorded(r, cost) \in [run : [Runs -> Nat], project : Nat, day : Nat, recent : Seq(Nat)]
           /\ Recorded(r, cost).run[r] = meter.run[r] + cost
           /\ Recorded(r, cost).day = meter.day + cost
           /\ Recorded(r, cost).project = meter.project + cost
           /\ \A q \in Runs \ {r} : Recorded(r, cost).run[q] = meter.run[q]
           /\ Recorded(r, cost).recent = Append(meter.recent, cost)
PROOF
  <1>1. [meter.run EXCEPT ![r] = @ + cost] \in [Runs -> Nat]
    OBVIOUS
  <1>2. Append(meter.recent, cost) \in Seq(Nat) /\ meter.project + cost \in Nat /\ meter.day + cost \in Nat
    OBVIOUS
  <1> QED
    BY <1>1, <1>2 DEF Recorded

LEMMA SpentTypes ==
    ASSUME TypeOK
    PROVE  /\ spent.calls < MaxCalls => [spent EXCEPT !.calls = @ + 1] \in
                  [calls : 0 .. MaxCalls, crashes : 0 .. MaxCrashes, faults : 0 .. MaxFaults]
           /\ spent.crashes < MaxCrashes => [spent EXCEPT !.crashes = @ + 1] \in
                  [calls : 0 .. MaxCalls, crashes : 0 .. MaxCrashes, faults : 0 .. MaxFaults]
           /\ spent.faults < MaxFaults => [spent EXCEPT !.faults = @ + 1] \in
                  [calls : 0 .. MaxCalls, crashes : 0 .. MaxCrashes, faults : 0 .. MaxFaults]
PROOF
  <1>1. /\ MaxCalls \in Nat /\ MaxCrashes \in Nat /\ MaxFaults \in Nat
        /\ spent \in [calls : 0 .. MaxCalls, crashes : 0 .. MaxCrashes, faults : 0 .. MaxFaults]
    BY BoundsAssumption DEF TypeOK
  <1>2. /\ spent.calls < MaxCalls => spent.calls + 1 \in 0 .. MaxCalls
        /\ spent.crashes < MaxCrashes => spent.crashes + 1 \in 0 .. MaxCrashes
        /\ spent.faults < MaxFaults => spent.faults + 1 \in 0 .. MaxFaults
    BY <1>1
  <1> QED
    BY <1>1, <1>2

\* A record is at most what its caller held.
LEMMA BookWithin ==
    ASSUME OverrunInv, budget' = budget, NEW c \in Callers, caller[c] # Idle, Rests(c),
           NEW r \in Runs, r = caller[c].run,
           NEW cost \in 0 .. Bill(c), Book(r, cost),
           aborted' = aborted, late' = late
    PROVE  OverrunInv'
PROOF
  <1>1. /\ Bill(c) \in Nat /\ cost \in Nat /\ cost <= Bill(c)
        /\ caller[c].quote \in 0 .. MaxQuote
    BY BillAssumptions DEF OverrunInv, TypeOK, Working, Bill
  <1>2. /\ meter' = Recorded(r, cost)
        /\ meter \in [run : [Runs -> Nat], project : Nat, day : Nat, recent : Seq(Nat)]
    BY DEF Book, OverrunInv, TypeOK
  <1>3. /\ meter' \in [run : [Runs -> Nat], project : Nat, day : Nat, recent : Seq(Nat)]
        /\ meter'.run[r] = meter.run[r] + cost /\ meter'.day = meter.day + cost
        /\ meter'.project = meter.project + cost
        /\ \A q \in Runs \ {r} : meter'.run[q] = meter.run[q]
        /\ meter'.recent = Append(meter.recent, cost)
    <2>1. /\ Recorded(r, cost).run[r] = meter.run[r] + cost
          /\ Recorded(r, cost).day = meter.day + cost
          /\ Recorded(r, cost).project = meter.project + cost
          /\ \A q \in Runs \ {r} : Recorded(r, cost).run[q] = meter.run[q]
          /\ Recorded(r, cost).recent = Append(meter.recent, cost)
          /\ Recorded(r, cost) \in
                [run : [Runs -> Nat], project : Nat, day : Nat, recent : Seq(Nat)]
      BY <1>1, <1>2, RecordedIs
    <2> QED
      BY <1>2, <2>1
  <1>4. TypeOK'
    <2>1. caller' \in [Callers -> Working \cup {Idle}]
      BY DEF Rests, OverrunInv, TypeOK
    <2>2. rows' \in [Runs -> Nat] /\ bill' \in [Runs -> Nat]
      <3>1. rows \in [Runs -> Nat] /\ bill \in [Runs -> Nat]
        BY DEF OverrunInv, TypeOK
      <3>2. Insert(r, cost) => rows' \in [Runs -> Nat]
        BY <1>1, <3>1 DEF Insert
      <3>3. Bump(r, cost) => bill' \in [Runs -> Nat]
        BY <1>1, <3>1 DEF Bump
      <3> QED
        BY <3>1, <3>2, <3>3 DEF Book, AppendUsage
    <2>3. spent' \in [calls : 0 .. MaxCalls, crashes : 0 .. MaxCrashes, faults : 0 .. MaxFaults]
      BY SpentTypes DEF Book, AppendUsage, OverrunInv, TypeOK
    <2> QED
      BY <1>3, <2>1, <2>2, <2>3 DEF OverrunInv, TypeOK
  <1>5. DayIsItsRecords'
    BY <1>1, <1>2, <1>3, RecordJoins DEF OverrunInv, DayIsItsRecords
  <1>6. Held(c, {r}) = Bill(c) /\ Held(c, {r})' = 0
    BY <1>1 DEF Held, Rests, OverrunInv, TypeOK
  <1>7. caller'[c] = Idle /\ \A d \in Callers \ {c} : caller'[d] = caller[d]
    BY DEF Rests, OverrunInv, TypeOK
  <1>8. /\ meter'.run[r] + Held(c, {r})' <= meter.run[r] + Held(c, {r})
        /\ meter'.day + Held(c, {r})' <= meter.day + Held(c, {r})
        /\ meter'.project + Held(c, {r})' <= meter.project + Held(c, {r})
    <2>1. meter.run[r] \in Nat /\ meter.day \in Nat /\ meter.project \in Nat
      BY <1>1, <1>2
    <2>2. \A m \in Nat : (m + cost) + 0 <= m + Bill(c)
      BY <1>1
    <2> QED
      BY <1>3, <1>6, <2>1, <2>2
  <1>9. CeilingsHold'
    <2>1. caller[c] # Idle => caller[c].run = r
      OBVIOUS
    <2>2. caller'[c] # Idle => caller'[c].run = r
      BY <1>7
    <2>3. \A q \in Runs \ {r} : meter'.run[q] = meter.run[q]
      BY <1>3
    <2>4. \A d \in Callers \ {c} : caller'[d] = caller[d]
      BY <1>7
    <2> QED
      BY <1>1, <1>4, <1>8, <2>1, <2>2, <2>3, <2>4, MovesWithin
  <1> QED
    BY <1>4, <1>5, <1>9 DEF OverrunInv

\* A caller lets go of what it held, or holds less, and nothing is metered.
LEMMA LessHeldWithin ==
    ASSUME OverrunInv, TypeOK', UNCHANGED <<budget, meter>>, NEW c \in Callers,
           \A d \in Callers \ {c} : caller'[d] = caller[d], NEW r \in Runs,
           caller[c] # Idle => caller[c].run = r, caller'[c] # Idle => caller'[c].run = r,
           Held(c, {r})' <= Held(c, {r})
    PROVE  OverrunInv'
PROOF
  <1>1. /\ \A q \in Runs : meter.run[q] \in Nat /\ meter'.run[q] = meter.run[q]
        /\ meter.day \in Nat /\ meter.project \in Nat
        /\ meter'.day = meter.day /\ meter'.project = meter.project
        /\ Held(c, {r}) \in Nat /\ Held(c, {r})' \in Nat
    BY BillAssumptions DEF OverrunInv, TypeOK, Held, Bill, Working
  <1>2. /\ meter'.run[r] + Held(c, {r})' <= meter.run[r] + Held(c, {r})
        /\ meter'.day + Held(c, {r})' <= meter.day + Held(c, {r})
        /\ meter'.project + Held(c, {r})' <= meter.project + Held(c, {r})
    BY <1>1
  <1>3. CeilingsHold'
    BY <1>1, <1>2, MovesWithin
  <1> QED
    BY <1>3 DEF OverrunInv, DayIsItsRecords

\* A caller goes on that the guard has allowed a quote.
LEMMA AllowedWithin ==
    ASSUME OverrunInv, NEW c \in Callers, NEW r \in Runs, NEW quote \in Quotes,
           NEW pc \in {"metered", "loading"}, caller[c] # Idle => caller[c].run = r,
           Allowed(r, quote), Becomes(c, pc, r, quote),
           UNCHANGED <<budget, meter, rows, bill, aborted>>, late' \in [Runs -> Nat],
           spent' \in [calls : 0 .. MaxCalls, crashes : 0 .. MaxCrashes, faults : 0 .. MaxFaults]
    PROVE  OverrunInv'
PROOF
  <1>1. quote \in 0 .. MaxQuote /\ quote \in Nat /\ 1 <= quote
    BY MaxQuoteAssumption DEF Quotes
  <1>2. /\ caller' \in [Callers -> Working \cup {Idle}]
        /\ caller'[c] = [pc |-> pc, run |-> r, quote |-> quote]
        /\ \A d \in Callers \ {c} : caller'[d] = caller[d]
    BY <1>1 DEF Becomes, OverrunInv, TypeOK, Working
  <1>3. TypeOK'
    BY <1>2 DEF OverrunInv, TypeOK
  <1>4. caller'[c] # Idle /\ caller'[c].run = r
    BY <1>2 DEF Idle
  <1>5. /\ Under(Ceiling(r), meter'.run[r] + 1)
        /\ Under(DayLimit, meter'.day + 1)
        /\ Under(ProjectLimit, meter'.project + 1)
    <2>1. /\ meter.run[r] \in Nat /\ meter.day \in Nat /\ meter.project \in Nat
          /\ Ceiling(r) \in Nat \cup {None}
      BY CeilingType DEF OverrunInv, TypeOK
    <2>2. ASSUME NEW limit \in Nat \cup {None}, NEW m \in Nat, Under(limit, m + quote)
          PROVE  Under(limit, m + 1)
      BY <1>1, <2>2, LimitsAssumption DEF Under
    <2> QED
      BY <2>1, <2>2, LimitsAssumption DEF Allowed
  <1>6. \A q \in Runs \ {r} : meter'.run[q] = meter.run[q]
    OBVIOUS
  <1>7. CeilingsHold'
    BY <1>2, <1>3, <1>4, <1>5, <1>6, MovesWithin
  <1> QED
    BY <1>3, <1>7 DEF OverrunInv, DayIsItsRecords

\* A call leaves: one call more of those counted.
LEMMA CallTypes ==
    ASSUME TypeOK, NEW c \in Callers, NEW r \in Runs, NEW quote, NEW pc, Call(c, pc, r, quote)
    PROVE  /\ late' \in [Runs -> Nat]
           /\ spent' \in [calls : 0 .. MaxCalls, crashes : 0 .. MaxCrashes, faults : 0 .. MaxFaults]
PROOF
  <1>1. late' \in [Runs -> Nat]
    BY DEF Call, TypeOK
  <1> QED
    BY <1>1, SpentTypes DEF Call

\* A caller that is not idle, and the run it works for.
LEMMA BusyRun ==
    ASSUME TypeOK, NEW c \in Callers, caller[c].pc # "idle"
    PROVE  /\ caller[c] # Idle /\ caller[c].quote \in 0 .. MaxQuote
           /\ \E r \in Runs : r = caller[c].run
  BY DEF TypeOK, Working, Idle

\* A caller comes to rest, and nothing is metered.
LEMMA RestsWithin ==
    ASSUME OverrunInv, NEW c \in Callers, caller[c].pc # "idle", Rests(c),
           UNCHANGED <<budget, meter, rows, bill, aborted, late>>,
           spent' \in [calls : 0 .. MaxCalls, crashes : 0 .. MaxCrashes, faults : 0 .. MaxFaults]
    PROVE  OverrunInv'
PROOF
  <1>1. PICK r \in Runs : r = caller[c].run
    BY BusyRun DEF OverrunInv
  <1>2. caller' \in [Callers -> Working \cup {Idle}]
    BY DEF Rests, OverrunInv, TypeOK
  <1>3. TypeOK'
    BY <1>2 DEF OverrunInv, TypeOK
  <1>4. caller'[c] = Idle /\ \A d \in Callers \ {c} : caller'[d] = caller[d]
    BY DEF Rests, OverrunInv, TypeOK
  <1>5. Held(c, {r})' = 0 /\ Held(c, {r}) \in 0 .. MaxBill
    BY <1>4, HeldType DEF OverrunInv, TypeOK, Held
  <1>6. Held(c, {r})' <= Held(c, {r})
    BY <1>5, BillAssumptions
  <1> QED
    BY <1>1, <1>3, <1>4, <1>6, LessHeldWithin

LEMMA MeteredReturnsWithin ==
    ASSUME OverrunInv, NEW c \in Callers, MeteredCallReturns(c)
    PROVE  OverrunInv'
PROOF
  <1>1. PICK r \in Runs : r = caller[c].run
    BY BusyRun DEF OverrunInv, MeteredCallReturns
  <1>2. caller[c].quote \in 0 .. MaxQuote /\ caller[c].pc # "idle" /\ caller[c] # Idle
    BY BusyRun DEF OverrunInv, MeteredCallReturns
  <1>3. ASSUME UNCHANGED <<meter, rows, bill, spent>>
        PROVE  OverrunInv'
    BY <1>2, <1>3, RestsWithin DEF MeteredCallReturns, OverrunInv, TypeOK
  <1>4. ASSUME NEW cost \in 0 .. MaxBill, Book(r, cost)
        PROVE  OverrunInv'
    <2>1. cost \in 0 .. Bill(c)
      BY DEF MeteredCallReturns, Bill
    <2> QED
      BY <1>1, <1>2, <1>4, <2>1, BookWithin DEF MeteredCallReturns
  <1>5. caller[c].quote \in 0 .. MaxBill
    BY <1>2, BillAssumptions
  <1> QED
    BY <1>1, <1>3, <1>4, <1>5 DEF MeteredCallReturns

LEMMA ImageBeginsWithin ==
    ASSUME OverrunInv, NEW c \in Callers, NEW r \in Runs, ImageBegins(c, r)
    PROVE  OverrunInv'
PROOF
  <1>1. /\ caller' \in [Callers -> Working \cup {Idle}]
        /\ caller'[c] = [pc |-> "resolving", run |-> r, quote |-> 0]
        /\ \A d \in Callers \ {c} : caller'[d] = caller[d]
    BY MaxQuoteAssumption DEF ImageBegins, Becomes, OverrunInv, TypeOK, Working
  <1>2. TypeOK'
    BY <1>1 DEF ImageBegins, OverrunInv, TypeOK
  <1>3. caller[c] = Idle /\ caller'[c].run = r /\ UNCHANGED <<budget, meter>>
    BY <1>1 DEF ImageBegins
  <1>4. Held(c, {r})' <= Held(c, {r})
    BY <1>1, <1>3 DEF Held, Bill
  <1> QED
    BY <1>1, <1>2, <1>3, <1>4, LessHeldWithin

LEMMA ImageCallWithin ==
    ASSUME OverrunInv, NEW c \in Callers, ImageCall(c)
    PROVE  OverrunInv'
PROOF
  <1>1. PICK r \in Runs : r = caller[c].run
    BY BusyRun DEF OverrunInv, ImageCall
  <1>2. caller[c].quote \in 0 .. MaxQuote /\ caller[c].pc = "loading" /\ caller[c] # Idle
    BY BusyRun DEF OverrunInv, ImageCall
  <1>3. /\ late' \in [Runs -> Nat]
        /\ spent' \in [calls : 0 .. MaxCalls, crashes : 0 .. MaxCrashes, faults : 0 .. MaxFaults]
    BY <1>1, CallTypes DEF ImageCall, OverrunInv
  <1>4. /\ caller' \in [Callers -> Working \cup {Idle}]
        /\ caller'[c] = [pc |-> "drawing", run |-> r, quote |-> caller[c].quote]
        /\ \A d \in Callers \ {c} : caller'[d] = caller[d]
    BY <1>1, <1>2 DEF ImageCall, Call, Becomes, OverrunInv, TypeOK, Working
  <1>5. TypeOK'
    BY <1>3, <1>4 DEF ImageCall, OverrunInv, TypeOK
  <1>6. Held(c, {r})' <= Held(c, {r})
    BY <1>1, <1>2, <1>4, MaxQuoteAssumption DEF Held, Bill, Idle
  <1>7. caller'[c].run = r /\ UNCHANGED <<budget, meter>>
    BY <1>4 DEF ImageCall
  <1> QED
    BY <1>1, <1>4, <1>5, <1>6, <1>7, LessHeldWithin

LEMMA ImageReturnsWithin ==
    ASSUME OverrunInv, NEW c \in Callers, ImageCallReturns(c)
    PROVE  OverrunInv'
PROOF
  <1>1. PICK r \in Runs : r = caller[c].run
    BY BusyRun DEF OverrunInv, ImageCallReturns
  <1>2. caller[c].quote \in 0 .. MaxQuote /\ caller[c].pc # "idle" /\ caller[c] # Idle
    BY BusyRun DEF OverrunInv, ImageCallReturns
  <1>3. ASSUME NEW cost \in 0 .. caller[c].quote, Becomes(c, "storing", r, cost),
               UNCHANGED <<meter, rows, bill, spent>>
        PROVE  OverrunInv'
    <2>1. cost \in 0 .. MaxQuote /\ cost <= caller[c].quote
      BY <1>2, MaxQuoteAssumption
    <2>2. /\ caller' \in [Callers -> Working \cup {Idle}]
          /\ caller'[c] = [pc |-> "storing", run |-> r, quote |-> cost]
          /\ \A d \in Callers \ {c} : caller'[d] = caller[d]
      BY <1>3, <2>1 DEF Becomes, OverrunInv, TypeOK, Working
    <2>3. TypeOK'
      BY <1>3, <2>2 DEF ImageCallReturns, OverrunInv, TypeOK
    <2>4. Held(c, {r})' <= Held(c, {r})
      BY <1>1, <1>2, <2>1, <2>2 DEF ImageCallReturns, Held, Bill, Idle
    <2>5. caller'[c].run = r /\ UNCHANGED <<budget, meter>>
      BY <1>3, <2>2 DEF ImageCallReturns
    <2> QED
      BY <1>1, <2>2, <2>3, <2>4, <2>5, LessHeldWithin
  <1>4. ASSUME Rests(c), NEW cost \in 0 .. caller[c].quote, Book(r, cost)
        PROVE  OverrunInv'
    <2>1. cost \in 0 .. Bill(c)
      BY DEF ImageCallReturns, Bill
    <2> QED
      BY <1>1, <1>2, <1>4, <2>1, BookWithin DEF ImageCallReturns
  <1> QED
    BY <1>1, <1>3, <1>4 DEF ImageCallReturns

LEMMA ImageStoredWithin ==
    ASSUME OverrunInv, NEW c \in Callers, ImageIsStored(c)
    PROVE  OverrunInv'
PROOF
  <1>1. PICK r \in Runs : r = caller[c].run
    BY BusyRun DEF OverrunInv, ImageIsStored
  <1>2. caller[c].quote \in 0 .. MaxQuote /\ caller[c].pc # "idle" /\ caller[c] # Idle
    BY BusyRun DEF OverrunInv, ImageIsStored
  <1>3. ASSUME Book(r, caller[c].quote)
        PROVE  OverrunInv'
    <2>1. caller[c].quote \in 0 .. Bill(c)
      BY <1>2, MaxQuoteAssumption DEF ImageIsStored, Bill
    <2>2. PICK x \in 0 .. Bill(c) : x = caller[c].quote
      BY <2>1
    <2> QED
      BY <1>1, <1>2, <1>3, <2>2, BookWithin DEF ImageIsStored
  <1>4. ASSUME spent.faults < MaxFaults, spent' = [spent EXCEPT !.faults = @ + 1],
               UNCHANGED <<meter, rows, bill>>
        PROVE  OverrunInv'
    BY <1>2, <1>4, SpentTypes, RestsWithin DEF ImageIsStored, OverrunInv
  <1> QED
    BY <1>1, <1>3, <1>4 DEF ImageIsStored

LEMMA AgesWithin ==
    ASSUME OverrunInv, RecordAges
    PROVE  OverrunInv'
PROOF
  <1>1. /\ meter \in [run : [Runs -> Nat], project : Nat, day : Nat, recent : Seq(Nat)]
        /\ meter.recent \in Seq(Nat) /\ meter.recent # <<>>
        /\ meter.day \in Nat
    BY DEF OverrunInv, TypeOK, RecordAges
  <1>2. /\ meter'.run = meter.run /\ meter'.project = meter.project
        /\ meter'.day = meter.day - Head(meter.recent) /\ meter'.recent = Tail(meter.recent)
        /\ meter' = [run |-> meter.run, project |-> meter.project,
                      day |-> meter.day - Head(meter.recent), recent |-> Tail(meter.recent)]
    BY <1>1 DEF RecordAges
  <1>3. PICK sums : SumsOf(meter.recent, sums) /\ meter.day = sums[Len(meter.recent)]
    BY DEF OverrunInv, DayIsItsRecords
  <1>4. PICK fewer : /\ SumsOf(Tail(meter.recent), fewer)
                     /\ fewer[Len(Tail(meter.recent))] = sums[Len(meter.recent)] - Head(meter.recent)
    BY <1>1, <1>3, RecordLeaves
  <1>5. DayIsItsRecords'
    BY <1>2, <1>3, <1>4 DEF DayIsItsRecords
  <1>6. meter'.day \in Nat /\ meter'.day <= meter.day
    <2>1. Len(Tail(meter.recent)) \in Nat /\ Tail(meter.recent) \in Seq(Nat)
      BY <1>1
    <2>2. fewer[Len(Tail(meter.recent))] \in Nat
      BY <1>4, <2>1, SMTT(30) DEF SumsOf
    <2>3. Head(meter.recent) \in Nat
      BY <1>1
    <2> QED
      BY <1>1, <1>2, <1>3, <1>4, <2>2, <2>3
  <1>7. TypeOK'
    <2>1. Tail(meter.recent) \in Seq(Nat)
      BY <1>1
    <2>2. meter' \in [run : [Runs -> Nat], project : Nat, day : Nat, recent : Seq(Nat)]
      BY <1>1, <1>2, <1>6, <2>1
    <2> QED
      BY <2>2 DEF OverrunInv, TypeOK, RecordAges
  <1>8. CeilingsHold'
    <2>1. \A mine : InFlight(mine)' = InFlight(mine)
      BY DEF RecordAges, InFlight, Held, Bill
    <2>2. \A r \in Runs : Ceiling(r)' = Ceiling(r)
      BY DEF RecordAges, Ceiling
    <2>3. \A r \in Runs : Within(Ceiling(r), meter.run[r], {r})'
      BY <1>2, <2>1, <2>2 DEF OverrunInv, CeilingsHold, Within
    <2>4. Within(ProjectLimit, meter.project, Runs)'
      BY <1>2, <2>1 DEF OverrunInv, CeilingsHold, Within
    <2>5. Within(DayLimit, meter.day, Runs)'
      <3>1. InFlight(Runs) \in Nat
        BY InFlightType DEF OverrunInv, TypeOK
      <3>2. DayLimit \in Nat \cup {None} /\ Slack \in Nat
        BY LimitsAssumption, SlackType
      <3>3. Within(DayLimit, meter.day, Runs)
        BY DEF OverrunInv, CeilingsHold
      <3> QED
        BY <1>1, <1>6, <2>1, <3>1, <3>2, <3>3 DEF Within
    <2> QED
      BY <2>3, <2>4, <2>5 DEF CeilingsHold
  <1> QED
    BY <1>5, <1>7, <1>8 DEF OverrunInv

\* With nothing metered and nothing out, the day is empty and every ceiling holds.
NothingIsOut == TypeOK /\ meter = NoRecords /\ caller = [c \in Callers |-> Idle]

LEMMA NothingOut == NothingIsOut => OverrunInv
PROOF
  <1> SUFFICES ASSUME NothingIsOut PROVE OverrunInv
    OBVIOUS
  <1> USE DEF NothingIsOut
  <1>1. \A mine : InFlight(mine) = 0
    <2> SUFFICES ASSUME NEW mine PROVE InFlight(mine) = 0
      OBVIOUS
    <2>1. {u \in Callers \X (1 .. MaxBill) : u[2] <= Held(u[1], mine)} = {}
      BY BillAssumptions DEF Held
    <2> QED
      BY <2>1, FS_EmptySet DEF InFlight
  <1>2. CeilingsHold
    <2>1. \A r \in Runs : Ceiling(r) \in Nat \cup {None}
      BY CeilingType
    <2>2. meter.day = 0 /\ meter.project = 0 /\ \A r \in Runs : meter.run[r] = 0
      BY DEF NoRecords
    <2> QED
      BY <1>1, <2>1, <2>2, SlackType, LimitsAssumption DEF CeilingsHold, Within
  <1>3. DayIsItsRecords
    <2> DEFINE sums == [i \in 0 .. 0 |-> 0]
    <2>1. meter.recent = <<>> /\ meter.day = 0 /\ Len(<<>>) = 0
      BY DEF NoRecords
    <2>2. SumsOf(<<>>, sums)
      BY DEF SumsOf
    <2>3. sums[0] = 0
      OBVIOUS
    <2> QED
      BY <2>1, <2>2, <2>3 DEF DayIsItsRecords
  <1> QED
    BY <1>2, <1>3 DEF OverrunInv

LEMMA NothingOutNext == NothingIsOut' => OverrunInv'
PROOF
  <1>1. (NothingIsOut => OverrunInv)'
    BY NothingOut, PTL
  <1> QED
    BY <1>1

LEMMA NoRecordsType ==
    NoRecords \in [run : [Runs -> Nat], project : Nat, day : Nat, recent : Seq(Nat)]
PROOF
  <1>1. [r \in Runs |-> 0] \in [Runs -> Nat] /\ <<>> \in Seq(Nat)
    OBVIOUS
  <1> QED
    BY <1>1 DEF NoRecords

LEMMA CrashWithin ==
    ASSUME OverrunInv, Crash
    PROVE  OverrunInv'
PROOF
  <1>1. rows' \in [Runs -> Nat]
    <2>1. rows \in [Runs -> Nat]
      BY DEF OverrunInv, TypeOK
    <2>2. ASSUME NEW c \in Callers, NEW cost \in 0 .. MaxBill, Insert(caller[c].run, cost)
          PROVE  rows' \in [Runs -> Nat]
      <3>1. cost \in Nat /\ \A q \in Runs : rows[q] + cost \in Nat
        BY <2>1, BillAssumptions
      <3> QED
        BY <2>1, <2>2, <3>1 DEF Insert
    <2> QED
      BY <2>1, <2>2 DEF Crash
  <1>2. spent' \in [calls : 0 .. MaxCalls, crashes : 0 .. MaxCrashes, faults : 0 .. MaxFaults]
    BY SpentTypes DEF Crash, OverrunInv
  <1>3. TypeOK'
    BY <1>1, <1>2, NoRecordsType DEF Crash, OverrunInv, TypeOK
  <1>4. meter' = NoRecords /\ caller' = [c \in Callers |-> Idle]
    BY DEF Crash
  <1> QED
    BY <1>3, <1>4, NothingOutNext DEF NothingIsOut

LEMMA InitOverrun == Init => OverrunInv
PROOF
  <1> SUFFICES ASSUME Init PROVE OverrunInv
    OBVIOUS
  <1>1. spent \in [calls : 0 .. MaxCalls, crashes : 0 .. MaxCrashes, faults : 0 .. MaxFaults]
    BY BoundsAssumption DEF Init
  <1>2. TypeOK
    BY <1>1, NoRecordsType DEF Init, TypeOK
  <1> QED
    BY <1>2, NothingOut DEF Init, NothingIsOut

LEMMA NextOverrun == OverrunInv /\ [Next]_vars => OverrunInv'
PROOF
  <1> SUFFICES ASSUME OverrunInv, [Next]_vars PROVE OverrunInv'
    OBVIOUS
  <1>1. ASSUME NEW c \in Callers, NEW r \in Runs, NEW quote \in Quotes, MeteredCall(c, r, quote)
        PROVE  OverrunInv'
    BY <1>1, CallTypes, AllowedWithin DEF MeteredCall, Call, OverrunInv
  <1>2. ASSUME NEW c \in Callers, MeteredCallReturns(c) PROVE OverrunInv'
    BY <1>2, MeteredReturnsWithin
  <1>3. ASSUME NEW c \in Callers, NEW r \in Runs, ImageBegins(c, r) PROVE OverrunInv'
    BY <1>3, ImageBeginsWithin
  <1>4. ASSUME NEW c \in Callers, ImageIsNotDrawn(c) PROVE OverrunInv'
    BY <1>4, RestsWithin DEF ImageIsNotDrawn, OverrunInv, TypeOK
  <1>5. ASSUME NEW c \in Callers, NEW quote \in Quotes, ImageIsAllowed(c, quote)
        PROVE  OverrunInv'
    <2>1. PICK r \in Runs : r = caller[c].run
      BY <1>5, BusyRun DEF ImageIsAllowed, OverrunInv
    <2> QED
      BY <1>5, <2>1, AllowedWithin DEF ImageIsAllowed, OverrunInv, TypeOK
  <1>6. ASSUME NEW c \in Callers, ImageCallReturns(c) PROVE OverrunInv'
    BY <1>6, ImageReturnsWithin
  <1>7. ASSUME NEW c \in Callers, ImageIsStored(c) PROVE OverrunInv'
    BY <1>7, ImageStoredWithin
  <1>8. ASSUME NEW r \in Runs, Cancel(r) PROVE OverrunInv'
    <2>1. TypeOK'
      BY <1>8 DEF Cancel, OverrunInv, TypeOK
    <2>2. CeilingsHold' /\ DayIsItsRecords'
      BY <1>8 DEF Cancel, OverrunInv, CeilingsHold, DayIsItsRecords, Within, InFlight, Held, Bill, Ceiling
    <2> QED
      BY <2>1, <2>2 DEF OverrunInv
  <1>9. ASSUME RecordAges PROVE OverrunInv'
    BY <1>9, AgesWithin
  <1>10. ASSUME Crash PROVE OverrunInv'
    BY <1>10, CrashWithin
  <1>12. ASSUME NEW c \in Callers, ImageCall(c) PROVE OverrunInv'
    BY <1>12, ImageCallWithin
  <1>11. ASSUME UNCHANGED vars PROVE OverrunInv'
    <2>1. TypeOK'
      BY <1>11 DEF vars, OverrunInv, TypeOK
    <2>2. CeilingsHold' /\ DayIsItsRecords'
      BY <1>11 DEF vars, OverrunInv, CeilingsHold, DayIsItsRecords, Within, InFlight, Held, Bill, Ceiling
    <2> QED
      BY <2>1, <2>2 DEF OverrunInv
  <1> QED
    BY <1>1, <1>2, <1>3, <1>4, <1>5, <1>6, <1>7, <1>8, <1>9, <1>10, <1>11, <1>12 DEF Next

\* Whatever goes into the ledger has gone into the meter before.
LedgerIsMetered == \A r \in Runs : spent.crashes = 0 => rows[r] <= meter.run[r]

LEMMA BookMetered ==
    ASSUME TypeOK, LedgerIsMetered, NEW r \in Runs, NEW cost \in Nat, Book(r, cost)
    PROVE  LedgerIsMetered'
PROOF
  <1>1. /\ rows \in [Runs -> Nat]
        /\ meter \in [run : [Runs -> Nat], project : Nat, day : Nat, recent : Seq(Nat)]
        /\ spent \in [calls : 0 .. MaxCalls, crashes : 0 .. MaxCrashes, faults : 0 .. MaxFaults]
    BY DEF TypeOK
  <1>2. spent'.crashes = spent.crashes
    BY <1>1 DEF Book, AppendUsage
  <1>3. /\ meter'.run[r] = meter.run[r] + cost
        /\ \A q \in Runs \ {r} : meter'.run[q] = meter.run[q]
    <2>1. /\ Recorded(r, cost).run[r] = meter.run[r] + cost
          /\ \A q \in Runs \ {r} : Recorded(r, cost).run[q] = meter.run[q]
      BY <1>1, RecordedIs
    <2>2. meter' = Recorded(r, cost)
      BY DEF Book
    <2> QED
      BY <2>1, <2>2
  <1>4. Insert(r, cost) \/ UNCHANGED rows
    BY DEF Book, AppendUsage
  <1>5. ASSUME NEW q \in Runs, rows[q] <= meter.run[q]
        PROVE  rows'[q] <= meter'.run[q]
    <2>1. rows[q] \in Nat /\ meter.run[q] \in Nat
      BY <1>1
    <2>2. rows'[q] = rows[q] \/ (q = r /\ rows'[q] = rows[q] + cost)
      BY <1>1, <1>4 DEF Insert
    <2>3. meter'.run[q] = IF q = r THEN meter.run[q] + cost ELSE meter.run[q]
      BY <1>3
    <2> QED
      BY <1>5, <2>1, <2>2, <2>3
  <1> QED
    BY <1>2, <1>5 DEF LedgerIsMetered

LEMMA NextMetered == TypeOK /\ LedgerIsMetered /\ [Next]_vars => LedgerIsMetered'
PROOF
  <1> SUFFICES ASSUME TypeOK, LedgerIsMetered, [Next]_vars PROVE LedgerIsMetered'
    OBVIOUS
  <1>1. /\ meter \in [run : [Runs -> Nat], project : Nat, day : Nat, recent : Seq(Nat)]
        /\ spent \in [calls : 0 .. MaxCalls, crashes : 0 .. MaxCrashes, faults : 0 .. MaxFaults]
        /\ MaxBill \in Nat /\ MaxQuote \in Nat
    BY BillAssumptions DEF TypeOK
  <1>2. ASSUME UNCHANGED rows, meter'.run = meter.run, spent'.crashes = spent.crashes
        PROVE  LedgerIsMetered'
    BY <1>2 DEF LedgerIsMetered
  <1>3. ASSUME NEW c \in Callers, caller[c].pc # "idle", NEW cost \in Nat, Book(caller[c].run, cost)
        PROVE  LedgerIsMetered'
    BY <1>3, BusyRun, BookMetered
  <1>4. CASE Crash
    BY <1>1, <1>4 DEF Crash, LedgerIsMetered
  <1>5. CASE RecordAges
    BY <1>1, <1>2, <1>5 DEF RecordAges
  <1>0. ASSUME NEW c \in Callers, caller[c].pc # "idle"
        PROVE  caller[c].quote \in Nat /\ \A cost \in 0 .. caller[c].quote : cost \in Nat
    <2>1. caller[c].quote \in 0 .. MaxQuote
      BY <1>0 DEF TypeOK, Working, Idle
    <2> QED
      BY <1>1, <2>1
  <1>6. ASSUME NEW c \in Callers, MeteredCallReturns(c)
        PROVE  LedgerIsMetered'
    <2>1. caller[c].pc # "idle"
      BY <1>6 DEF MeteredCallReturns
    <2>2. \/ UNCHANGED <<meter, rows, spent>>
          \/ Book(caller[c].run, caller[c].quote)
          \/ \E cost \in 0 .. MaxBill : Book(caller[c].run, cost)
      BY <1>6 DEF MeteredCallReturns
    <2>3. CASE UNCHANGED <<meter, rows, spent>>
      BY <1>2, <2>3
    <2>4. CASE Book(caller[c].run, caller[c].quote)
      BY <1>0, <1>3, <2>1, <2>4
    <2>5. ASSUME NEW cost \in 0 .. MaxBill, Book(caller[c].run, cost) PROVE LedgerIsMetered'
      <3>1. cost \in Nat
        BY <1>1
      <3> QED
        BY <1>3, <2>1, <2>5, <3>1
    <2> QED
      BY <2>2, <2>3, <2>4, <2>5
  <1>7. ASSUME NEW c \in Callers, ImageCallReturns(c)
        PROVE  LedgerIsMetered'
    <2>1. caller[c].pc # "idle"
      BY <1>7 DEF ImageCallReturns
    <2>2. \/ UNCHANGED <<meter, rows, spent>>
          \/ \E cost \in 0 .. caller[c].quote : Book(caller[c].run, cost)
      BY <1>7 DEF ImageCallReturns
    <2>3. CASE UNCHANGED <<meter, rows, spent>>
      BY <1>2, <2>3
    <2>4. ASSUME NEW cost \in 0 .. caller[c].quote, Book(caller[c].run, cost)
          PROVE  LedgerIsMetered'
      <3>1. cost \in Nat
        BY <1>0, <2>1
      <3> QED
        BY <1>3, <2>1, <2>4, <3>1
    <2> QED
      BY <2>2, <2>3, <2>4
  <1>8. ASSUME NEW c \in Callers, ImageIsStored(c)
        PROVE  LedgerIsMetered'
    <2>1. caller[c].pc # "idle"
      BY <1>8 DEF ImageIsStored
    <2>2. \/ spent'.crashes = spent.crashes /\ UNCHANGED <<rows, meter>>
          \/ Book(caller[c].run, caller[c].quote)
      BY <1>1, <1>8 DEF ImageIsStored
    <2>3. CASE spent'.crashes = spent.crashes /\ UNCHANGED <<rows, meter>>
      BY <1>2, <2>3
    <2>4. CASE Book(caller[c].run, caller[c].quote)
      BY <1>0, <1>3, <2>1, <2>4
    <2> QED
      BY <2>2, <2>3, <2>4
  <1>9. CASE UNCHANGED <<rows, meter>> /\ spent'.crashes = spent.crashes
    BY <1>2, <1>9
  <1>10. ASSUME NEW c \in Callers, NEW pc, NEW r, NEW quote, Call(c, pc, r, quote)
         PROVE  spent'.crashes = spent.crashes
    BY <1>1, <1>10 DEF Call
  <1> QED
    BY <1>4, <1>5, <1>6, <1>7, <1>8, <1>9, <1>10
    DEF Next, MeteredCall, ImageBegins, ImageIsNotDrawn, ImageIsAllowed, ImageCall, Cancel, vars

\* However many calls are out at once, whatever fails, ages or is cancelled, and whenever the
\* process dies: a ceiling is overrun by less than one bill for each caller, and what the
\* ledger has the guard has seen, until the process dies (MeteredCallRunner.run,
\* GenerateAssetVersionUseCase; the guard reserves nothing and knows a stage by its quote).
THEOREM CeilingsAreOverrunByLittle == Spec => []OverrunIsBounded
PROOF
  <1>1. OverrunInv /\ LedgerIsMetered => OverrunIsBounded
    BY DEF OverrunInv, CeilingsHold, Within, OverrunIsBounded, LedgerIsMetered
  <1>2. Init => LedgerIsMetered
    BY DEF Init, LedgerIsMetered, NoRecords
  <1>3. OverrunInv => TypeOK
    BY DEF OverrunInv
  <1> QED
    BY <1>1, <1>2, <1>3, InitOverrun, NextOverrun, NextMetered, PTL DEF Spec

=============================================================================
