----------------------------- MODULE RpcBudget -----------------------------
(***************************************************************************)
(* The RPC gate of one owner: scripts/lib/grant-m2-rpc-budget.mjs with its *)
(* journal, grant-m2-rpc-budget-journal.mjs, opened and closed the way     *)
(* scripts/run-grant-m2-observation-worker.mjs does.                       *)
(*                                                                         *)
(* A call is charged, and its charge fsynced, BEFORE it is made; its row   *)
(* occupies the window until one second after its completion was recorded. *)
(* Reservations and completions are chained on one tail.  The reader of a  *)
(* call may stop waiting for it (capture() in observation-worker.ts), and  *)
(* the process may die at any point; its lock directory then stays.        *)
(*                                                                         *)
(* A call costs 20 compute units and is counted as one.  The clock         *)
(* advances with real time, except that any reading of it may be invalid.  *)
(***************************************************************************)
EXTENDS Naturals, Sequences, FiniteSets

CONSTANTS
  Callers,      \* RPC calls that can be under way at once
  TotalCalls,   \* total_limit / 20
  Burst,        \* 3: at most 60 units in the window
  Window,       \* 1000 ms, in ticks
  FaultBudget   \* bound: how often each kind of fault happens

\* The process dies, something poisons the budget (a write that fails, a clock
\* that runs backwards), an operator removes a lock.
FaultKinds == {"crash", "poison", "unlock"}

ASSUME BudgetAssumption ==
  /\ TotalCalls \in Nat /\ Burst \in Nat \ {0} /\ Window \in Nat \ {0}
  /\ FaultBudget \in [FaultKinds -> Nat]

Ids == 1..TotalCalls   \* the id of a reservation is what was spent with it

\* state: what was spent, the rows of the window, and those not completed.
State == [spent : 0..TotalCalls, recent : SUBSET Ids, pending : SUBSET Ids]
FreshState == [spent |-> 0, recent |-> {}, pending |-> {}]

\* A caller is queued for its reservation, has it written, waits for the RPC,
\* is queued for its completion, has that written, or sleeps before a retry.
Steps == {"idle", "reserving", "reserved", "calling", "completing", "settling",
          "sleeping"}

\* The process: not there, at its assignment, past it with a budget in order,
\* with its journal closed and the lock still held.
Phases == {"stopped", "working", "finishing", "closing"}

VARIABLES
  locked,       \* <owner>.lock exists
  journal,      \* the state of the journal's last complete record
  torn,         \* the journal ends in a partial record
  phase,        \* the process
  state,        \* state: the budget in memory
  poisoned,     \* the budget requires reconciliation
  tail,         \* the callers of the operations chained on tail, oldest first
  step,         \* where each caller is
  reservation,  \* the id each caller has reserved
  awaited,      \* callers whose reader still waits
  rest,         \* for each id, ticks until one second after its completion
  started,      \* ids whose call was made
  age,          \* for each started id, ticks since then, up to Window
  inherited,    \* reservations the process found pending when it started
  faults        \* faults that may still happen

diskVars == <<locked, journal, torn>>
callerVars == <<tail, step, reservation, awaited>>
timeVars == <<rest, age>>
vars == <<diskVars, phase, state, poisoned, callerVars, timeVars, started,
          inherited, faults>>

Spend(kind) ==
  /\ faults[kind] > 0
  /\ faults' = [faults EXCEPT ![kind] = @ - 1]

Forget ==
  /\ state' = FreshState
  /\ poisoned' = FALSE
  /\ tail' = <<>>
  /\ step' = [c \in Callers |-> "idle"]
  /\ reservation' = [c \in Callers |-> 0]
  /\ awaited' = {}
  /\ inherited' = {}

Init ==
  /\ locked = FALSE /\ torn = FALSE /\ journal = FreshState
  /\ phase = "stopped"
  /\ state = FreshState /\ poisoned = FALSE
  /\ tail = <<>>
  /\ step = [c \in Callers |-> "idle"]
  /\ reservation = [c \in Callers |-> 0]
  /\ awaited = {}
  /\ rest = [i \in Ids |-> 0]
  /\ started = {}
  /\ age = [i \in Ids |-> 0]
  /\ inherited = {}
  /\ faults = FaultBudget

-----------------------------------------------------------------------------
(***************************************************************************)
(* The process and its journal.                                            *)
(***************************************************************************)

\* What createRpcBudget() requires of the state it restores.
Restorable(s) ==
  /\ s.spent <= TotalCalls
  /\ s.recent \subseteq 1..s.spent
  /\ Cardinality(s.recent) <= Burst

\* The lock is taken, the journal read, the budget restored from its last record.
Open ==
  /\ phase = "stopped" /\ ~locked /\ ~torn /\ Restorable(journal)
  /\ locked' = TRUE
  /\ phase' = "working"
  /\ state' = journal
  /\ inherited' = journal.pending
  /\ UNCHANGED <<journal, torn, poisoned, callerVars, timeVars, started, faults>>

\* The journal is refused after its lock was taken, and the lock stays.
OpenRefused ==
  /\ phase = "stopped" /\ ~locked /\ (torn \/ ~Restorable(journal))
  /\ locked' = TRUE
  /\ UNCHANGED <<journal, torn, phase, state, poisoned, callerVars, timeVars,
                 started, inherited, faults>>

\* No reader waits any more and the budget is in order: the worker writes its
\* result, or has caught an error, and will close the journal.
Conclude ==
  /\ phase = "working" /\ awaited = {} /\ ~poisoned
  /\ phase' = "finishing"
  /\ UNCHANGED <<diskVars, state, poisoned, callerVars, timeVars, started,
                 inherited, faults>>

\* close(): from here on persist() throws.
Close ==
  /\ phase = "finishing"
  /\ phase' = "closing"
  /\ UNCHANGED <<diskVars, state, poisoned, callerVars, timeVars, started,
                 inherited, faults>>

Writing(c) == tail # <<>> /\ Head(tail) = c /\ step[c] \in {"reserved", "settling"}

\* Closing the handle waits for the write under way; then the lock goes.
Release ==
  /\ phase = "closing" /\ \A c \in Callers : ~Writing(c)
  /\ locked' = FALSE
  /\ phase' = "stopped"
  /\ Forget
  /\ UNCHANGED <<journal, torn, timeVars, started, faults>>

\* abandon(), after the check or an error: the lock is kept as a visible
\* reconciliation requirement.
AbandonJournal ==
  /\ phase \in {"working", "finishing"} /\ awaited = {} /\ poisoned
  /\ phase' = "stopped"
  /\ Forget
  /\ UNCHANGED <<diskVars, timeVars, started, faults>>

\* What a write that does not return has left in the journal.
Landings == {"nothing", "partial", "whole"}

Lands(landing) ==
  /\ journal' = IF landing = "whole" THEN state ELSE journal
  /\ torn' = (landing = "partial")

Crash(landing) ==
  /\ phase # "stopped"
  /\ \/ \E c \in Callers : Writing(c) /\ Lands(landing)
     \/ landing = "nothing" /\ UNCHANGED <<journal, torn>>
  /\ phase' = "stopped"
  /\ Forget
  /\ Spend("crash")
  /\ UNCHANGED <<locked, timeVars, started>>

\* An operator removes the lock of a process that is gone.
OperatorUnlocks ==
  /\ phase = "stopped" /\ locked
  /\ locked' = FALSE
  /\ Spend("unlock")
  /\ UNCHANGED <<journal, torn, phase, state, poisoned, callerVars, timeVars,
                 started, inherited>>

-----------------------------------------------------------------------------
(***************************************************************************)
(* The gate.                                                               *)
(***************************************************************************)
processVars == <<locked, phase, inherited>>

Enqueue(c, next) ==
  /\ step' = [step EXCEPT ![c] = next]
  /\ tail' = Append(tail, c)

\* callWhenAvailable(): a reader's call, or its retry after the wait.
StartCall(c) ==
  /\ phase = "working" /\ step[c] = "idle"
  /\ Enqueue(c, "reserving")
  /\ awaited' = awaited \cup {c}
  /\ UNCHANGED <<processVars, journal, torn, state, poisoned, reservation, timeVars,
                 started, faults>>

Retry(c) ==
  /\ step[c] = "sleeping"
  /\ Enqueue(c, "reserving")
  /\ UNCHANGED <<processVars, journal, torn, state, poisoned, reservation, awaited,
                 timeVars, started, faults>>

\* The operation at the head of the chain.
Turn(c, at) == tail # <<>> /\ Head(tail) = c /\ step[c] = at

\* The head leaves the chain; its call is over, with a value or an error.
Settle(c) ==
  /\ tail' = Tail(tail)
  /\ step' = [step EXCEPT ![c] = "idle"]
  /\ reservation' = [reservation EXCEPT ![c] = 0]
  /\ awaited' = awaited \ {c}

\* A poisoned budget refuses reservations and completions alike.
Refuse(c) ==
  /\ Turn(c, "reserving") \/ Turn(c, "completing")
  /\ poisoned
  /\ Settle(c)
  /\ UNCHANGED <<processVars, journal, torn, state, poisoned, timeVars, started,
                 faults>>

\* The clock is read before last_ms, or is no safe integer.
ReadInvalidClock(c) ==
  /\ Turn(c, "reserving") \/ Turn(c, "completing")
  /\ ~poisoned
  /\ poisoned' = TRUE
  /\ Settle(c)
  /\ Spend("poison")
  /\ UNCHANGED <<processVars, journal, torn, state, timeVars, started>>

\* Faulty variant: a reservation frees its row a second after it was made,
\* while its call may not even have begun.
KeptSinceReserved == {i \in state.recent : rest[i] > 0}

\* Rows that still occupy the window.
Kept == {i \in state.recent : i \in state.pending \/ rest[i] > 0}

\* Faulty variant: one row too many.
RateLimitedLate == Cardinality(Kept) > Burst

RateLimited == Cardinality(Kept) >= Burst

\* TOTAL_QUOTA: the call is blocked for good.
DenyQuota(c) ==
  /\ Turn(c, "reserving") /\ ~poisoned
  /\ state.spent >= TotalCalls
  /\ state' = [state EXCEPT !.recent = Kept]
  /\ Settle(c)
  /\ UNCHANGED <<processVars, journal, torn, poisoned, timeVars, started, faults>>

\* RATE_LIMIT: the caller sleeps and retries, unless its reader has gone.
Delay(c) ==
  /\ Turn(c, "reserving") /\ ~poisoned
  /\ state.spent < TotalCalls /\ RateLimited
  /\ state' = [state EXCEPT !.recent = Kept]
  /\ tail' = Tail(tail)
  /\ step' = [step EXCEPT ![c] = IF c \in awaited THEN "sleeping" ELSE "idle"]
  /\ UNCHANGED <<processVars, journal, torn, poisoned, reservation, awaited, timeVars,
                 started, faults>>

\* A reservation may be made.
Available == state.spent < TotalCalls /\ ~RateLimited

\* A row is charged in memory and its state handed to the journal.
Charge(c) ==
  LET id == state.spent + 1 IN
  /\ state' = [spent   |-> id,
               recent  |-> Kept \cup {id},
               pending |-> state.pending \cup {id}]
  /\ rest' = [rest EXCEPT ![id] = Window]
  /\ reservation' = [reservation EXCEPT ![c] = id]
  /\ step' = [step EXCEPT ![c] = "reserved"]
  /\ UNCHANGED <<processVars, journal, torn, poisoned, tail, awaited, age, started,
                 faults>>

\* Faulty variant: the quota is not checked.
ReserveBeyondQuota(c) ==
  Turn(c, "reserving") /\ ~poisoned /\ ~RateLimited /\ phase # "closing" /\ Charge(c)

\* Faulty variant: a poisoned budget goes on.
ReserveWhilePoisoned(c) ==
  Turn(c, "reserving") /\ Available /\ phase # "closing" /\ Charge(c)

Reserve(c) ==
  Turn(c, "reserving") /\ ~poisoned /\ Available /\ phase # "closing" /\ Charge(c)

\* The RPC returned or failed, or its reader aborted it: its row is to be
\* completed.
EndCall(c) ==
  /\ step[c] = "calling"
  /\ Enqueue(c, "completing")
  /\ UNCHANGED <<processVars, journal, torn, state, poisoned, reservation, awaited,
                 timeVars, started, faults>>

\* Faulty variant: whatever is pending is taken as completed.
CompleteAll(c) ==
  /\ Turn(c, "completing") /\ ~poisoned /\ phase # "closing"
  /\ state' = [state EXCEPT !.pending = {}]
  /\ rest' = [i \in Ids |-> IF i \in state.pending THEN Window ELSE rest[i]]
  /\ step' = [step EXCEPT ![c] = "settling"]
  /\ UNCHANGED <<processVars, journal, torn, poisoned, tail, reservation, awaited,
                 age, started, faults>>

\* Faulty variant: the completed row stays pending.
CompleteKeepsPending(c) ==
  /\ Turn(c, "completing") /\ ~poisoned /\ phase # "closing"
  /\ rest' = [rest EXCEPT ![reservation[c]] = Window]
  /\ step' = [step EXCEPT ![c] = "settling"]
  /\ UNCHANGED <<processVars, journal, torn, state, poisoned, tail, reservation,
                 awaited, age, started, faults>>

\* The row is completed now, and rests for one second more.
Complete(c) ==
  /\ Turn(c, "completing") /\ ~poisoned /\ phase # "closing"
  /\ state' = [state EXCEPT !.pending = @ \ {reservation[c]}]
  /\ rest' = [rest EXCEPT ![reservation[c]] = Window]
  /\ step' = [step EXCEPT ![c] = "settling"]
  /\ UNCHANGED <<processVars, journal, torn, poisoned, tail, reservation, awaited,
                 age, started, faults>>

\* persist() of a closed journal throws at once.  What a poisoned budget holds
\* in memory is never read again.
FindClosed(c) ==
  /\ phase = "closing" /\ ~poisoned
  /\ Turn(c, "completing") \/ (Turn(c, "reserving") /\ Available)
  /\ poisoned' = TRUE
  /\ Settle(c)
  /\ UNCHANGED <<processVars, journal, torn, state, timeVars, started, faults>>

\* The call of a reservation is made, and leaves the chain to others.
MakeCall(c) ==
  /\ started' = started \cup {reservation[c]}
  /\ age' = [age EXCEPT ![reservation[c]] = 0]
  /\ step' = [step EXCEPT ![c] = "calling"]
  /\ tail' = Tail(tail)
  /\ UNCHANGED <<reservation, awaited>>

\* Faulty variant: the call is made without waiting for its charge to be
\* written.
PersistReservationLate(c) ==
  /\ Turn(c, "reserved")
  /\ MakeCall(c)
  /\ UNCHANGED <<processVars, journal, torn, state, poisoned, rest, faults>>

\* The charge is durable: the call is made.
PersistReservation(c) ==
  /\ Turn(c, "reserved")
  /\ journal' = state
  /\ MakeCall(c)
  /\ UNCHANGED <<processVars, torn, state, poisoned, rest, faults>>

\* The completion is durable: the call is over.
PersistCompletion(c) ==
  /\ Turn(c, "settling")
  /\ journal' = state
  /\ Settle(c)
  /\ UNCHANGED <<processVars, torn, state, poisoned, timeVars, started, faults>>

\* The write or its fsync fails: no call is made, a completed call throws, and
\* the budget is poisoned.
FailPersist(c, landing) ==
  /\ Writing(c)
  /\ Lands(landing)
  /\ poisoned' = TRUE
  /\ Settle(c)
  /\ Spend("poison")
  /\ UNCHANGED <<processVars, state, timeVars, started>>

\* The handle is closed between the append and the fsync of a record.
CloseInterrupts(c) ==
  /\ phase = "closing" /\ Writing(c)
  /\ journal' = state
  /\ poisoned' = TRUE
  /\ Settle(c)
  /\ UNCHANGED <<processVars, torn, state, timeVars, started, faults>>

\* capture(): the reader's time is over.  A sleeper wakes and throws; what is
\* queued, being written or on the network goes on without its reader.
TimesOut(c) ==
  /\ c \in awaited
  /\ awaited' = awaited \ {c}
  /\ step' = IF step[c] = "sleeping" THEN [step EXCEPT ![c] = "idle"] ELSE step
  /\ UNCHANGED <<processVars, journal, torn, state, poisoned, tail, reservation,
                 timeVars, started, faults>>

Tick ==
  /\ rest' = [i \in Ids |-> IF rest[i] > 0 THEN rest[i] - 1 ELSE 0]
  /\ age' = [i \in Ids |-> IF i \in started /\ age[i] < Window THEN age[i] + 1
                                                            ELSE age[i]]
  /\ UNCHANGED <<diskVars, phase, state, poisoned, callerVars, started, inherited,
                 faults>>

-----------------------------------------------------------------------------
Operation(c) ==
  \/ Refuse(c) \/ DenyQuota(c) \/ Delay(c) \/ FindClosed(c)
  \/ Reserve(c) \/ PersistReservation(c)
  \/ Complete(c) \/ PersistCompletion(c)

Process == Open \/ OpenRefused \/ Conclude \/ Close \/ Release \/ AbandonJournal

Fault(c) ==
  \/ ReadInvalidClock(c)
  \/ CloseInterrupts(c)
  \/ \E landing \in Landings : FailPersist(c, landing)

Next ==
  \/ Process
  \/ OperatorUnlocks
  \/ \E landing \in Landings : Crash(landing)
  \/ \E c \in Callers :
        \/ StartCall(c) \/ Retry(c) \/ EndCall(c) \/ TimesOut(c)
        \/ Operation(c) \/ Fault(c)
  \/ Tick

Spec == Init /\ [][Next]_vars

\* The event loop runs, time passes, and an RPC ends some time.  Nothing is
\* assumed of readers, restarts or faults.
Fairness ==
  /\ WF_vars(Tick)
  /\ \A c \in Callers : WF_vars(Operation(c)) /\ WF_vars(Retry(c)) /\ WF_vars(EndCall(c))

FairSpec == Spec /\ Fairness

-----------------------------------------------------------------------------
(***************************************************************************)
(* Properties.                                                             *)
(***************************************************************************)

\* Type correctness.
TypeOK ==
  /\ locked \in BOOLEAN /\ torn \in BOOLEAN /\ poisoned \in BOOLEAN
  /\ journal \in State /\ state \in State
  /\ phase \in Phases
  /\ tail \in Seq(Callers)
  /\ step \in [Callers -> Steps]
  /\ reservation \in [Callers -> 0..TotalCalls]
  /\ awaited \in SUBSET Callers
  /\ rest \in [Ids -> 0..Window]
  /\ started \in SUBSET Ids
  /\ age \in [Ids -> 0..Window]
  /\ inherited \in SUBSET Ids
  /\ faults \in [FaultKinds -> Nat]

\* Every call ever made is charged in the journal, so no crash, failed write or
\* restart makes the owner forget one, and no reservation pays for two calls.
ChargedBeforeCalled == started \subseteq 1..journal.spent

\* A call on the network is pending in the journal: a process that dies during
\* the call leaves its row occupied.
InFlightIsPending ==
  \A c \in Callers :
     step[c] \in {"calling", "completing"} => reservation[c] \in journal.pending

\* The gate's promise: at most Burst calls are started in any Window, however
\* slow the writes and the RPCs are and however often the process restarts.
RateBound == Cardinality({i \in started : age[i] < Window}) <= Burst

\* The journal of a run can always be restored: no legal history makes the
\* budget refuse its own state.
JournalRestores == Restorable(journal)

\* What a crash leaves in the journal is enough: it restores, every call made
\* is charged in it, and every call on the network is pending in it.
JournalCoversCalls == ChargedBeforeCalled /\ InFlightIsPending /\ JournalRestores

\* No call is made by a poisoned budget.
PoisonStopsCalls == [][poisoned => started' = started]_vars

\* Whoever waits for the gate gets through or is refused for good, unless the
\* process ends or as many reservations as the window holds were restored
\* pending.
WaitsEnd ==
  \A c \in Callers :
     step[c] # "idle" ~>
       (step[c] = "idle" \/ phase = "stopped" \/ Cardinality(inherited) >= Burst)

\* docs/grant-m2-dispatch-integration.md:41 says that in-flight reservations
\* require reconciliation: the lock, which is its sign, is gone only if none
\* would be restored.
InFlightNeedsReconciliation == ~locked => journal.pending = {} /\ ~torn
=============================================================================
