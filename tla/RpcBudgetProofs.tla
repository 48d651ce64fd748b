-------------------------- MODULE RpcBudgetProofs --------------------------
(***************************************************************************)
(* Proofs about RpcBudget, for any callers, quota, burst, window and       *)
(* faults.                                                                 *)
(***************************************************************************)
EXTENDS RpcBudget, FiniteSetTheorems, SequenceTheorems, TLAPS

\* Steps at which a caller has a row that is not completed.
Held == {"reserved", "calling", "completing"}

\* A state restores, and its pending rows are rows of the window.
Sound(s) ==
  /\ s.recent \subseteq 1..s.spent
  /\ s.pending \subseteq s.recent
  /\ Cardinality(s.recent) <= Burst

\* A state has charged every call made, and still has the row of each that was
\* made within the window; a completed row rests as long as its call is young.
Covers(s) ==
  \A i \in started :
     /\ i \in 1..s.spent
     /\ age[i] < Window =>
          /\ i \in s.recent
          /\ i \in s.pending \/ rest[i] + age[i] >= Window

\* Every caller holds a row of its own, and the journal has the row of a call
\* on the network.
Owns ==
  \A c \in Callers :
     /\ step[c] \in Held => reservation[c] \in state.pending
     /\ step[c] \in {"calling", "completing"} => reservation[c] \in journal.pending
     /\ \A d \in Callers :
          c # d /\ step[c] \in Held /\ step[d] \in Held
            => reservation[c] # reservation[d]

\* No caller is anywhere in a process that is not there.
DownIsIdle == phase = "stopped" => \A c \in Callers : step[c] = "idle"

BudgetInv ==
  /\ TypeOK
  /\ Sound(journal) /\ Covers(journal)
  /\ phase # "stopped" => Sound(state) /\ Covers(state)
  /\ Owns
  /\ DownIsIdle

-----------------------------------------------------------------------------
\* A set of ids is finite, and so are its subsets.
LEMMA IdsFinite ==
  ASSUME NEW S \in SUBSET Ids
  PROVE  IsFiniteSet(S) /\ Cardinality(S) \in Nat
  <1>1. IsFiniteSet(1..TotalCalls)
    BY FS_Interval, BudgetAssumption
  <1>2. IsFiniteSet(S)
    BY <1>1, FS_Subset DEF Ids
  <1> QED
    BY <1>2, FS_CardinalityType

\* A subset of a set of ids has no more elements.
LEMMA IdsSubset ==
  ASSUME NEW S \in SUBSET Ids, NEW T \in SUBSET S
  PROVE  Cardinality(T) <= Cardinality(S)
  BY IdsFinite, FS_Subset

-----------------------------------------------------------------------------
(***************************************************************************)
(* Type correctness.                                                       *)
(***************************************************************************)
LEMMA TailKeepsType ==
  ASSUME TypeOK, NEW c \in Callers, tail # <<>>
  PROVE  Tail(tail) \in Seq(Callers)
  BY DEF TypeOK

LEMMA SettleKeepsType ==
  ASSUME TypeOK, NEW c \in Callers, tail # <<>>, Settle(c)
  PROVE  /\ tail' \in Seq(Callers)
         /\ step' \in [Callers -> Steps]
         /\ reservation' \in [Callers -> 0..TotalCalls]
         /\ awaited' \in SUBSET Callers
  <1>1. 0 \in 0..TotalCalls
    BY BudgetAssumption
  <1>2. "idle" \in Steps
    BY DEF Steps
  <1> QED
    BY <1>1, <1>2 DEF Settle, TypeOK

LEMMA ForgetKeepsType ==
  ASSUME TypeOK, Forget
  PROVE  /\ state' \in State
         /\ poisoned' \in BOOLEAN
         /\ tail' \in Seq(Callers)
         /\ step' \in [Callers -> Steps]
         /\ reservation' \in [Callers -> 0..TotalCalls]
         /\ awaited' \in SUBSET Callers
         /\ inherited' \in SUBSET Ids
  <1>1. 0 \in 0..TotalCalls /\ "idle" \in Steps
    BY BudgetAssumption DEF Steps
  <1>2. <<>> \in Seq(Callers)
    OBVIOUS
  <1> QED
    BY <1>1, <1>2 DEF Forget, FreshState, State, Ids

LEMMA SpendKeepsType ==
  ASSUME TypeOK, NEW kind \in FaultKinds, Spend(kind)
  PROVE  faults' \in [FaultKinds -> Nat]
  BY DEF TypeOK, Spend

LEMMA LandsKeepsType ==
  ASSUME TypeOK, NEW landing \in Landings, Lands(landing)
  PROVE  journal' \in State /\ torn' \in BOOLEAN
  BY DEF TypeOK, Lands

LEMMA KeptIsRecent ==
  ASSUME TypeOK
  PROVE  Kept \subseteq state.recent /\ Kept \subseteq Ids
  BY DEF TypeOK, State, Kept

\* A gate operation keeps the types.
LEMMA OperationKeepsType ==
  ASSUME TypeOK, Owns, NEW c \in Callers, Operation(c)
  PROVE  TypeOK'
  <1> USE DEF processVars, timeVars
  <1>1. CASE Refuse(c)
    BY <1>1, SettleKeepsType DEF Refuse, Turn, TypeOK
  <1>2. CASE DenyQuota(c)
    BY <1>2, SettleKeepsType, KeptIsRecent DEF DenyQuota, Turn, TypeOK, State
  <1>3. CASE Delay(c)
    <2>1. tail' \in Seq(Callers)
      BY <1>3, TailKeepsType DEF Delay, Turn
    <2>2. step' \in [Callers -> Steps]
      BY <1>3 DEF Delay, TypeOK, Steps
    <2>3. state' \in State
      BY <1>3, KeptIsRecent DEF Delay, TypeOK, State
    <2> QED
      BY <1>3, <2>1, <2>2, <2>3 DEF Delay, TypeOK
  <1>4. CASE FindClosed(c)
    BY <1>4, SettleKeepsType DEF FindClosed, Turn, TypeOK
  <1>5. CASE Reserve(c)
    <2>1. state.spent + 1 \in Ids
      BY <1>5, BudgetAssumption DEF Reserve, Charge, Available, TypeOK, State, Ids
    <2>2. state' \in State
      <3>1. state.spent + 1 \in 0..TotalCalls
        BY <2>1, BudgetAssumption DEF Ids
      <3>2. state.pending \cup {state.spent + 1} \in SUBSET Ids
        BY <2>1 DEF TypeOK, State
      <3>3. Kept \cup {state.spent + 1} \in SUBSET Ids
        BY <2>1, KeptIsRecent
      <3> QED
        BY <1>5, <3>1, <3>2, <3>3 DEF Reserve, Charge, State
    <2>3. reservation' \in [Callers -> 0..TotalCalls]
      BY <1>5, <2>1 DEF Reserve, Charge, TypeOK, Ids
    <2>4. rest' \in [Ids -> 0..Window]
      <3>1. Window \in 0..Window
        BY BudgetAssumption
      <3> QED
        BY <1>5, <3>1 DEF Reserve, Charge, TypeOK
    <2>5. step' \in [Callers -> Steps]
      BY <1>5 DEF Reserve, Charge, TypeOK, Steps
    <2> QED
      BY <1>5, <2>2, <2>3, <2>4, <2>5 DEF Reserve, Charge, TypeOK
  <1>6. CASE PersistReservation(c)
    <2>1. tail' \in Seq(Callers)
      BY <1>6, TailKeepsType DEF PersistReservation, MakeCall, Turn
    <2>2. step' \in [Callers -> Steps]
      BY <1>6 DEF PersistReservation, MakeCall, TypeOK, Steps
    <2>3. age' \in [Ids -> 0..Window]
      <3>1. 0 \in 0..Window
        BY BudgetAssumption
      <3> QED
        BY <1>6, <3>1 DEF PersistReservation, MakeCall, TypeOK
    <2>4. reservation[c] \in Ids
      BY <1>6 DEF PersistReservation, Turn, Held, Owns, TypeOK, State
    <2>5. started' \in SUBSET Ids
      BY <1>6, <2>4 DEF PersistReservation, MakeCall, TypeOK
    <2> QED
      BY <1>6, <2>1, <2>2, <2>3, <2>5 DEF PersistReservation, MakeCall, TypeOK
  <1>7. CASE Complete(c)
    <2>1. state' \in State
      BY <1>7 DEF Complete, TypeOK, State
    <2>2. rest' \in [Ids -> 0..Window]
      <3>1. Window \in 0..Window
        BY BudgetAssumption
      <3> QED
        BY <1>7, <3>1 DEF Complete, TypeOK
    <2>3. step' \in [Callers -> Steps]
      BY <1>7 DEF Complete, TypeOK, Steps
    <2> QED
      BY <1>7, <2>1, <2>2, <2>3 DEF Complete, TypeOK
  <1>8. CASE PersistCompletion(c)
    BY <1>8, SettleKeepsType DEF PersistCompletion, Turn, TypeOK
  <1> QED
    BY <1>1, <1>2, <1>3, <1>4, <1>5, <1>6, <1>7, <1>8 DEF Operation

\* A step of a caller outside the chain keeps the types.
LEMMA CallerKeepsType ==
  ASSUME TypeOK, NEW c \in Callers,
         StartCall(c) \/ Retry(c) \/ EndCall(c) \/ TimesOut(c)
  PROVE  TypeOK'
  <1> USE DEF processVars, timeVars
  <1>1. ASSUME NEW next \in Steps, Enqueue(c, next)
        PROVE  step' \in [Callers -> Steps] /\ tail' \in Seq(Callers)
    BY <1>1 DEF Enqueue, TypeOK
  <1>2. {"reserving", "completing", "idle"} \subseteq Steps
    BY DEF Steps
  <1>3. CASE StartCall(c)
    BY <1>3, <1>1, <1>2 DEF StartCall, TypeOK
  <1>4. CASE Retry(c)
    BY <1>4, <1>1, <1>2 DEF Retry, TypeOK
  <1>5. CASE EndCall(c)
    BY <1>5, <1>1, <1>2 DEF EndCall, TypeOK
  <1>6. CASE TimesOut(c)
    BY <1>6, <1>2 DEF TimesOut, TypeOK
  <1> QED
    BY <1>3, <1>4, <1>5, <1>6

\* A fault keeps the types.
LEMMA FaultKeepsType ==
  ASSUME TypeOK, NEW c \in Callers, Fault(c)
  PROVE  TypeOK'
  <1> USE DEF processVars, timeVars
  <1>1. CASE ReadInvalidClock(c)
    <2>1. faults' \in [FaultKinds -> Nat]
      BY <1>1, SpendKeepsType DEF ReadInvalidClock, FaultKinds
    <2> QED
      BY <1>1, <2>1, SettleKeepsType DEF ReadInvalidClock, Turn, TypeOK
  <1>2. CASE CloseInterrupts(c)
    BY <1>2, SettleKeepsType DEF CloseInterrupts, Writing, TypeOK
  <1>3. ASSUME NEW landing \in Landings, FailPersist(c, landing)
        PROVE  TypeOK'
    <2>1. faults' \in [FaultKinds -> Nat]
      BY <1>3, SpendKeepsType DEF FailPersist, FaultKinds
    <2>2. journal' \in State /\ torn' \in BOOLEAN
      BY <1>3, LandsKeepsType DEF FailPersist
    <2> QED
      BY <1>3, <2>1, <2>2, SettleKeepsType DEF FailPersist, Writing, TypeOK
  <1> QED
    BY <1>1, <1>2, <1>3 DEF Fault

\* A step of the process keeps the types.
LEMMA ProcessKeepsType ==
  ASSUME TypeOK, Process
  PROVE  TypeOK'
  <1> USE DEF diskVars, callerVars, timeVars
  <1>1. CASE Open
    BY <1>1 DEF Open, TypeOK, Phases, State
  <1>2. CASE OpenRefused
    BY <1>2 DEF OpenRefused, TypeOK
  <1>3. CASE Conclude
    BY <1>3 DEF Conclude, TypeOK, Phases
  <1>4. CASE Close
    BY <1>4 DEF Close, TypeOK, Phases
  <1>5. CASE Release
    BY <1>5, ForgetKeepsType DEF Release, TypeOK, Phases
  <1>6. CASE AbandonJournal
    BY <1>6, ForgetKeepsType DEF AbandonJournal, TypeOK, Phases
  <1> QED
    BY <1>1, <1>2, <1>3, <1>4, <1>5, <1>6 DEF Process

LEMMA CrashKeepsType ==
  ASSUME TypeOK, NEW landing \in Landings, Crash(landing)
  PROVE  TypeOK'
  <1> USE DEF timeVars
  <1>1. faults' \in [FaultKinds -> Nat]
    BY SpendKeepsType DEF Crash, FaultKinds
  <1>2. journal' \in State /\ torn' \in BOOLEAN
    BY LandsKeepsType DEF Crash, TypeOK
  <1> QED
    BY <1>1, <1>2, ForgetKeepsType DEF Crash, TypeOK, Phases

LEMMA TickKeepsType ==
  ASSUME TypeOK, Tick
  PROVE  TypeOK'
  <1> USE DEF diskVars, callerVars
  <1>1. Window \in Nat
    BY BudgetAssumption
  <1>2. rest' \in [Ids -> 0..Window]
    BY <1>1 DEF Tick, TypeOK
  <1>3. age' \in [Ids -> 0..Window]
    BY <1>1 DEF Tick, TypeOK
  <1> QED
    BY <1>2, <1>3 DEF Tick, TypeOK

LEMMA UnlockKeepsType ==
  ASSUME TypeOK, OperatorUnlocks
  PROVE  TypeOK'
  <1>1. faults' \in [FaultKinds -> Nat]
    BY SpendKeepsType DEF OperatorUnlocks, FaultKinds
  <1> QED
    BY <1>1 DEF OperatorUnlocks, TypeOK, callerVars, timeVars

-----------------------------------------------------------------------------
(***************************************************************************)
(* The invariant.  Most steps leave the budget, its journal and the calls  *)
(* made alone.                                                             *)
(***************************************************************************)
Untouched == UNCHANGED <<journal, state, rest, age, started>>

\* Steps that change no budget, and by which no caller comes to hold a row or
\* makes a call.
LEMMA QuietKeeps ==
  ASSUME BudgetInv, Untouched,
         phase' # "stopped" => phase # "stopped",
         \A c \in Callers :
            /\ step'[c] \in Held => step[c] \in Held /\ reservation'[c] = reservation[c]
            /\ step'[c] \in {"calling", "completing"} =>
                  step[c] \in {"calling", "completing"}
  PROVE  /\ Sound(journal)' /\ Covers(journal)'
         /\ phase' # "stopped" => Sound(state)' /\ Covers(state)'
         /\ Owns'
  <1>1. Sound(journal)' /\ Covers(journal)'
    BY DEF BudgetInv, Untouched, Sound, Covers
  <1>2. ASSUME phase' # "stopped"
        PROVE  Sound(state)' /\ Covers(state)'
    BY <1>2 DEF BudgetInv, Untouched, Sound, Covers
  <1>3. journal'.pending = journal.pending /\ state'.pending = state.pending
    BY DEF Untouched
  <1>4. Owns
    BY DEF BudgetInv
  <1>5. ASSUME NEW c \in Callers
        PROVE  /\ step'[c] \in Held => reservation'[c] \in state'.pending
               /\ step'[c] \in {"calling", "completing"} =>
                    reservation'[c] \in journal'.pending
    BY <1>3, <1>4 DEF Owns, Held
  <1>6. ASSUME NEW c \in Callers, NEW d \in Callers,
               c # d, step'[c] \in Held, step'[d] \in Held
        PROVE  reservation'[c] # reservation'[d]
    BY <1>4, <1>6 DEF Owns
  <1>7. Owns'
    BY <1>5, <1>6 DEF Owns
  <1> QED
    BY <1>1, <1>2, <1>7

\* The caller that settles holds nothing more, and the others what they held.
LEMMA SettleReleases ==
  ASSUME TypeOK, NEW c \in Callers, Settle(c)
  PROVE  /\ step'[c] = "idle"
         /\ \A d \in Callers : d # c => /\ step'[d] = step[d]
                                        /\ reservation'[d] = reservation[d]
  BY DEF TypeOK, Settle

\* The journal has caught up with the budget, or has not changed.
LEMMA SettleKeeps ==
  ASSUME BudgetInv, NEW c \in Callers, phase # "stopped", Settle(c),
         phase' = phase, journal' \in {journal, state},
         UNCHANGED <<state, rest, age, started>>
  PROVE  /\ Sound(journal)' /\ Covers(journal)'
         /\ Sound(state)' /\ Covers(state)'
         /\ Owns'
  <1>1. Sound(journal)' /\ Covers(journal)'
    <2>1. CASE journal' = journal
      BY <2>1 DEF BudgetInv, Sound, Covers
    <2>2. CASE journal' = state
      BY <2>2 DEF BudgetInv, Sound, Covers
    <2> QED
      BY <2>1, <2>2
  <1>2. Sound(state)' /\ Covers(state)'
    BY DEF BudgetInv, Sound, Covers
  <1>3. TypeOK /\ Owns
    BY DEF BudgetInv
  <1>4. ASSUME NEW d \in Callers, step'[d] \in Held
        PROVE  d # c /\ step[d] = step'[d] /\ reservation'[d] = reservation[d]
    BY <1>3, <1>4, SettleReleases DEF Held
  <1>5. ASSUME NEW d \in Callers, step'[d] \in {"calling", "completing"}
        PROVE  reservation'[d] \in journal'.pending
    <2>1. step'[d] \in Held
      BY <1>5 DEF Held
    <2>2. reservation[d] \in journal.pending /\ reservation[d] \in state.pending
      BY <1>3, <1>4, <1>5, <2>1 DEF Owns
    <2> QED
      BY <2>1, <2>2, <1>4
  <1>6. Owns'
    BY <1>3, <1>4, <1>5 DEF Owns
  <1> QED
    BY <1>1, <1>2, <1>6

\* A process that ends leaves nobody behind.
LEMMA ForgetKeeps ==
  ASSUME BudgetInv, phase # "stopped", Forget, phase' = "stopped",
         journal' \in {journal, state}, UNCHANGED <<rest, age, started>>
  PROVE  /\ Sound(journal)' /\ Covers(journal)'
         /\ phase' # "stopped" => Sound(state)' /\ Covers(state)'
         /\ Owns' /\ DownIsIdle'
  <1>1. Sound(journal)' /\ Covers(journal)'
    <2>1. CASE journal' = journal
      BY <2>1 DEF BudgetInv, Sound, Covers
    <2>2. CASE journal' = state
      BY <2>2 DEF BudgetInv, Sound, Covers
    <2> QED
      BY <2>1, <2>2
  <1>2. \A c \in Callers : step'[c] = "idle"
    BY DEF Forget
  <1>3. Owns' /\ DownIsIdle'
    BY <1>2 DEF Owns, DownIsIdle, Held
  <1> QED
    BY <1>1, <1>3

\* Rows that are dropped no longer occupy the window.
LEMMA KeptCovers ==
  ASSUME BudgetInv, phase # "stopped"
  PROVE  /\ state.pending \subseteq Kept
         /\ Kept \subseteq 1..state.spent
         /\ IsFiniteSet(Kept)
         /\ Cardinality(Kept) \in Nat
         /\ Cardinality(Kept) <= Burst
         /\ \A i \in started : age[i] < Window => i \in Kept
  <1>1. TypeOK /\ Sound(state) /\ Covers(state)
    BY DEF BudgetInv
  <1>2. Kept \subseteq state.recent /\ state.recent \in SUBSET Ids
    BY <1>1, KeptIsRecent DEF TypeOK, State
  <1>3. Cardinality(Kept) <= Cardinality(state.recent)
    BY <1>2, IdsSubset
  <1>4. Kept \in SUBSET Ids
    BY <1>2
  <1>5. IsFiniteSet(Kept) /\ Cardinality(Kept) \in Nat
    BY <1>4, IdsFinite
  <1>6. Cardinality(state.recent) \in Nat /\ Burst \in Nat
    BY <1>2, IdsFinite, BudgetAssumption
  <1>7. Cardinality(Kept) <= Burst
    BY <1>1, <1>3, <1>5, <1>6 DEF Sound
  <1>8. ASSUME NEW i \in started, age[i] < Window
        PROVE  i \in Kept
    <2>1. i \in state.recent /\ (i \in state.pending \/ rest[i] + age[i] >= Window)
      BY <1>1, <1>8 DEF Covers
    <2>2. i \in Ids /\ age[i] \in 0..Window /\ rest[i] \in 0..Window /\ Window \in Nat
      BY <1>1, BudgetAssumption DEF TypeOK
    <2>3. i \in state.pending \/ rest[i] > 0
      BY <1>8, <2>1, <2>2
    <2> QED
      BY <2>1, <2>3 DEF Kept
  <1>9. state.pending \subseteq Kept /\ Kept \subseteq 1..state.spent
    BY <1>1 DEF Sound, Kept
  <1> QED
    BY <1>5, <1>7, <1>8, <1>9

-----------------------------------------------------------------------------
(***************************************************************************)
(* One lemma for each kind of step.                                        *)
(***************************************************************************)

\* What the steps of the gate have in common: a process, which goes on.
LEMMA GateStepKeeps ==
  ASSUME BudgetInv, phase # "stopped", phase' = phase, TypeOK',
         Sound(journal)', Covers(journal)', Sound(state)', Covers(state)', Owns'
  PROVE  BudgetInv'
  <1>1. DownIsIdle'
    BY DEF DownIsIdle
  <1> QED
    BY <1>1 DEF BudgetInv

\* A call begins, is retried, ends, or loses its reader.
LEMMA CallerKeeps ==
  ASSUME BudgetInv, NEW c \in Callers,
         StartCall(c) \/ Retry(c) \/ EndCall(c) \/ TimesOut(c)
  PROVE  BudgetInv'
  <1> USE DEF processVars, timeVars
  <1>1. TypeOK /\ DownIsIdle
    BY DEF BudgetInv
  <1>2. Untouched /\ phase' = phase /\ reservation' = reservation
    BY DEF Untouched, StartCall, Retry, EndCall, TimesOut
  <1>3. /\ \A d \in Callers : d # c => step'[d] = step[d]
        /\ \/ step'[c] \in {"reserving", "idle"} \/ step'[c] = step[c]
           \/ step[c] = "calling" /\ step'[c] = "completing"
    BY <1>1 DEF StartCall, Retry, EndCall, TimesOut, Enqueue, TypeOK
  <1>4. ASSUME NEW d \in Callers
        PROVE  /\ step'[d] \in Held => step[d] \in Held
               /\ step'[d] \in {"calling", "completing"} =>
                    step[d] \in {"calling", "completing"}
    BY <1>3 DEF Held
  <1>5. DownIsIdle'
    <2>1. CASE TimesOut(c)
      <3>1. ASSUME NEW d \in Callers, step[d] = "idle"
            PROVE  step'[d] = "idle"
        BY <1>1, <2>1, <3>1 DEF TimesOut, TypeOK
      <3> QED
        BY <1>1, <1>2, <3>1 DEF DownIsIdle
    <2>2. CASE StartCall(c) \/ Retry(c) \/ EndCall(c)
      <3>1. phase # "stopped"
        BY <1>1, <2>2 DEF StartCall, Retry, EndCall, DownIsIdle
      <3> QED
        BY <1>2, <3>1 DEF DownIsIdle
    <2> QED
      BY <2>1, <2>2
  <1>6. TypeOK'
    BY <1>1, CallerKeepsType
  <1>7. /\ Sound(journal)' /\ Covers(journal)'
        /\ phase' # "stopped" => Sound(state)' /\ Covers(state)'
        /\ Owns'
    BY <1>2, <1>4, QuietKeeps
  <1> QED
    BY <1>5, <1>6, <1>7 DEF BudgetInv

\* An operation that settles: refused, blocked by an invalid clock or a closed
\* journal, or with its write over, whatever became of it.
LEMMA SettlingKeeps ==
  ASSUME BudgetInv, NEW c \in Callers,
         \/ Refuse(c) \/ FindClosed(c) \/ PersistCompletion(c) \/ Fault(c)
  PROVE  BudgetInv'
  <1> USE DEF processVars, timeVars
  <1>1. TypeOK /\ DownIsIdle /\ Owns
    BY DEF BudgetInv
  <1>2. /\ step[c] \in Steps \ {"idle"}
        /\ Settle(c)
        /\ phase' = phase
        /\ journal' \in {journal, state}
        /\ UNCHANGED <<state, rest, age, started>>
    BY DEF Refuse, FindClosed, PersistCompletion, Fault, ReadInvalidClock,
           CloseInterrupts, FailPersist, Lands, Turn, Writing, Steps
  <1>3. phase # "stopped"
    BY <1>1, <1>2 DEF DownIsIdle
  <1>4. TypeOK'
    BY <1>1, OperationKeepsType, FaultKeepsType DEF Operation
  <1> QED
    BY <1>2, <1>3, <1>4, SettleKeeps, GateStepKeeps

\* A reservation that is denied or delayed drops the rows that have rested.
LEMMA DeniedKeeps ==
  ASSUME BudgetInv, NEW c \in Callers, DenyQuota(c) \/ Delay(c)
  PROVE  BudgetInv'
  <1> USE DEF processVars, timeVars
  <1>1. TypeOK /\ DownIsIdle /\ Owns /\ Sound(journal) /\ Covers(journal)
    BY DEF BudgetInv
  <1>2. /\ phase' = phase /\ phase # "stopped"
        /\ step[c] = "reserving"
        /\ state' = [state EXCEPT !.recent = Kept]
        /\ UNCHANGED <<journal, rest, age, started>>
    BY <1>1 DEF DenyQuota, Delay, Turn, DownIsIdle
  <1>3. Sound(state) /\ Covers(state)
    BY <1>2 DEF BudgetInv
  <1>4. /\ step'[c] \notin Held
        /\ \A d \in Callers : d # c => /\ step'[d] = step[d]
                                       /\ reservation'[d] = reservation[d]
    BY <1>1 DEF DenyQuota, Delay, Settle, TypeOK, Held
  <1>5. Sound(journal)' /\ Covers(journal)'
    BY <1>1, <1>2 DEF Sound, Covers
  <1>6. /\ state'.recent = Kept
        /\ state'.spent = state.spent
        /\ state'.pending = state.pending
    BY <1>1, <1>2 DEF TypeOK, State
  <1>7. Sound(state)'
    BY <1>2, <1>6, KeptCovers DEF Sound
  <1>8. Covers(state)'
    BY <1>2, <1>3, <1>6, KeptCovers DEF Covers
  <1>9. Owns'
    <2>1. ASSUME NEW d \in Callers, step'[d] \in Held
          PROVE  d # c /\ step[d] = step'[d] /\ reservation'[d] = reservation[d]
      BY <1>4, <2>1
    <2>2. {"calling", "completing"} \subseteq Held
      BY DEF Held
    <2> QED
      BY <1>1, <1>2, <1>6, <2>1, <2>2 DEF Owns
  <1>10. TypeOK'
    BY <1>1, OperationKeepsType DEF Operation
  <1> QED
    BY <1>2, <1>5, <1>7, <1>8, <1>9, <1>10, GateStepKeeps

\* A reservation adds a row of its own to fewer than Burst others.
LEMMA ReserveKeeps ==
  ASSUME BudgetInv, NEW c \in Callers, Reserve(c)
  PROVE  BudgetInv'
  <1> USE DEF processVars
  <1> DEFINE id == state.spent + 1
  <1>1. TypeOK /\ DownIsIdle /\ Owns /\ Sound(journal) /\ Covers(journal)
    BY DEF BudgetInv
  <1>2. /\ phase' = phase /\ phase # "stopped"
        /\ step[c] = "reserving" /\ ~RateLimited
        /\ state' = [spent |-> id, recent |-> Kept \cup {id},
                     pending |-> state.pending \cup {id}]
        /\ rest' = [rest EXCEPT ![id] = Window]
        /\ UNCHANGED <<journal, age, started>>
    BY <1>1 DEF Reserve, Charge, Turn, DownIsIdle, Available
  <1>3. Sound(state) /\ Covers(state)
    BY <1>2 DEF BudgetInv
  <1>4. state.spent \in Nat /\ id \in Ids
    BY BudgetAssumption, <1>1 DEF Reserve, Charge, Available, TypeOK, State, Ids
  <1>5. id \notin started /\ id \notin state.pending /\ id \notin Kept
    <2>1. started \subseteq 1..state.spent /\ Kept \subseteq 1..state.spent
      BY <1>2, <1>3, KeptCovers DEF Covers
    <2>2. state.pending \subseteq Kept
      BY <1>2, KeptCovers
    <2> QED
      BY <1>4, <2>1, <2>2
  <1>6. \A i \in started : rest'[i] = rest[i]
    BY <1>1, <1>2, <1>5 DEF TypeOK
  <1>7. Sound(journal)' /\ Covers(journal)'
    BY <1>1, <1>2, <1>6 DEF Sound, Covers
  <1>8. Sound(state)'
    <2>1. Cardinality(Kept \cup {id}) = Cardinality(Kept) + 1
      BY <1>2, <1>5, KeptCovers, FS_AddElement
    <2>2. Cardinality(Kept) + 1 <= Burst
      BY <1>2, KeptCovers, BudgetAssumption DEF RateLimited
    <2>3. Kept \cup {id} \subseteq 1..id
      BY <1>2, <1>4, KeptCovers
    <2>4. state.pending \cup {id} \subseteq Kept \cup {id}
      BY <1>2, KeptCovers
    <2> QED
      BY <1>2, <2>1, <2>2, <2>3, <2>4 DEF Sound
  <1>9. Covers(state)'
    <2>1. ASSUME NEW i \in started
          PROVE  i \in 1..id
      BY <1>3, <1>4 DEF Covers
    <2>2. ASSUME NEW i \in started, age[i] < Window
          PROVE  i \in Kept /\ (i \in state.pending \/ rest'[i] + age[i] >= Window)
      BY <1>2, <1>3, <1>6, <2>2, KeptCovers DEF Covers
    <2> QED
      BY <1>2, <2>1, <2>2 DEF Covers
  <1>10. /\ step'[c] = "reserved" /\ reservation'[c] = id
         /\ \A d \in Callers : d # c => /\ step'[d] = step[d]
                                        /\ reservation'[d] = reservation[d]
    BY <1>1 DEF Reserve, Charge, TypeOK
  <1>11. Owns'
    <2>1. ASSUME NEW d \in Callers, d # c, step'[d] \in Held
          PROVE  step[d] \in Held /\ reservation'[d] \in state.pending
      BY <1>1, <1>10, <2>1 DEF Owns
    <2>2. ASSUME NEW d \in Callers
          PROVE  /\ step'[d] \in Held => reservation'[d] \in state'.pending
                 /\ step'[d] \in {"calling", "completing"} =>
                      reservation'[d] \in journal'.pending
      <3>1. CASE d = c
        BY <1>2, <1>10, <3>1
      <3>2. CASE d # c
        BY <1>1, <1>2, <1>10, <2>1, <3>2 DEF Owns
      <3> QED
        BY <3>1, <3>2
    <2>3. ASSUME NEW d \in Callers, NEW e \in Callers, d # e,
                 step'[d] \in Held, step'[e] \in Held
          PROVE  reservation'[d] # reservation'[e]
      <3>1. CASE d = c
        BY <1>5, <1>10, <2>1, <2>3, <3>1
      <3>2. CASE e = c
        BY <1>5, <1>10, <2>1, <2>3, <3>2
      <3>3. CASE d # c /\ e # c
        BY <1>1, <1>10, <2>3, <3>3 DEF Owns
      <3> QED
        BY <3>1, <3>2, <3>3
    <2> QED
      BY <2>2, <2>3 DEF Owns
  <1>12. TypeOK'
    BY <1>1, OperationKeepsType DEF Operation
  <1> QED
    BY <1>2, <1>7, <1>8, <1>9, <1>11, <1>12, GateStepKeeps

\* A completed row rests for the whole window from now on.
LEMMA CompleteKeeps ==
  ASSUME BudgetInv, NEW c \in Callers, Complete(c)
  PROVE  BudgetInv'
  <1> USE DEF processVars
  <1> DEFINE id == reservation[c]
  <1>1. TypeOK /\ DownIsIdle /\ Owns /\ Sound(journal) /\ Covers(journal)
    BY DEF BudgetInv
  <1>2. /\ phase' = phase /\ phase # "stopped"
        /\ step[c] = "completing"
        /\ state' = [state EXCEPT !.pending = @ \ {id}]
        /\ rest' = [rest EXCEPT ![id] = Window]
        /\ step' = [step EXCEPT ![c] = "settling"]
        /\ UNCHANGED <<journal, age, started, reservation>>
    BY <1>1 DEF Complete, Turn, DownIsIdle
  <1>3. Sound(state) /\ Covers(state)
    BY <1>2 DEF BudgetInv
  <1>4. /\ state'.recent = state.recent
        /\ state'.spent = state.spent
        /\ state'.pending = state.pending \ {id}
    BY <1>1, <1>2 DEF TypeOK, State
  <1>5. \A i \in started : /\ i # id => rest'[i] = rest[i]
                           /\ i = id => rest'[i] + age[i] >= Window
    <2>1. ASSUME NEW i \in started, i = id
          PROVE  rest'[i] + age[i] >= Window
      <3>1. i \in Ids /\ age[i] \in Nat /\ Window \in Nat
        BY <1>1, <2>1, BudgetAssumption DEF TypeOK
      <3>2. rest'[i] = Window
        BY <1>1, <1>2, <2>1, <3>1 DEF TypeOK
      <3> QED
        BY <3>1, <3>2
    <2>2. ASSUME NEW i \in started, i # id
          PROVE  rest'[i] = rest[i]
      BY <1>1, <1>2, <2>2 DEF TypeOK
    <2> QED
      BY <2>1, <2>2
  <1>6. Sound(journal)' /\ Covers(journal)'
    BY <1>1, <1>2, <1>5 DEF Sound, Covers
  <1>7. Sound(state)'
    BY <1>3, <1>4 DEF Sound
  <1>8. Covers(state)'
    BY <1>2, <1>3, <1>4, <1>5 DEF Covers
  <1>9. /\ step'[c] \notin Held
        /\ \A d \in Callers : d # c => step'[d] = step[d]
    BY <1>1, <1>2 DEF TypeOK, Held
  <1>10. Owns'
    <2>1. ASSUME NEW d \in Callers, step'[d] \in Held
          PROVE  /\ d # c /\ step[d] = step'[d]
                 /\ reservation[d] \in state.pending /\ reservation[d] # id
      BY <1>1, <1>2, <1>9, <2>1 DEF Owns, Held
    <2>2. {"calling", "completing"} \subseteq Held
      BY DEF Held
    <2> QED
      BY <1>1, <1>2, <1>4, <2>1, <2>2 DEF Owns
  <1>11. TypeOK'
    BY <1>1, OperationKeepsType DEF Operation
  <1> QED
    BY <1>2, <1>6, <1>7, <1>8, <1>10, <1>11, GateStepKeeps

\* A call is made once its row is in the journal.
LEMMA PersistReservationKeeps ==
  ASSUME BudgetInv, NEW c \in Callers, PersistReservation(c)
  PROVE  BudgetInv'
  <1> USE DEF processVars
  <1> DEFINE id == reservation[c]
  <1>1. TypeOK /\ DownIsIdle /\ Owns
    BY DEF BudgetInv
  <1>2. /\ phase' = phase /\ phase # "stopped"
        /\ step[c] = "reserved"
        /\ journal' = state
        /\ started' = started \cup {id}
        /\ age' = [age EXCEPT ![id] = 0]
        /\ step' = [step EXCEPT ![c] = "calling"]
        /\ UNCHANGED <<state, rest, reservation>>
    BY <1>1 DEF PersistReservation, MakeCall, Turn, DownIsIdle
  <1>3. Sound(state) /\ Covers(state)
    BY <1>2 DEF BudgetInv
  <1>4. id \in state.pending
    BY <1>1, <1>2 DEF Owns, Held
  <1>5. Sound(state)' /\ Sound(journal)'
    BY <1>2, <1>3 DEF Sound
  <1>6. ASSUME NEW i \in started'
        PROVE  /\ i \in 1..state.spent
               /\ age'[i] < Window =>
                    /\ i \in state.recent
                    /\ i \in state.pending \/ rest[i] + age'[i] >= Window
    <2>1. CASE i = id
      BY <1>3, <1>4, <2>1 DEF Sound
    <2>2. CASE i # id
      <3>1. i \in started /\ age'[i] = age[i]
        BY <1>1, <1>2, <1>6, <2>2 DEF TypeOK
      <3> QED
        BY <1>3, <3>1 DEF Covers
    <2> QED
      BY <2>1, <2>2
  <1>7. Covers(state)' /\ Covers(journal)'
    BY <1>2, <1>6 DEF Covers
  <1>8. \A d \in Callers : step'[d] \in Held => step[d] \in Held
    BY <1>1, <1>2 DEF TypeOK, Held
  <1>9. Owns'
    <2>1. {"calling", "completing"} \subseteq Held
      BY DEF Held
    <2> QED
      BY <1>1, <1>2, <1>8, <2>1 DEF Owns
  <1>10. TypeOK'
    BY <1>1, OperationKeepsType DEF Operation
  <1> QED
    BY <1>2, <1>5, <1>7, <1>9, <1>10, GateStepKeeps

\* Time passes: a young call that no longer rests is no longer young.
LEMMA TickKeeps ==
  ASSUME BudgetInv, Tick
  PROVE  BudgetInv'
  <1> USE DEF diskVars, callerVars
  <1>1. TypeOK /\ Owns /\ DownIsIdle /\ Sound(journal) /\ Covers(journal)
    BY DEF BudgetInv
  <1>2. UNCHANGED <<journal, state, phase, step, reservation, started>>
    BY DEF Tick
  <1>3. ASSUME NEW i \in started, age'[i] < Window
        PROVE  /\ age[i] < Window
               /\ rest[i] + age[i] >= Window => rest'[i] + age'[i] >= Window
    <2>1. i \in Ids /\ age[i] \in Nat /\ rest[i] \in Nat /\ Window \in Nat
      BY <1>1, BudgetAssumption DEF TypeOK
    <2>2. age'[i] = IF age[i] < Window THEN age[i] + 1 ELSE age[i]
      BY <2>1 DEF Tick
    <2>3. rest'[i] = IF rest[i] > 0 THEN rest[i] - 1 ELSE 0
      BY <2>1 DEF Tick
    <2> QED
      BY <1>3, <2>1, <2>2, <2>3
  <1>4. Sound(journal)' /\ Covers(journal)'
    BY <1>1, <1>2, <1>3 DEF Sound, Covers
  <1>5. ASSUME phase' # "stopped"
        PROVE  Sound(state)' /\ Covers(state)'
    <2>1. Sound(state) /\ Covers(state)
      BY <1>2, <1>5 DEF BudgetInv
    <2> QED
      BY <1>2, <1>3, <2>1 DEF Sound, Covers
  <1>6. Owns' /\ DownIsIdle'
    BY <1>1, <1>2 DEF Owns, DownIsIdle
  <1>7. TypeOK'
    BY <1>1, TickKeepsType
  <1> QED
    BY <1>4, <1>5, <1>6, <1>7 DEF BudgetInv

\* The process starts from its journal, and leaves it as it is.
LEMMA ProcessKeeps ==
  ASSUME BudgetInv, Process \/ OperatorUnlocks
  PROVE  BudgetInv'
  <1> USE DEF diskVars, callerVars, timeVars
  <1>1. TypeOK /\ Owns /\ DownIsIdle /\ Sound(journal) /\ Covers(journal)
    BY DEF BudgetInv
  <1>2. TypeOK'
    BY <1>1, ProcessKeepsType, UnlockKeepsType
  <1>3. CASE Open
    <2>1. /\ phase = "stopped" /\ state' = journal
          /\ UNCHANGED <<journal, rest, age, started, step, reservation>>
      BY <1>3 DEF Open
    <2>2. \A c \in Callers : step'[c] = "idle"
      BY <1>1, <2>1 DEF DownIsIdle
    <2>3. Sound(state)' /\ Covers(state)' /\ Sound(journal)' /\ Covers(journal)'
      BY <1>1, <2>1 DEF Sound, Covers
    <2>4. Owns' /\ DownIsIdle'
      BY <2>2 DEF Owns, DownIsIdle, Held
    <2> QED
      BY <1>2, <2>3, <2>4 DEF BudgetInv
  <1>4. CASE OpenRefused \/ Conclude \/ Close \/ OperatorUnlocks
    <2>1. /\ Untouched
          /\ phase' # "stopped" <=> phase # "stopped"
          /\ UNCHANGED <<step, reservation>>
      BY <1>4 DEF OpenRefused, Conclude, Close, OperatorUnlocks, Untouched
    <2>2. DownIsIdle'
      BY <1>1, <2>1 DEF DownIsIdle
    <2> QED
      BY <1>2, <2>1, <2>2, QuietKeeps DEF BudgetInv
  <1>5. CASE Release \/ AbandonJournal
    <2>1. /\ phase # "stopped" /\ phase' = "stopped" /\ Forget
          /\ UNCHANGED <<journal, rest, age, started>>
      BY <1>5 DEF Release, AbandonJournal
    <2> QED
      BY <1>2, <2>1, ForgetKeeps DEF BudgetInv
  <1> QED
    BY <1>3, <1>4, <1>5 DEF Process

\* A crash leaves the journal as it was, or one write further.
LEMMA CrashKeeps ==
  ASSUME BudgetInv, NEW landing \in Landings, Crash(landing)
  PROVE  BudgetInv'
  <1> USE DEF timeVars
  <1>1. TypeOK'
    BY CrashKeepsType DEF BudgetInv
  <1>2. /\ phase # "stopped" /\ phase' = "stopped" /\ Forget
        /\ journal' \in {journal, state}
        /\ UNCHANGED <<rest, age, started>>
    BY DEF Crash, Lands
  <1> QED
    BY <1>1, <1>2, ForgetKeeps DEF BudgetInv

LEMMA InitInv == Init => BudgetInv
  <1> SUFFICES ASSUME Init PROVE BudgetInv
    OBVIOUS
  <1> USE DEF Init
  <1>1. FreshState \in State /\ Sound(FreshState)
    BY BudgetAssumption, FS_EmptySet DEF FreshState, State, Sound
  <1>2. /\ 0 \in 0..Window /\ 0 \in 0..TotalCalls /\ <<>> \in Seq(Callers)
        /\ "idle" \in Steps /\ "stopped" \in Phases
    BY BudgetAssumption DEF Steps, Phases
  <1>3. TypeOK
    BY <1>1, <1>2, BudgetAssumption DEF TypeOK
  <1>4. Covers(journal) /\ Owns /\ DownIsIdle
    BY DEF Covers, Owns, DownIsIdle, Held
  <1> QED
    BY <1>1, <1>3, <1>4 DEF BudgetInv

\* BudgetInv is an invariant of the gate.
THEOREM BudgetInvariant == Spec => []BudgetInv
<1>1. BudgetInv /\ [Next]_vars => BudgetInv'
  <2> SUFFICES ASSUME BudgetInv, [Next]_vars
               PROVE  BudgetInv'
    OBVIOUS
  <2>1. CASE Process \/ OperatorUnlocks
    BY <2>1, ProcessKeeps
  <2>2. CASE \E landing \in Landings : Crash(landing)
    BY <2>2, CrashKeeps
  <2>3. ASSUME NEW c \in Callers,
               \/ StartCall(c) \/ Retry(c) \/ EndCall(c) \/ TimesOut(c)
               \/ Operation(c) \/ Fault(c)
        PROVE  BudgetInv'
    <3>1. CASE StartCall(c) \/ Retry(c) \/ EndCall(c) \/ TimesOut(c)
      BY <3>1, CallerKeeps
    <3>2. CASE Refuse(c) \/ FindClosed(c) \/ PersistCompletion(c) \/ Fault(c)
      BY <3>2, SettlingKeeps
    <3>3. CASE DenyQuota(c) \/ Delay(c)
      BY <3>3, DeniedKeeps
    <3>4. CASE Reserve(c)
      BY <3>4, ReserveKeeps
    <3>5. CASE Complete(c)
      BY <3>5, CompleteKeeps
    <3>6. CASE PersistReservation(c)
      BY <3>6, PersistReservationKeeps
    <3> QED
      BY <2>3, <3>1, <3>2, <3>3, <3>4, <3>5, <3>6 DEF Operation
  <2>4. CASE Tick
    BY <2>4, TickKeeps
  <2>5. CASE UNCHANGED vars
    <3>1. UNCHANGED <<journal, state, rest, age, started, phase, step, reservation>>
      BY <2>5 DEF vars, diskVars, callerVars, timeVars
    <3>2. TypeOK'
      BY <2>5 DEF BudgetInv, TypeOK, vars, diskVars, callerVars, timeVars
    <3>3. DownIsIdle'
      BY <3>1 DEF BudgetInv, DownIsIdle
    <3> QED
      BY <3>1, <3>2, <3>3, QuietKeeps DEF BudgetInv, Untouched
  <2> QED
    BY <2>1, <2>2, <2>3, <2>4, <2>5 DEF Next
<1> QED
  BY <1>1, InitInv, PTL DEF Spec

\* No call is ever made that the journal has not charged.
THEOREM BudgetCharged == Spec => []ChargedBeforeCalled
<1>1. BudgetInv => ChargedBeforeCalled
  BY DEF BudgetInv, Covers, ChargedBeforeCalled
<1> QED
  BY <1>1, BudgetInvariant, PTL

\* A call on the network is pending in the journal.
THEOREM BudgetInFlight == Spec => []InFlightIsPending
<1>1. BudgetInv => InFlightIsPending
  BY DEF BudgetInv, Owns, InFlightIsPending
<1> QED
  BY <1>1, BudgetInvariant, PTL

\* At most Burst calls are started in any window.
THEOREM BudgetRate == Spec => []RateBound
<1>1. BudgetInv => RateBound
  <2> SUFFICES ASSUME BudgetInv PROVE RateBound
    OBVIOUS
  <2> DEFINE young == {i \in started : age[i] < Window}
  <2>1. young \subseteq journal.recent /\ Cardinality(journal.recent) <= Burst
    BY DEF BudgetInv, Covers, Sound
  <2>2. journal.recent \in SUBSET Ids /\ young \in SUBSET Ids
    BY DEF BudgetInv, TypeOK, State
  <2>3. Cardinality(young) <= Cardinality(journal.recent)
    BY <2>1, <2>2, IdsSubset
  <2>4. /\ Cardinality(young) \in Nat /\ Cardinality(journal.recent) \in Nat
        /\ Burst \in Nat
    BY <2>2, IdsFinite, BudgetAssumption
  <2> HIDE DEF young
  <2>5. Cardinality(young) <= Burst
    BY <2>1, <2>3, <2>4
  <2> QED
    BY <2>5 DEF young, RateBound
<1> QED
  BY <1>1, BudgetInvariant, PTL

\* The budget can always be restored from its journal.
THEOREM BudgetRestores == Spec => []JournalRestores
<1>1. BudgetInv => JournalRestores
  BY DEF BudgetInv, TypeOK, State, Sound, JournalRestores, Restorable
<1> QED
  BY <1>1, BudgetInvariant, PTL

\* Type correctness.
THEOREM BudgetTypeCorrect == Spec => []TypeOK
<1>1. BudgetInv => TypeOK
  BY DEF BudgetInv
<1> QED
  BY <1>1, BudgetInvariant, PTL

\* The journal covers every call that was started, the call on the network is
\* pending in it, and a process started from it accepts it.
THEOREM BudgetJournalCovers == Spec => []JournalCoversCalls
<1>1. ChargedBeforeCalled /\ InFlightIsPending /\ JournalRestores => JournalCoversCalls
  BY DEF JournalCoversCalls
<1> QED
  BY <1>1, BudgetCharged, BudgetInFlight, BudgetRestores, PTL

-----------------------------------------------------------------------------
(***************************************************************************)
(* One turn at a time.                                                     *)
(***************************************************************************)
InTurn == {"reserved", "settling"}

\* Who writes is first in the chain, and a poisoned budget writes nothing.
OneTurn ==
  /\ \A c \in Callers : step[c] \in InTurn => tail # <<>> /\ Head(tail) = c
  /\ poisoned => \A c \in Callers : step[c] \notin InTurn

\* A caller that joins the chain is not first if somebody is.
LEMMA ChainGrows ==
  ASSUME NEW chain \in Seq(Callers), NEW c \in Callers
  PROVE  /\ Append(chain, c) # <<>>
         /\ chain # <<>> => Head(Append(chain, c)) = Head(chain)
  BY AppendProperties, HeadTailAppend

\* A step that gives nobody the turn.
LEMMA NobodyTakesTurn ==
  ASSUME OneTurn,
         \A c \in Callers : step'[c] \in InTurn =>
            step[c] \in InTurn /\ tail' # <<>> /\ Head(tail') = Head(tail),
         poisoned' => poisoned \/ \A c \in Callers : step'[c] \notin InTurn
  PROVE  OneTurn'
  BY DEF OneTurn

\* The first of the chain leaves it.
LEMMA TurnIsOver ==
  ASSUME TypeOK, OneTurn, NEW c \in Callers, tail # <<>>, Head(tail) = c,
         NEW s, s \notin InTurn, step' = [step EXCEPT ![c] = s]
  PROVE  OneTurn' /\ \A d \in Callers : step'[d] \notin InTurn
  <1>1. \A d \in Callers : step'[d] \notin InTurn
    BY DEF TypeOK, OneTurn
  <1> QED
    BY <1>1 DEF OneTurn

LEMMA TurnStep ==
  ASSUME TypeOK, OneTurn, [Next]_vars
  PROVE  OneTurn' /\ (poisoned => started' = started)
  <1>1. step \in [Callers -> Steps] /\ tail \in Seq(Callers)
    BY DEF TypeOK
  <1>2. ASSUME UNCHANGED <<poisoned, tail, step, started>>
        PROVE  OneTurn' /\ (poisoned => started' = started)
    BY <1>2, NobodyTakesTurn DEF OneTurn
  <1>3. ASSUME Forget
        PROVE  OneTurn'
    BY <1>3 DEF Forget, OneTurn, InTurn
  <1>4. CASE Process \/ OperatorUnlocks \/ \E landing \in Landings : Crash(landing)
    <2>1. started' = started
      BY <1>4 DEF Process, Open, OpenRefused, Conclude, Close, Release, AbandonJournal,
         OperatorUnlocks, Crash
    <2>2. Forget \/ UNCHANGED <<poisoned, tail, step>>
      BY <1>4 DEF Process, Open, OpenRefused, Conclude, Close, Release, AbandonJournal,
         OperatorUnlocks, Crash, callerVars
    <2> QED
      BY <1>2, <1>3, <2>1, <2>2
  <1>5. CASE Tick \/ UNCHANGED vars
    BY <1>2, <1>5 DEF Tick, vars, callerVars
  <1>6. ASSUME NEW c \in Callers, NEW s, s \notin InTurn, Enqueue(c, s),
               UNCHANGED <<poisoned, started>>
        PROVE  OneTurn'
    <2>1. tail' = Append(tail, c) /\ step' = [step EXCEPT ![c] = s]
      BY <1>6 DEF Enqueue
    <2>2. \A d \in Callers : step'[d] \in InTurn =>
             step[d] \in InTurn /\ tail' # <<>> /\ Head(tail') = Head(tail)
      BY <1>1, <1>6, <2>1, ChainGrows DEF OneTurn
    <2> QED
      BY <1>6, <2>2, NobodyTakesTurn
  <1>7. ASSUME NEW c \in Callers, StartCall(c) \/ Retry(c) \/ EndCall(c)
        PROVE  OneTurn' /\ started' = started
    <2>1. \E s \in {"reserving", "completing"} : Enqueue(c, s)
      BY <1>7 DEF StartCall, Retry, EndCall
    <2>2. UNCHANGED <<poisoned, started>>
      BY <1>7 DEF StartCall, Retry, EndCall
    <2> QED
      BY <1>6, <2>1, <2>2 DEF InTurn
  <1>8. ASSUME NEW c \in Callers, TimesOut(c)
        PROVE  OneTurn' /\ started' = started
    <2>1. /\ \A d \in Callers : step'[d] = step[d] \/ step'[d] = "idle"
          /\ UNCHANGED <<tail, poisoned, started>>
      BY <1>1, <1>8 DEF TimesOut
    <2>2. \A d \in Callers : step'[d] \in InTurn =>
             step[d] \in InTurn /\ tail' # <<>> /\ Head(tail') = Head(tail)
      BY <2>1 DEF OneTurn, InTurn
    <2> QED
      BY <2>1, <2>2, NobodyTakesTurn
  <1>9. ASSUME NEW c \in Callers, 
               \/ Refuse(c) \/ DenyQuota(c) \/ FindClosed(c) \/ PersistCompletion(c) \/ Fault(c)
        PROVE  OneTurn' /\ started' = started
    <2>1. tail # <<>> /\ Head(tail) = c /\ Settle(c) /\ started' = started
      BY <1>9 DEF Refuse, DenyQuota, FindClosed, PersistCompletion, Fault, ReadInvalidClock,
         CloseInterrupts, FailPersist, Turn, Writing
    <2>2. step' = [step EXCEPT ![c] = "idle"]
      BY <2>1 DEF Settle
    <2> QED
      BY <2>1, <2>2, TurnIsOver DEF InTurn
  <1>10. ASSUME NEW c \in Callers, Delay(c)
         PROVE  OneTurn' /\ started' = started
    <2>1. /\ tail # <<>> /\ Head(tail) = c /\ started' = started
          /\ \E s \in {"sleeping", "idle"} : step' = [step EXCEPT ![c] = s]
      BY <1>10 DEF Delay, Turn
    <2> QED
      BY <2>1, TurnIsOver DEF InTurn
  <1>11. ASSUME NEW c \in Callers, Reserve(c) \/ Complete(c)
         PROVE  OneTurn' /\ started' = started
    <2>1. /\ tail # <<>> /\ Head(tail) = c /\ ~poisoned
          /\ UNCHANGED <<started, tail, poisoned>>
          /\ \E s \in InTurn : step' = [step EXCEPT ![c] = s]
      BY <1>11 DEF Reserve, Charge, Complete, Turn, InTurn
    <2>2. \A d \in Callers : d # c => step'[d] = step[d]
      BY <1>1, <2>1
    <2> QED
      BY <2>1, <2>2 DEF OneTurn
  <1>12. ASSUME NEW c \in Callers, PersistReservation(c)
         PROVE  OneTurn' /\ ~poisoned
    <2>1. /\ tail # <<>> /\ Head(tail) = c /\ step[c] \in InTurn
          /\ step' = [step EXCEPT ![c] = "calling"]
      BY <1>12 DEF PersistReservation, MakeCall, Turn, InTurn
    <2> QED
      BY <2>1, TurnIsOver DEF InTurn, OneTurn
  <1> QED
    BY <1>4, <1>5, <1>7, <1>8, <1>9, <1>10, <1>11, <1>12 DEF Next, Operation

\* Once a write has failed or the clock cannot be trusted, no call is made: a
\* poisoned budget has no reservation whose write could still return.
THEOREM BudgetPoisonStopsCalls == Spec => PoisonStopsCalls
<1>1. Init => OneTurn
  BY DEF Init, OneTurn, InTurn
<1>2. TypeOK /\ OneTurn /\ [Next]_vars => OneTurn'
  BY TurnStep
<1>3. TypeOK /\ OneTurn /\ [Next]_vars => [poisoned => started' = started]_vars
  BY TurnStep
<1> QED
  BY <1>1, <1>2, <1>3, BudgetTypeCorrect, PTL DEF Spec, PoisonStopsCalls
=============================================================================
