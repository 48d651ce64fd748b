--------------------------- MODULE OfficialJournal ---------------------------
(***************************************************************************)
(* The append-only journal of the official fourteen-day window, and the    *)
(* decisions taken from it: scripts/lib/grant-m2-official-journal.mjs and  *)
(* the planner of scripts/lib/grant-m2-official-coordinator.mjs.           *)
(*                                                                         *)
(* Slots are numbered in schedule order.  Times are ticks of one unit; the *)
(* schedule's 120 s lateness tolerance is Tolerance of them.               *)
(***************************************************************************)
EXTENDS Integers, Sequences, FiniteSets, SequencesExt

CONSTANTS
  NumSlots,          \* planned_units
  Observers,
  ObserverOf,        \* [Slots -> Observers]
  DueAt,             \* [Slots -> Nat]  due_at
  StartAt,           \* start_at
  EndAt,             \* end_at
  Tolerance          \* slot_lateness_tolerance_ms

Slots == 1..NumSlots

\* What the frozen cadence gives every schedule the coordinator accepts: slots
\* in the order they fall due, all of them inside the window.
ValidSchedule ==
  /\ NumSlots \in Nat \ {0}
  /\ ObserverOf \in [Slots -> Observers]
  /\ DueAt \in [Slots -> Nat]
  /\ StartAt \in Nat /\ EndAt \in Nat /\ Tolerance \in Nat
  /\ \A s \in Slots : StartAt <= DueAt[s] /\ DueAt[s] <= EndAt
  /\ \A s, t \in Slots : s <= t => DueAt[s] <= DueAt[t]

ASSUME ScheduleAssumption == ValidSchedule

NoSlot == 0
Statuses == {"QUALIFYING", "MISSING", "INVALID"}
Event == [event : {"WINDOW_STARTED", "SLOT_TERMINAL", "WINDOW_ENDED"},
          slot : Slots \cup {NoSlot}, terminal_status : Statuses \cup {"NONE"},
          recorded_at : Nat]

WindowStarted(at) == [event |-> "WINDOW_STARTED", slot |-> NoSlot,
                      terminal_status |-> "NONE", recorded_at |-> at]
WindowEnded(at)   == [event |-> "WINDOW_ENDED", slot |-> NoSlot,
                      terminal_status |-> "NONE", recorded_at |-> at]
SlotTerminal(s, status, at) == [event |-> "SLOT_TERMINAL", slot |-> s,
                                terminal_status |-> status, recorded_at |-> at]

-----------------------------------------------------------------------------
(***************************************************************************)
(* summarize()                                                             *)
(***************************************************************************)
Started(records) == records # <<>> /\ records[1].event = "WINDOW_STARTED"
Ended(records) == \E i \in 1..Len(records) : records[i].event = "WINDOW_ENDED"
TerminalSlots(records) ==
  {s \in Slots : \E i \in 1..Len(records) : records[i].slot = s}
Concluded(records, s, status) ==
  \E i \in 1..Len(records) :
     records[i].slot = s /\ records[i].terminal_status = status

Late(s, at) == at - DueAt[s] > Tolerance

\* validateEvent(): may this event follow these records?  What the events of
\* a QUALIFYING slot must carry is checked where that event is made.
ValidEvent(record, previous) ==
  /\ previous # <<>> => record.recorded_at >= Last(previous).recorded_at
  /\ CASE record.event = "WINDOW_STARTED" ->
            previous = <<>> /\ record.recorded_at \in StartAt..(StartAt + Tolerance)
       [] record.event = "SLOT_TERMINAL" ->
            /\ Started(previous)
            /\ record.slot \notin TerminalSlots(previous)
            /\ record.recorded_at >= DueAt[record.slot]
            /\ record.terminal_status = "MISSING" => Late(record.slot, record.recorded_at)
       [] OTHER ->
            /\ Started(previous) /\ ~Ended(previous)
            /\ record.recorded_at >= EndAt
            /\ TerminalSlots(previous) = Slots

-----------------------------------------------------------------------------
(***************************************************************************)
(* planGrantM2OfficialCoordinator()                                        *)
(***************************************************************************)
DueSlots(records, at) == {s \in Slots \ TerminalSlots(records) : DueAt[s] <= at}

\* Faulty variant: a slot is missing at the very end of its tolerance.
MissingSlotsEarly(records, at) ==
  {s \in DueSlots(records, at) : at - DueAt[s] >= Tolerance}

\* decideGrantM2OfficialDueSlots(): too late for an execution.
MissingSlots(records, at) == {s \in DueSlots(records, at) : Late(s, at)}

\* Faulty variant: an observer whose assignment is in progress gets another.
ExecutableSlotsOverlapping(records, at, active) ==
  DueSlots(records, at) \ MissingSlots(records, at)

\* The first due slot of every observer that has no active assignment.
ExecutableSlots(records, at, active) ==
  LET due == DueSlots(records, at) \ MissingSlots(records, at)
  IN {s \in due :
        /\ \A t \in active : ObserverOf[t] # ObserverOf[s]
        /\ \A t \in due : ObserverOf[t] = ObserverOf[s] => s <= t}

StartIsDue(records, at) == records = <<>> /\ at \in StartAt..(StartAt + Tolerance)
StartIsMissed(records, at) == records = <<>> /\ at > StartAt + Tolerance
EndIsDue(records, at, active) ==
  TerminalSlots(records) = Slots /\ at >= EndAt /\ active = {}

Step(type, s) == [type |-> type, slot |-> s]

\* The actions of a plan.  A start or an end is planned alone; MISSING slots
\* and executions are taken in schedule order.
PlannedSteps(records, at, active) ==
  CASE StartIsDue(records, at) -> {Step("START_WINDOW", NoSlot)}
    [] ~StartIsDue(records, at) /\ ~Started(records) -> {}
    [] Started(records) /\ EndIsDue(records, at, active) -> {Step("END_WINDOW", NoSlot)}
    [] OTHER ->
         {Step("RECORD_MISSING", s) : s \in MissingSlots(records, at)}
           \cup {Step("EXECUTE_SLOT", s) : s \in ExecutableSlots(records, at, active)}
=============================================================================
