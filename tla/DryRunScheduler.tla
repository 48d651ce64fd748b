--------------------------- MODULE DryRunScheduler ---------------------------
(***************************************************************************)
(* The dry-run scheduler of the rehearsal (scripts/lib/                    *)
(* grant-m2-scheduler.mjs and run-grant-m2-scheduler-dry-run.mjs): every   *)
(* invocation takes an exclusive lock, recomputes the journal of earlier   *)
(* ticks and writes one immutable record.  Whatever does not complete      *)
(* leaves the lock, which an operator takes away once its holder is gone.  *)
(***************************************************************************)
EXTENDS Integers, Sequences, FiniteSets

CONSTANTS
  SlotDue,        \* due times of the slots, after the start of the schedule
  SlotTolerance,  \* slot_lateness_tolerance_ms
  ScheduleEnd,    \* end_at, after the start of the schedule
  Starts,         \* start times invocations are given
  Invocations,    \* invocations under way or to come
  ClockEnd,       \* bound: the time stops here
  DryRunFaults    \* bound: deaths and invocations with an old time

DryRunSlots == DOMAIN SlotDue

\* The shape every schedule has, relative to its start.
ValidDryRunSchedule == \A s \in DryRunSlots : SlotDue[s] \in 0 .. ScheduleEnd

ASSUME DryRunAssumption ==
  /\ ValidDryRunSchedule
  /\ SlotTolerance \in Nat /\ ClockEnd \in Nat /\ Starts \subseteq Nat

VARIABLES
  clock,      \* the time of the operator's scheduler
  calls,      \* per invocation: where it stands, its start and its time
  lock,       \* the invocation that created .scheduler.lock, or Unlocked
  binding,    \* schedule.json: a start, NoBinding, or Half
  ticks,      \* tick-000000.json ...: records, the last possibly Half
  dryRunFaults

dryRunVars == <<clock, calls, lock, binding, ticks, dryRunFaults>>

Unlocked == "unlocked"
NoBinding == -1  \* the file does not exist
Half == -2       \* created, its contents not all there

----------------------------------------------------------------------------
(* The decision.                                                           *)

DueAt(start, s) == start + SlotDue[s]

Decided(records) == UNION {DOMAIN records[i].decisions : i \in DOMAIN records}

\* Faulty variant: any time is taken.
ClockAdvancesAnyway(now, records) == TRUE

\* A tick may not be older than the record before it.
ClockAdvances(now, records) ==
  records # <<>> => now >= records[Len(records)].observed_at

\* decideTick: every slot due that no earlier tick decided is due or missing.
DecideTick(start, now, records) ==
  [observed_at |-> now,
   decisions |-> [s \in {t \in DryRunSlots \ Decided(records) : DueAt(start, t) <= now} |->
                    IF now - DueAt(start, s) <= SlotTolerance THEN "DRY_RUN_DUE" ELSE "MISSING"],
   window_elapsed |-> now >= start + ScheduleEnd]

\* The journal recomputes, record by record, under this schedule.
ScheduleRecomputes(start) ==
  \A i \in DOMAIN ticks :
    LET earlier == SubSeq(ticks, 1, i - 1)
    IN  /\ ticks[i] # [half |-> TRUE]
        /\ ClockAdvances(ticks[i].observed_at, earlier)
        /\ ticks[i] = DecideTick(start, ticks[i].observed_at, earlier)

----------------------------------------------------------------------------
(* One invocation.                                                         *)

DryRunInit ==
  /\ clock = 0 /\ lock = Unlocked /\ binding = NoBinding /\ ticks = <<>>
  /\ calls = [c \in Invocations |-> [pc |-> "idle", start |-> 0, now |-> 0]]
  /\ dryRunFaults = DryRunFaults

Moves(c, pc) == calls' = [calls EXCEPT ![c].pc = pc]

\* The command line binds the start and the time before anything is read; the
\* time may be an old one.
TickInvoked(c) ==
  /\ calls[c].pc = "idle"
  /\ \E start \in Starts, now \in {clock, clock - 1} \intersect Nat :
       /\ now # clock => dryRunFaults > 0
       /\ dryRunFaults' = IF now = clock THEN dryRunFaults ELSE dryRunFaults - 1
       /\ calls' = [calls EXCEPT ![c] = [pc |-> "starting", start |-> start, now |-> now]]
  /\ UNCHANGED <<clock, lock, binding, ticks>>

\* open(lock, "wx"): an invocation that finds the lock throws and leaves it.
TakeLock(c) ==
  /\ calls[c].pc = "starting"
  /\ IF lock = Unlocked
     THEN lock' = c /\ Moves(c, "binding")
     ELSE Moves(c, "threw") /\ UNCHANGED lock
  /\ UNCHANGED <<clock, binding, ticks, dryRunFaults>>

\* The first invocation writes the schedule, every one compares it.
BindSchedule(c) ==
  /\ calls[c].pc = "binding"
  /\ binding' = IF binding = NoBinding THEN calls[c].start ELSE binding
  /\ Moves(c, IF binding' = calls[c].start THEN "deciding" ELSE "threw")
  /\ UNCHANGED <<clock, lock, ticks, dryRunFaults>>

\* The journal is recomputed and the tick's record created; a refusal leaves
\* the lock.
WriteTick(c) ==
  /\ calls[c].pc = "deciding"
  /\ IF ScheduleRecomputes(calls[c].start) /\ ClockAdvances(calls[c].now, ticks)
     THEN /\ ticks' = Append(ticks, DecideTick(calls[c].start, calls[c].now, ticks))
          /\ Moves(c, "completed")
     ELSE Moves(c, "threw") /\ UNCHANGED ticks
  /\ UNCHANGED <<clock, lock, binding, dryRunFaults>>

\* Only a completed invocation unlinks the lock.
Unlock(c) ==
  /\ calls[c].pc = "completed"
  /\ lock' = Unlocked /\ Moves(c, "returned")
  /\ UNCHANGED <<clock, binding, ticks, dryRunFaults>>

\* A kill, possibly inside exclusiveWrite with the file created.
InvocationDies(c) ==
  /\ calls[c].pc \in {"binding", "deciding", "completed"} /\ dryRunFaults > 0
  /\ dryRunFaults' = dryRunFaults - 1 /\ Moves(c, "died")
  /\ \/ UNCHANGED <<binding, ticks>>
     \/ calls[c].pc = "binding" /\ binding = NoBinding /\ binding' = Half /\ UNCHANGED ticks
     \/ /\ calls[c].pc = "deciding" /\ ScheduleRecomputes(calls[c].start)
        /\ ClockAdvances(calls[c].now, ticks)
        /\ ticks' = Append(ticks, [half |-> TRUE]) /\ UNCHANGED binding
  /\ UNCHANGED <<clock, lock>>

\* The manual inspection: the holder is gone, its files are left as they are.
OperatorUnlocks ==
  /\ lock # Unlocked /\ calls[lock].pc \in {"threw", "died"}
  /\ lock' = Unlocked
  /\ UNCHANGED <<clock, calls, binding, ticks, dryRunFaults>>

\* Time passes; the scheduler's cadence follows it.
ClockTicks ==
  /\ clock < ClockEnd /\ clock' = clock + 1
  /\ UNCHANGED <<calls, lock, binding, ticks, dryRunFaults>>

DryRunNext ==
  \/ OperatorUnlocks \/ ClockTicks
  \/ \E c \in Invocations : \/ TickInvoked(c) \/ TakeLock(c) \/ BindSchedule(c)
                            \/ WriteTick(c) \/ Unlock(c) \/ InvocationDies(c)

DryRunSpec == DryRunInit /\ [][DryRunNext]_dryRunVars

----------------------------------------------------------------------------
(* Properties.                                                             *)

WholeTicks == {i \in DOMAIN ticks : ticks[i] # [half |-> TRUE]}

\* Every variable keeps its type.
DryRunTypeOK ==
  /\ clock \in 0 .. ClockEnd /\ lock \in Invocations \union {Unlocked}
  /\ binding \in Starts \union {NoBinding, Half}
  /\ \A i \in WholeTicks : DOMAIN ticks[i].decisions \subseteq DryRunSlots
  /\ Len(ticks) <= Cardinality(Invocations)

\* Every slot is decided by one tick at most, and by the time a tick is
\* recorded every slot due by then is decided.
EachSlotDecidedOnce ==
  \A i \in WholeTicks :
    /\ \A j \in WholeTicks \ {i} : DOMAIN ticks[i].decisions \intersect DOMAIN ticks[j].decisions = {}
    /\ \A s \in DryRunSlots : DueAt(binding, s) <= ticks[i].observed_at =>
         \E j \in WholeTicks : j <= i /\ s \in DOMAIN ticks[j].decisions

\* A slot is MISSING exactly when no recorded tick observed its tolerance.
MissingMeansUnobserved ==
  \A i \in WholeTicks : \A s \in DOMAIN ticks[i].decisions :
    (ticks[i].decisions[s] = "MISSING") <=>
      ~\E j \in WholeTicks : ticks[j].observed_at \in
                               DueAt(binding, s) .. (DueAt(binding, s) + SlotTolerance)

\* Invocations that overlap, come with an old time, another schedule or die
\* leave a journal that accounts for every slot.  Nothing follows a half record.
ScheduleIsAccounted ==
  /\ EachSlotDecidedOnce /\ MissingMeansUnobserved
  /\ \A i \in DOMAIN ticks : i < Len(ticks) => i \in WholeTicks
=============================================================================
