---------------------- MODULE OfficialCoordinatorProofs ----------------------
(***************************************************************************)
(* Proofs about OfficialCoordinator: each unit's side effects happen at    *)
(* most once and stand behind what counts, and the coordinator implements  *)
(* OfficialWindow, for any schedule, observers, lifetime and stops.        *)
(***************************************************************************)
EXTENDS OfficialCoordinator, SequenceTheorems, TLAPS

StepTypes == {"START_WINDOW", "END_WINDOW", "ADVANCE_ACTIVE", "RECORD_MISSING",
              "EXECUTE_SLOT", "ADVANCE"}
SlotSteps == {"RECORD_MISSING", "EXECUTE_SLOT", "ADVANCE"}

\* Where the coordinator works on one slot.
Busy == SlotProcess \cup Advancing \cup {"slotFailed"}

\* An event is about a slot exactly if it concludes it.
Shaped(event) ==
  /\ event \in Event
  /\ event.event = "SLOT_TERMINAL" <=> event.slot \in Slots
  /\ event.event = "SLOT_TERMINAL" <=> event.terminal_status \in Statuses

\* What validateEvent() makes of a journal it guards.
InOrder(records) ==
  /\ records \in Seq(Event)
  /\ \A i \in 1..Len(records) : Shaped(records[i])
  /\ \A i \in 1..Len(records) : records[i].event = "WINDOW_STARTED" <=> i = 1
  /\ \A i, j \in 1..Len(records) :
       records[i].slot \in Slots /\ records[i].slot = records[j].slot => i = j
  /\ Ended(records) => TerminalSlots(records) = Slots

\* A plan has one step a slot, and none outside a pass.
PlanInOrder ==
  /\ \A step \in plan : \E type \in StepTypes, s \in 0..(NumSlots + 1) : step = Step(type, s)
  /\ \A step, other \in plan : step.slot = other.slot => step = other
  /\ pc \notin Busy \cup {"act"} => plan = {}

\* What a pass still has to do is about slots that are open and not in hand.
PlanIsFresh ==
  \A step \in plan :
    /\ step.type \in SlotSteps =>
         /\ step.slot \in Slots \ TerminalSlots(journal)
         /\ pc \in Busy => step.slot # working
    /\ step.type = "ADVANCE" => Has(step.slot, "entry")
    /\ step.type = "EXECUTE_SLOT" => Started(journal)

\* The slot in hand is open, and it is prepared only in an open window.
WorkingIsOpen ==
  /\ pc \in Busy => working \in Slots \ TerminalSlots(journal)
  /\ pc \in SlotProcess => Started(journal)

\* What is known of the slot in hand where the coordinator stands.
HandKnows ==
  /\ pc \in {"reserveSequence", "prepare", "submit"} =>
       Has(working, "reservation") /\ effects[working]["submissions"] = 0
  /\ pc \in {"acknowledge", "assign", "output"} => effects[working]["submissions"] = 1
  /\ pc \in Advancing \cup {"release"} => Has(working, "entry")
  /\ pc = "transport" =>
       Has(working, "transportReserved") /\ effects[working]["transports"] = 0
  /\ pc \in {"reserveStart", "start", "completion", "complete"} => Has(working, "receipt")
  /\ pc = "start" =>
       Has(working, "workerStartReserved") /\ effects[working]["workerStarts"] = 0
  /\ pc = "complete" => {"completion", "delivery"} \subseteq remote[working]

\* The files of a slot cover its side effects, and what the observer host has
\* of it comes from them.
FilesCover(s) ==
  /\ ~Has(s, "reservation") => effects[s]["submissions"] = 0
  /\ Has(s, "assignment") \/ Has(s, "entry") => effects[s]["submissions"] = 1
  /\ ~Has(s, "transportReserved") => effects[s]["transports"] = 0
  /\ ~Has(s, "workerStartReserved") => effects[s]["workerStarts"] = 0
  /\ Has(s, "receipt") => "receipt" \in remote[s]
  /\ "receipt" \in remote[s] => effects[s]["transports"] = 1
  /\ "worker" \in remote[s] => effects[s]["workerStarts"] = 1 /\ Has(s, "entry")
  /\ {"completion", "delivery"} \cap remote[s] # {} => "worker" \in remote[s]

CoordinatorInv ==
  /\ TypeOK /\ InOrder(journal)
  /\ PlanInOrder /\ PlanIsFresh /\ WorkingIsOpen /\ HandKnows
  /\ \A s \in Slots : FilesCover(s)
  /\ AtMostOnce /\ QualifyingIsBacked

-----------------------------------------------------------------------------
(* The journal.                                                            *)

\* What appending an event adds to the summary.
LEMMA Appended ==
  ASSUME NEW records \in Seq(Event), NEW event \in Event
  PROVE  LET longer == Append(records, event) IN
         /\ longer \in Seq(Event)
         /\ TerminalSlots(longer) = TerminalSlots(records) \cup ({event.slot} \cap Slots)
         /\ Ended(longer) <=> Ended(records) \/ event.event = "WINDOW_ENDED"
         /\ \A s, status :
              Concluded(longer, s, status) <=>
                Concluded(records, s, status) \/ (event.slot = s /\ event.terminal_status = status)
         /\ Started(longer) <=> Started(records) \/ (records = <<>> /\ event.event = "WINDOW_STARTED")
  <1> DEFINE longer == Append(records, event)
             n == Len(records)
  <1>1. /\ longer \in Seq(Event) /\ Len(longer) = n + 1 /\ n \in Nat
        /\ longer[n + 1] = event /\ \A i \in 1..n : longer[i] = records[i]
        /\ \A i : i \in 1..(n + 1) <=> i \in 1..n \/ i = n + 1
    OBVIOUS
  <1> HIDE DEF longer
  <1>2. TerminalSlots(longer) = TerminalSlots(records) \cup ({event.slot} \cap Slots)
    BY <1>1 DEF TerminalSlots
  <1>3. Ended(longer) <=> Ended(records) \/ event.event = "WINDOW_ENDED"
    BY <1>1 DEF Ended
  <1>4. ASSUME NEW s, NEW status
        PROVE  Concluded(longer, s, status) <=>
                 Concluded(records, s, status) \/ (event.slot = s /\ event.terminal_status = status)
    BY <1>1 DEF Concluded
  <1>5. Started(longer) <=> Started(records) \/ (records = <<>> /\ event.event = "WINDOW_STARTED")
    <2>1. CASE records = <<>>
      <3>1. n = 0 /\ longer # <<>> /\ longer[1] = event
        BY <1>1, <2>1
      <3> QED
        BY <2>1, <3>1 DEF Started
    <2>2. CASE records # <<>>
      <3>1. 1 \in 1..n /\ longer # <<>>
        BY <1>1, <2>2
      <3> QED
        BY <1>1, <2>2, <3>1 DEF Started
    <2> QED
      BY <2>1, <2>2
  <1> QED
    BY <1>1, <1>2, <1>3, <1>4, <1>5 DEF longer

\* An event the journal accepts keeps it in order, and no window is ended twice.
LEMMA ValidKeepsOrder ==
  ASSUME NEW records, InOrder(records), NEW event, Shaped(event), ValidEvent(event, records)
  PROVE  /\ InOrder(Append(records, event))
         /\ ~Ended(records) /\ Started(Append(records, event))
  <1> DEFINE longer == Append(records, event)
             n == Len(records)
  <1>1. records \in Seq(Event) /\ event \in Event /\ n \in Nat
    BY DEF InOrder, Shaped
  <1>2. /\ longer \in Seq(Event) /\ Len(longer) = n + 1
        /\ longer[n + 1] = event /\ \A i \in 1..n : longer[i] = records[i]
        /\ \A i : i \in 1..(n + 1) <=> i \in 1..n \/ i = n + 1
        /\ n + 1 \notin 1..n
        /\ records = <<>> <=> n = 0
    BY <1>1
  <1>3. /\ TerminalSlots(longer) = TerminalSlots(records) \cup ({event.slot} \cap Slots)
        /\ Ended(longer) <=> Ended(records) \/ event.event = "WINDOW_ENDED"
        /\ Started(longer) <=> Started(records) \/ (records = <<>> /\ event.event = "WINDOW_STARTED")
    BY <1>1, Appended
  <1> HIDE DEF longer
  <1>4. event.event \in {"WINDOW_STARTED", "SLOT_TERMINAL", "WINDOW_ENDED"}
    BY <1>1 DEF Event
  <1>5. /\ event.event = "WINDOW_STARTED" => records = <<>>
        /\ event.event # "WINDOW_STARTED" => Started(records)
        /\ event.event = "SLOT_TERMINAL" => event.slot \notin TerminalSlots(records)
        /\ event.event = "WINDOW_ENDED" => TerminalSlots(records) = Slots /\ ~Ended(records)
    BY <1>4 DEF ValidEvent
  <1>6. ~Ended(records)
    <2>1. CASE event.event = "WINDOW_STARTED"
      BY <1>2, <1>5, <2>1 DEF Ended
    <2>2. CASE event.event = "SLOT_TERMINAL"
      BY <1>5, <2>2 DEF InOrder, Shaped
    <2> QED
      BY <1>4, <1>5, <2>1, <2>2
  <1>7. \A i \in 1..(n + 1) : Shaped(longer[i])
    BY <1>2 DEF InOrder
  <1>8. \A i \in 1..(n + 1) : longer[i].event = "WINDOW_STARTED" <=> i = 1
    <2>1. n = 0 => event.event = "WINDOW_STARTED"
      BY <1>2, <1>4, <1>5 DEF Started
    <2>2. n # 0 => event.event # "WINDOW_STARTED"
      BY <1>2, <1>5
    <2> QED
      BY <1>1, <1>2, <2>1, <2>2 DEF InOrder
  <1>9. ASSUME NEW i \in 1..(n + 1), NEW j \in 1..(n + 1),
               longer[i].slot \in Slots, longer[i].slot = longer[j].slot
        PROVE  i = j
    <2>1. event.slot \in Slots => \A k \in 1..n : records[k].slot # event.slot
      BY <1>5 DEF Shaped, TerminalSlots
    <2> QED
      BY <1>2, <1>9, <2>1 DEF InOrder
  <1>10. Ended(longer) => TerminalSlots(longer) = Slots
    <2>1. TerminalSlots(records) \subseteq Slots
      BY DEF TerminalSlots
    <2> QED
      BY <1>3, <1>5, <1>6, <2>1
  <1>11. InOrder(longer)
    BY <1>2, <1>7, <1>8, <1>9, <1>10 DEF InOrder
  <1>12. Started(longer)
    BY <1>3, <1>5
  <1> QED
    BY <1>6, <1>11, <1>12 DEF longer

LEMMA TerminalShaped ==
  ASSUME NEW s \in Slots, NEW status \in Statuses, NEW at \in Nat
  PROVE  Shaped(SlotTerminal(s, status, at))
  BY DEF Shaped, SlotTerminal, Event

LEMMA WindowEventsShaped ==
  ASSUME NEW at \in Nat
  PROVE  Shaped(WindowStarted(at)) /\ Shaped(WindowEnded(at))
  <1>1. NoSlot \notin Slots /\ "NONE" \notin Statuses
    BY ScheduleAssumption DEF ValidSchedule, NoSlot, Slots, Statuses
  <1> QED
    BY <1>1 DEF Shaped, WindowStarted, WindowEnded, Event

\* A slot without a terminal event has no conclusion.
LEMMA OpenIsNotConcluded ==
  ASSUME NEW records, NEW s \in Slots, s \notin TerminalSlots(records), NEW status
  PROVE  ~Concluded(records, s, status)
  BY DEF TerminalSlots, Concluded

-----------------------------------------------------------------------------
(* What several actions have in common.                                    *)

\* A step that leaves the evidence alone keeps what is said of it.
LEMMA EvidenceKept ==
  ASSUME CoordinatorInv, UNCHANGED <<journal, files, effects, remote>>
  PROVE  /\ InOrder(journal)' /\ (\A s \in Slots : FilesCover(s))'
         /\ AtMostOnce' /\ QualifyingIsBacked'
  BY DEF CoordinatorInv, FilesCover, Has, AtMostOnce, QualifyingIsBacked

\* A step within the work on one slot, or back to the plan.
LEMMA HandKept ==
  ASSUME CoordinatorInv, pc \in Busy, pc' \in Busy \cup {"act"},
         pc' \in SlotProcess => pc \in SlotProcess,
         UNCHANGED <<plan, working, journal>>,
         \A s \in Slots : files[s] \subseteq files'[s]
  PROVE  PlanInOrder' /\ PlanIsFresh' /\ WorkingIsOpen'
  <1>1. PlanInOrder'
    BY DEF CoordinatorInv, PlanInOrder
  <1>2. PlanIsFresh'
    <2>1. ASSUME NEW step \in plan, step.type = "ADVANCE" PROVE step.slot \in Slots
      BY <2>1 DEF CoordinatorInv, PlanIsFresh, SlotSteps
    <2> QED
      BY <2>1 DEF CoordinatorInv, PlanIsFresh, Has
  <1>3. WorkingIsOpen'
    BY DEF CoordinatorInv, WorkingIsOpen, Busy, SlotProcess, Advancing
  <1> QED
    BY <1>1, <1>2, <1>3

\* A process that stops forgets its plan and the slot in hand.
LEMMA Stopped ==
  ASSUME plan' = {}, pc' \in {"down", "blocked", "ended", "reconcile"}
  PROVE  PlanInOrder' /\ PlanIsFresh' /\ WorkingIsOpen' /\ HandKnows'
  <1>1. pc' \notin Busy /\ pc' \notin SlotProcess
    BY DEF Busy, SlotProcess, Advancing
  <1>2. HandKnows'
    BY DEF HandKnows, Advancing
  <1> QED
    BY <1>1, <1>2 DEF PlanInOrder, PlanIsFresh, WorkingIsOpen

\* What counts is of slots that are concluded, and nothing touches these.
LEMMA BackedKept ==
  ASSUME CoordinatorInv, UNCHANGED journal,
         \A s \in TerminalSlots(journal) : effects'[s] = effects[s],
         \A s \in Slots : remote[s] \subseteq remote'[s]
  PROVE  QualifyingIsBacked'
  <1> SUFFICES ASSUME NEW s \in Slots, Concluded(journal, s, "QUALIFYING")
               PROVE  /\ \A e \in EffectNames : effects'[s][e] = 1
                      /\ {"receipt", "completion", "delivery"} \subseteq remote'[s]
    BY DEF QualifyingIsBacked
  <1>1. s \in TerminalSlots(journal)
    BY OpenIsNotConcluded
  <1> QED
    BY <1>1 DEF CoordinatorInv, QualifyingIsBacked

\* The slot in hand is one, and not concluded.
LEMMA InHand ==
  ASSUME CoordinatorInv, pc \in Busy
  PROVE  working \in Slots /\ working \notin TerminalSlots(journal)
  BY DEF CoordinatorInv, WorkingIsOpen

\* A file more in the slot in hand.
LEMMA FileAdded ==
  ASSUME TypeOK, working \in Slots, NEW file \in FileNames, AddFile(working, file)
  PROVE  /\ files' \in [Slots -> SUBSET FileNames]
         /\ files'[working] = files[working] \cup {file}
         /\ \A s \in Slots : s # working => files'[s] = files[s]
         /\ \A s \in Slots : files[s] \subseteq files'[s]
  BY DEF TypeOK, AddFile

\* A side effect of the slot in hand.
LEMMA Attempted ==
  ASSUME TypeOK, working \in Slots, NEW e \in EffectNames, Attempt(working, e)
  PROVE  /\ effects' \in [Slots -> [EffectNames -> Nat]]
         /\ effects'[working][e] = effects[working][e] + 1
         /\ \A f \in EffectNames : f # e => effects'[working][f] = effects[working][f]
         /\ \A s \in Slots : s # working => effects'[s] = effects[s]
  BY DEF TypeOK, Attempt

-----------------------------------------------------------------------------
(* The slot process.                                                       *)

LEMMA LockStep ==
  ASSUME CoordinatorInv, OpenSequence \/ OpenQuota \/ ReleaseLocks
  PROVE  CoordinatorInv'
  <1>1. /\ UNCHANGED <<journal, files, issuedAt, effects, remote, clock, unreadable>>
        /\ UNCHANGED <<nowAt, plan, working, stops, exit>>
        /\ pc \in {"openSequence", "openQuota", "release"}
        /\ pc' \in {"slotFailed", "openQuota", "reserve", "release", "reserveTransport"}
        /\ pc # "release" => pc' \in {"slotFailed", "openQuota", "reserve"}
        /\ pc = "release" => pc' \in {"release", "reserveTransport"}
    BY DEF OpenSequence, OpenQuota, ReleaseLocks, InSlotProcess, Goto
  <1>2. pc \in Busy /\ pc \in SlotProcess /\ pc' \in Busy
    BY <1>1 DEF Busy, SlotProcess, Advancing
  <1>3. working \in Slots
    BY <1>2, InHand
  <1>4. locks' \in SUBSET (Observers \cup {QuotaLock})
    <2>1. ObserverOf[working] \in Observers
      BY <1>3, ScheduleAssumption DEF ValidSchedule
    <2> QED
      BY <2>1 DEF CoordinatorInv, TypeOK, OpenSequence, OpenQuota, ReleaseLocks
  <1>5. TypeOK'
    BY <1>1, <1>4 DEF CoordinatorInv, TypeOK, ProgramCounters, SlotProcess, Advancing
  <1>6. PlanInOrder' /\ PlanIsFresh' /\ WorkingIsOpen'
    BY <1>1, <1>2, HandKept
  <1>7. HandKnows'
    BY <1>1 DEF CoordinatorInv, HandKnows, Has, Advancing
  <1> QED
    BY <1>1, <1>5, <1>6, <1>7, EvidenceKept DEF CoordinatorInv

LEMMA ReserveStep ==
  ASSUME CoordinatorInv, ReserveSlot \/ ReserveSequence
  PROVE  CoordinatorInv'
  <1>1. /\ UNCHANGED <<journal, issuedAt, locks, effects, remote, clock, unreadable>>
        /\ UNCHANGED <<nowAt, plan, working, stops, exit>>
        /\ pc \in {"reserve", "reserveSequence"}
        /\ pc' \in {"slotFailed", "reserveSequence", "prepare"}
    BY DEF ReserveSlot, ReserveSequence, InSlotProcess, Goto
  <1>2. pc \in Busy /\ pc \in SlotProcess /\ pc' \in Busy
    BY <1>1 DEF Busy, SlotProcess, Advancing
  <1>3. working \in Slots
    BY <1>2, InHand
  <1>4. \/ UNCHANGED files /\ pc' = "slotFailed"
        \/ /\ \/ /\ AddFile(working, "reservation") /\ ~Has(working, "reservation")
                 /\ pc' = "reserveSequence"
              \/ AddFile(working, "sequence") /\ pc = "reserveSequence" /\ pc' = "prepare"
    BY DEF ReserveSlot, ReserveSequence, InSlotProcess, Goto, Reserved
  <1>5. CASE UNCHANGED files /\ pc' = "slotFailed"
    <2>1. TypeOK'
      BY <1>1, <1>5 DEF CoordinatorInv, TypeOK, ProgramCounters
    <2>2. PlanInOrder' /\ PlanIsFresh' /\ WorkingIsOpen'
      BY <1>1, <1>2, <1>5, HandKept
    <2>3. HandKnows'
      BY <1>5 DEF HandKnows, Advancing
    <2> QED
      BY <1>1, <1>5, <2>1, <2>2, <2>3, EvidenceKept DEF CoordinatorInv
  <1>6. ASSUME NEW file \in {"reservation", "sequence"}, AddFile(working, file),
               \/ file = "reservation" /\ ~Has(working, "reservation") /\ pc' = "reserveSequence"
               \/ file = "sequence" /\ pc = "reserveSequence" /\ pc' = "prepare"
        PROVE  CoordinatorInv'
    <2>1. /\ files' \in [Slots -> SUBSET FileNames]
          /\ files'[working] = files[working] \cup {file}
          /\ \A s \in Slots : s # working => files'[s] = files[s]
          /\ \A s \in Slots : files[s] \subseteq files'[s]
      BY <1>3, <1>6, FileAdded DEF CoordinatorInv, FileNames
    <2>2. TypeOK'
      BY <1>1, <2>1 DEF CoordinatorInv, TypeOK, ProgramCounters, SlotProcess
    <2>3. PlanInOrder' /\ PlanIsFresh' /\ WorkingIsOpen'
      BY <1>1, <1>2, <2>1, HandKept
    <2>4. HandKnows'
      BY <1>1, <1>3, <1>6, <2>1 DEF CoordinatorInv, HandKnows, FilesCover, Has, Advancing
    <2>5. \A s \in Slots : FilesCover(s)'
      BY <1>1, <1>3, <1>6, <2>1 DEF CoordinatorInv, FilesCover, Has
    <2>6. AtMostOnce' /\ QualifyingIsBacked'
      BY <1>1 DEF CoordinatorInv, AtMostOnce, QualifyingIsBacked
    <2> QED
      BY <1>1, <2>2, <2>3, <2>4, <2>5, <2>6 DEF CoordinatorInv, InOrder
  <1> QED
    BY <1>4, <1>5, <1>6

\* A file whose write may fail, with the slot then in the operator's hands.
LEMMA WriteStep ==
  ASSUME CoordinatorInv, Prepare \/ Acknowledge \/ SignAssignment \/ WriteOutput
  PROVE  CoordinatorInv'
  <1>1. /\ UNCHANGED <<journal, locks, effects, remote, clock, unreadable>>
        /\ UNCHANGED <<nowAt, plan, working, stops, exit>>
        /\ pc \in {"prepare", "acknowledge", "assign", "output"}
        /\ pc' \in {"slotFailed", "submit", "assign", "output", "release"}
    BY DEF Prepare, Acknowledge, SignAssignment, WriteOutput, WriteOrFail, InSlotProcess, Goto
  <1>2. pc \in Busy /\ pc \in SlotProcess /\ pc' \in Busy
    BY <1>1 DEF Busy, SlotProcess, Advancing
  <1>3. working \in Slots
    BY <1>2, InHand
  <1>4. issuedAt' \in [Slots -> Nat]
    BY <1>1, <1>3 DEF CoordinatorInv, TypeOK, Prepare, Acknowledge, SignAssignment, WriteOutput
  <1>5. \/ UNCHANGED files /\ pc' = "slotFailed"
        \/ AddFile(working, "prepared") /\ pc = "prepare" /\ pc' = "submit"
        \/ AddFile(working, "acknowledged") /\ pc = "acknowledge" /\ pc' = "assign"
        \/ AddFile(working, "assignment") /\ pc = "assign" /\ pc' = "output"
        \/ AddFile(working, "entry") /\ pc = "output" /\ pc' = "release"
    BY DEF Prepare, Acknowledge, SignAssignment, WriteOutput, WriteOrFail, InSlotProcess, Goto
  <1>6. CASE UNCHANGED files /\ pc' = "slotFailed"
    <2>1. TypeOK'
      BY <1>1, <1>4, <1>6 DEF CoordinatorInv, TypeOK, ProgramCounters
    <2>2. PlanInOrder' /\ PlanIsFresh' /\ WorkingIsOpen'
      BY <1>1, <1>2, <1>6, HandKept
    <2>3. HandKnows'
      BY <1>6 DEF HandKnows, Advancing
    <2> QED
      BY <1>1, <1>6, <2>1, <2>2, <2>3, EvidenceKept DEF CoordinatorInv
  <1>7. ASSUME NEW file \in FileNames, AddFile(working, file),
               \/ file = "prepared" /\ pc = "prepare" /\ pc' = "submit"
               \/ file = "acknowledged" /\ pc = "acknowledge" /\ pc' = "assign"
               \/ file = "assignment" /\ pc = "assign" /\ pc' = "output"
               \/ file = "entry" /\ pc = "output" /\ pc' = "release"
        PROVE  CoordinatorInv'
    <2>1. /\ files' \in [Slots -> SUBSET FileNames]
          /\ files'[working] = files[working] \cup {file}
          /\ \A s \in Slots : s # working => files'[s] = files[s]
          /\ \A s \in Slots : files[s] \subseteq files'[s]
      BY <1>3, <1>7, FileAdded DEF CoordinatorInv
    <2>2. TypeOK'
      BY <1>1, <1>4, <2>1 DEF CoordinatorInv, TypeOK, ProgramCounters, SlotProcess
    <2>3. PlanInOrder' /\ PlanIsFresh' /\ WorkingIsOpen'
      BY <1>1, <1>2, <2>1, HandKept
    <2>4. HandKnows'
      BY <1>1, <1>3, <1>7, <2>1 DEF CoordinatorInv, HandKnows, Has, Advancing
    <2>5. ASSUME NEW s \in Slots PROVE FilesCover(s)'
      <3>1. FilesCover(s)
        BY DEF CoordinatorInv
      <3>2. CASE s # working
        BY <1>1, <2>1, <3>1, <3>2 DEF FilesCover, Has
      <3>3. CASE s = working
        <4>1. file \in {"assignment", "entry"} => effects[s]["submissions"] = 1
          BY <1>7, <3>3 DEF CoordinatorInv, HandKnows
        <4> QED
          BY <1>1, <1>7, <2>1, <3>1, <3>3, <4>1 DEF FilesCover, Has
      <3> QED
        BY <3>2, <3>3
    <2>6. AtMostOnce' /\ QualifyingIsBacked'
      BY <1>1 DEF CoordinatorInv, AtMostOnce, QualifyingIsBacked
    <2> QED
      BY <1>1, <2>2, <2>3, <2>4, <2>5, <2>6 DEF CoordinatorInv, InOrder
  <1> QED
    BY <1>5, <1>6, <1>7 DEF FileNames

\* The transaction is sent from a slot that never sent one.
LEMMA SubmitStep ==
  ASSUME CoordinatorInv, Submit
  PROVE  CoordinatorInv'
  <1>1. /\ UNCHANGED <<journal, files, issuedAt, locks, remote, clock, unreadable>>
        /\ UNCHANGED <<nowAt, plan, working, stops, exit>>
        /\ pc = "submit" /\ pc' = "acknowledge" /\ Attempt(working, "submissions")
    BY DEF Submit, InSlotProcess, Goto
  <1>2. pc \in Busy /\ pc \in SlotProcess /\ pc' \in Busy
    BY <1>1 DEF Busy, SlotProcess
  <1>3. working \in Slots /\ working \notin TerminalSlots(journal)
    BY <1>2, InHand
  <1>4. /\ effects' \in [Slots -> [EffectNames -> Nat]]
        /\ effects'[working]["submissions"] = effects[working]["submissions"] + 1
        /\ effects'[working]["transports"] = effects[working]["transports"]
        /\ effects'[working]["workerStarts"] = effects[working]["workerStarts"]
        /\ \A s \in Slots : s # working => effects'[s] = effects[s]
    BY <1>1, <1>3, Attempted DEF CoordinatorInv, EffectNames
  <1>5. Has(working, "reservation") /\ effects[working]["submissions"] = 0
    BY <1>1 DEF CoordinatorInv, HandKnows
  <1>6. TypeOK'
    BY <1>1, <1>4 DEF CoordinatorInv, TypeOK, ProgramCounters, SlotProcess
  <1>7. PlanInOrder' /\ PlanIsFresh' /\ WorkingIsOpen'
    BY <1>1, <1>2, HandKept
  <1>8. HandKnows'
    BY <1>1, <1>4, <1>5 DEF HandKnows, Advancing
  <1>9. ASSUME NEW s \in Slots PROVE FilesCover(s)'
    BY <1>1, <1>4, <1>5 DEF CoordinatorInv, FilesCover, Has
  <1>10. AtMostOnce'
    BY <1>4, <1>5 DEF CoordinatorInv, AtMostOnce, EffectNames
  <1>11. QualifyingIsBacked'
    <2>1. \A s \in TerminalSlots(journal) : s \in Slots
      BY DEF TerminalSlots
    <2> QED
      BY <1>1, <1>3, <1>4, <2>1, BackedKept
  <1> QED
    BY <1>1, <1>6, <1>7, <1>8, <1>9, <1>10, <1>11 DEF CoordinatorInv, InOrder

-----------------------------------------------------------------------------
(* The end of a slot.                                                      *)

\* The slot in hand gets its terminal event, or the coordinator stops.
LEMMA ConcludeStep ==
  ASSUME CoordinatorInv, pc \in Busy, NEW status \in Statuses,
         status = "QUALIFYING" => pc = "complete",
         AppendEvent(SlotTerminal(working, status, clock), "act"),
         UNCHANGED <<files, issuedAt, locks, unreadable, clock, effects, remote>>
  PROVE  CoordinatorInv'
  <1> DEFINE event == SlotTerminal(working, status, clock)
  <1>1. /\ working \in Slots /\ working \notin TerminalSlots(journal)
        /\ InOrder(journal) /\ TypeOK /\ clock \in Nat
    BY InHand DEF CoordinatorInv, TypeOK
  <1>2. Shaped(event) /\ event.slot = working /\ event.terminal_status = status
    BY <1>1, TerminalShaped DEF SlotTerminal
  <1> HIDE DEF event
  <1>3. (\A s \in Slots : FilesCover(s))' /\ AtMostOnce'
    BY DEF CoordinatorInv, FilesCover, Has, AtMostOnce
  <1>4. CASE ValidEvent(event, journal)
    <2>1. /\ journal' = Append(journal, event) /\ pc' = "act"
          /\ UNCHANGED <<nowAt, plan, working, stops, exit>>
      BY <1>4 DEF AppendEvent, Goto, event
    <2>2. InOrder(journal') /\ Started(journal')
      BY <1>1, <1>2, <1>4, <2>1, ValidKeepsOrder
    <2>3. /\ TerminalSlots(journal') = TerminalSlots(journal) \cup {working}
          /\ \A s, t : Concluded(journal', s, t) <=>
               Concluded(journal, s, t) \/ (s = working /\ t = status)
      BY <1>1, <1>2, <2>1, Appended DEF InOrder, Shaped
    <2>4. TypeOK'
      BY <1>1, <2>1, <2>2 DEF TypeOK, InOrder, ProgramCounters
    <2>5. PlanInOrder'
      BY <2>1 DEF CoordinatorInv, PlanInOrder
    <2>6. PlanIsFresh'
      BY <1>1, <2>1, <2>2, <2>3 DEF CoordinatorInv, PlanIsFresh, Has, Busy, SlotProcess, Advancing
    <2>7. WorkingIsOpen' /\ HandKnows'
      BY <2>1 DEF WorkingIsOpen, HandKnows, Busy, SlotProcess, Advancing
    <2>8. QualifyingIsBacked'
      <3>1. ASSUME NEW s \in Slots, Concluded(journal', s, "QUALIFYING")
            PROVE  /\ \A e \in EffectNames : effects[s][e] = 1
                   /\ {"receipt", "completion", "delivery"} \subseteq remote[s]
        <4>1. CASE Concluded(journal, s, "QUALIFYING")
          BY <4>1 DEF CoordinatorInv, QualifyingIsBacked
        <4>2. CASE s = working /\ status = "QUALIFYING"
          BY <4>2 DEF CoordinatorInv, HandKnows, FilesCover, EffectNames, Advancing
        <4> QED
          BY <2>3, <3>1, <4>1, <4>2
      <3> QED
        BY <3>1 DEF QualifyingIsBacked
    <2> QED
      BY <1>3, <2>2, <2>4, <2>5, <2>6, <2>7, <2>8 DEF CoordinatorInv
  <1>5. CASE ~ValidEvent(event, journal)
    <2>1. UNCHANGED journal /\ StopSafely("JOURNAL_REFUSED", "down")
      BY <1>5 DEF AppendEvent, event
    <2>2. PlanInOrder' /\ PlanIsFresh' /\ WorkingIsOpen' /\ HandKnows'
      BY <2>1, Stopped DEF StopSafely
    <2>3. TypeOK'
      BY <1>1, <2>1 DEF TypeOK, StopSafely, ProgramCounters
    <2> QED
      BY <2>1, <2>2, <2>3, EvidenceKept DEF CoordinatorInv
  <1> QED
    BY <1>4, <1>5

LEMMA InvalidStep ==
  ASSUME CoordinatorInv, pc \in Busy, MarkInvalid(working, "act"),
         UNCHANGED <<files, issuedAt, locks, unreadable, clock, effects, remote>>
  PROVE  CoordinatorInv'
  <1>1. AppendEvent(SlotTerminal(working, "INVALID", clock), "act")
    BY InHand DEF MarkInvalid
  <1> QED
    BY <1>1, ConcludeStep DEF Statuses

\* The pass goes on with the next slot.
LEMMA WaitStep ==
  ASSUME CoordinatorInv, pc \in Busy, Goto("act"),
         UNCHANGED <<journal, files, issuedAt, locks, unreadable, clock, effects, remote>>
  PROVE  CoordinatorInv'
  <1>1. pc' = "act" /\ UNCHANGED <<nowAt, plan, working, stops, exit>>
    BY DEF Goto
  <1>2. "act" \notin Busy /\ "act" \notin SlotProcess
    BY DEF Busy, SlotProcess, Advancing
  <1>3. PlanInOrder' /\ PlanIsFresh' /\ WorkingIsOpen'
    <2>1. \A s \in Slots : files[s] \subseteq files'[s]
      OBVIOUS
    <2> QED
      BY <1>1, <1>2, <2>1, HandKept
  <1>4. HandKnows'
    BY <1>1 DEF HandKnows, Advancing
  <1>5. TypeOK'
    BY <1>1 DEF CoordinatorInv, TypeOK, ProgramCounters
  <1> QED
    BY <1>3, <1>4, <1>5, EvidenceKept DEF CoordinatorInv

LEMMA NotObservedStep ==
  ASSUME CoordinatorInv, pc \in Busy, NotObserved,
         UNCHANGED <<files, issuedAt, locks, unreadable, clock, effects, remote>>
  PROVE  CoordinatorInv'
  BY InvalidStep, WaitStep DEF NotObserved

LEMMA SlotFailedStep ==
  ASSUME CoordinatorInv, SlotFailed
  PROVE  CoordinatorInv'
  BY InvalidStep DEF SlotFailed, worldVars, Busy

LEMMA CompleteStep ==
  ASSUME CoordinatorInv, Complete
  PROVE  CoordinatorInv'
  <1>1. pc \in Busy /\ pc = "complete"
    BY DEF Complete, InAdvance, Busy, Advancing
  <1>2. UNCHANGED <<files, issuedAt, locks, unreadable, clock, effects, remote>>
    BY DEF Complete, InAdvance
  <1>3. \/ AppendEvent(SlotTerminal(working, "QUALIFYING", clock), "act")
        \/ MarkInvalid(working, "act")
    BY DEF Complete, AppendEvent
  <1> QED
    BY <1>1, <1>2, <1>3, ConcludeStep, InvalidStep DEF Statuses

-----------------------------------------------------------------------------
(* An assignment on its way.                                               *)

\* A file of the slot in hand that goes before a side effect, or none.
LEMMA ReservationStep ==
  ASSUME CoordinatorInv, ReserveTransport \/ ReserveStart
  PROVE  CoordinatorInv'
  <1>1. /\ UNCHANGED <<journal, issuedAt, locks, effects, remote, clock, unreadable>>
        /\ UNCHANGED <<nowAt, plan, working, stops, exit>>
        /\ pc \in {"reserveTransport", "reserveStart"}
    BY DEF ReserveTransport, ReserveStart, InAdvance, Goto
  <1>2. /\ pc \in Busy
        /\ \/ UNCHANGED files /\ pc' = "reserveStart" /\ Has(working, "receipt")
           \/ UNCHANGED files /\ pc' = "receipt" /\ pc = "reserveTransport"
           \/ UNCHANGED files /\ pc' = "completion" /\ pc = "reserveStart"
           \/ /\ AddFile(working, "transportReserved") /\ ~Has(working, "transportReserved")
              /\ pc = "reserveTransport" /\ pc' = "transport"
           \/ /\ AddFile(working, "workerStartReserved") /\ ~Has(working, "workerStartReserved")
              /\ pc = "reserveStart" /\ pc' = "start"
    BY DEF ReserveTransport, ReserveStart, InAdvance, Goto, Busy, Advancing
  <1>3. /\ pc' \in {"reserveStart", "receipt", "completion", "transport", "start"}
        /\ pc' \in Busy /\ pc' \notin SlotProcess
    BY <1>2 DEF Busy, SlotProcess, Advancing
  <1>4. working \in Slots
    BY <1>2, InHand
  <1>5. CASE UNCHANGED files
    <2>1. PlanInOrder' /\ PlanIsFresh' /\ WorkingIsOpen'
      BY <1>1, <1>2, <1>3, <1>5, HandKept
    <2>2. TypeOK'
      BY <1>1, <1>3, <1>5 DEF CoordinatorInv, TypeOK, ProgramCounters, Advancing
    <2>3. /\ pc' \in {"reserveStart", "receipt", "completion"}
          /\ pc' # "receipt" => Has(working, "receipt")
      <3>1. \A file : AddFile(working, file) /\ UNCHANGED files => Has(working, file)
        BY <1>4 DEF AddFile, Has, CoordinatorInv, TypeOK
      <3> QED
        BY <1>2, <1>5, <3>1 DEF CoordinatorInv, HandKnows
    <2>4. HandKnows'
      <3>1. Has(working, "entry")
        BY <1>1 DEF CoordinatorInv, HandKnows, Advancing
      <3> QED
        BY <1>1, <1>5, <2>3, <3>1 DEF HandKnows, Has
    <2> QED
      BY <1>1, <1>5, <2>1, <2>2, <2>4, EvidenceKept DEF CoordinatorInv
  <1>6. ASSUME NEW file \in FileNames, AddFile(working, file), ~Has(working, file),
               \/ file = "transportReserved" /\ pc = "reserveTransport" /\ pc' = "transport"
               \/ file = "workerStartReserved" /\ pc = "reserveStart" /\ pc' = "start"
        PROVE  CoordinatorInv'
    <2>1. /\ files' \in [Slots -> SUBSET FileNames]
          /\ files'[working] = files[working] \cup {file}
          /\ \A s \in Slots : s # working => files'[s] = files[s]
          /\ \A s \in Slots : files[s] \subseteq files'[s]
      BY <1>4, <1>6, FileAdded DEF CoordinatorInv
    <2>2. TypeOK'
      BY <1>1, <1>3, <2>1 DEF CoordinatorInv, TypeOK, ProgramCounters, Advancing
    <2>3. PlanInOrder' /\ PlanIsFresh' /\ WorkingIsOpen'
      BY <1>1, <1>2, <1>3, <2>1, HandKept
    <2>4. HandKnows'
      <3>1. FilesCover(working)
        BY <1>4 DEF CoordinatorInv
      <3> QED
        BY <1>1, <1>6, <2>1, <3>1 DEF CoordinatorInv, HandKnows, FilesCover, Has, Advancing
    <2>5. ASSUME NEW s \in Slots PROVE FilesCover(s)'
      BY <1>1, <1>6, <2>1 DEF CoordinatorInv, FilesCover, Has
    <2>6. AtMostOnce' /\ QualifyingIsBacked'
      BY <1>1 DEF CoordinatorInv, AtMostOnce, QualifyingIsBacked
    <2> QED
      BY <1>1, <2>2, <2>3, <2>4, <2>5, <2>6 DEF CoordinatorInv, InOrder
  <1> QED
    BY <1>2, <1>5, <1>6 DEF FileNames

\* The assignment is carried over, or the worker started, for the first time.
LEMMA RemoteEffectStep ==
  ASSUME CoordinatorInv, Transport \/ StartWorker
  PROVE  CoordinatorInv'
  <1> DEFINE e == IF pc = "transport" THEN "transports" ELSE "workerStarts"
             fact == IF pc = "transport" THEN "receipt" ELSE "worker"
  <1>1. /\ UNCHANGED <<journal, files, issuedAt, locks, clock, unreadable>>
        /\ UNCHANGED <<nowAt, plan, working, stops, exit>>
        /\ \/ pc = "transport" /\ pc' = "receipt"
           \/ pc = "start" /\ pc' = "completion"
        /\ Attempt(working, e)
        /\ UNCHANGED remote \/ remote' = [remote EXCEPT ![working] = @ \cup {fact}]
    BY DEF Transport, StartWorker, InAdvance, Goto
  <1>2. pc \in Busy /\ pc' \in Busy /\ pc' \notin SlotProcess
    BY <1>1 DEF Busy, SlotProcess, Advancing
  <1>3. working \in Slots /\ working \notin TerminalSlots(journal)
    BY <1>2, InHand
  <1>4. e \in EffectNames /\ fact \in RemoteFacts
    BY DEF EffectNames, RemoteFacts
  <1>5. /\ effects' \in [Slots -> [EffectNames -> Nat]]
        /\ effects'[working][e] = effects[working][e] + 1
        /\ \A f \in EffectNames : f # e => effects'[working][f] = effects[working][f]
        /\ \A s \in Slots : s # working => effects'[s] = effects[s]
    BY <1>1, <1>3, <1>4, Attempted DEF CoordinatorInv
  <1>6. /\ remote' \in [Slots -> SUBSET RemoteFacts]
        /\ remote'[working] \in {remote[working], remote[working] \cup {fact}}
        /\ \A s \in Slots : s # working => remote'[s] = remote[s]
        /\ \A s \in Slots : remote[s] \subseteq remote'[s]
    <2>1. remote \in [Slots -> SUBSET RemoteFacts]
      BY DEF CoordinatorInv, TypeOK
    <2> HIDE DEF e, fact
    <2>2. CASE UNCHANGED remote
      BY <2>1, <2>2
    <2>3. CASE remote' = [remote EXCEPT ![working] = @ \cup {fact}]
      <3>1. remote[working] \cup {fact} \in SUBSET RemoteFacts
        BY <1>3, <1>4, <2>1
      <3> QED
        BY <1>3, <2>1, <2>3, <3>1
    <2> QED
      BY <1>1, <2>2, <2>3
  <1>7. /\ effects[working][e] = 0 /\ Has(working, "entry")
        /\ pc = "transport" => Has(working, "transportReserved")
        /\ pc = "start" => Has(working, "workerStartReserved") /\ Has(working, "receipt")
    BY <1>1 DEF CoordinatorInv, HandKnows, Advancing
  <1>8. TypeOK'
    BY <1>1, <1>5, <1>6 DEF CoordinatorInv, TypeOK, ProgramCounters, Advancing
  <1>9. PlanInOrder' /\ PlanIsFresh' /\ WorkingIsOpen'
    BY <1>1, <1>2, HandKept
  <1>10. HandKnows'
    BY <1>1, <1>7 DEF HandKnows, Has
  <1>11. ASSUME NEW s \in Slots PROVE FilesCover(s)'
    <2>1. FilesCover(s)
      BY DEF CoordinatorInv
    <2>2. CASE s # working
      BY <1>1, <1>5, <1>6, <2>1, <2>2 DEF FilesCover, Has
    <2>3. CASE s = working /\ pc = "transport"
      BY <1>1, <1>5, <1>6, <1>7, <2>1, <2>3 DEF FilesCover, Has, EffectNames
    <2>4. CASE s = working /\ pc = "start"
      BY <1>1, <1>5, <1>6, <1>7, <2>1, <2>4 DEF FilesCover, Has, EffectNames
    <2> QED
      BY <1>1, <2>2, <2>3, <2>4
  <1>12. AtMostOnce'
    BY <1>4, <1>5, <1>7 DEF CoordinatorInv, AtMostOnce
  <1>13. QualifyingIsBacked'
    <2>1. \A s \in TerminalSlots(journal) : s \in Slots
      BY DEF TerminalSlots
    <2> QED
      BY <1>1, <1>3, <1>5, <1>6, <2>1, BackedKept
  <1> QED
    BY <1>1, <1>8, <1>9, <1>10, <1>11, <1>12, <1>13 DEF CoordinatorInv, InOrder

\* The receipt is copied, or nothing is there yet.
LEMMA ReceiptStep ==
  ASSUME CoordinatorInv, ObserveReceipt
  PROVE  CoordinatorInv'
  <1>1. /\ UNCHANGED <<issuedAt, locks, unreadable, clock, effects, remote>>
        /\ pc = "receipt" /\ pc \in Busy
    BY DEF ObserveReceipt, InAdvance, Busy, Advancing
  <1>2. CASE NotObserved /\ UNCHANGED files
    BY <1>1, <1>2, NotObservedStep
  <1>3. CASE /\ "receipt" \in remote[working] /\ AddFile(working, "receipt")
             /\ Goto("reserveStart") /\ UNCHANGED journal
    <2>1. /\ pc' = "reserveStart" /\ UNCHANGED <<journal, nowAt, plan, working, stops, exit>>
          /\ pc' \in Busy /\ pc' \notin SlotProcess
      BY <1>3 DEF Goto, Busy, SlotProcess, Advancing
    <2>2. working \in Slots /\ Has(working, "entry")
      BY <1>1, InHand DEF CoordinatorInv, HandKnows, Advancing
    <2>3. /\ files' \in [Slots -> SUBSET FileNames]
          /\ files'[working] = files[working] \cup {"receipt"}
          /\ \A s \in Slots : s # working => files'[s] = files[s]
          /\ \A s \in Slots : files[s] \subseteq files'[s]
      BY <1>3, <2>2, FileAdded DEF CoordinatorInv, FileNames
    <2>4. TypeOK'
      BY <1>1, <2>1, <2>3 DEF CoordinatorInv, TypeOK, ProgramCounters, Advancing
    <2>5. PlanInOrder' /\ PlanIsFresh' /\ WorkingIsOpen'
      BY <1>1, <2>1, <2>3, HandKept
    <2>6. HandKnows'
      BY <2>1, <2>2, <2>3 DEF HandKnows, Has
    <2>7. ASSUME NEW s \in Slots PROVE FilesCover(s)'
      BY <1>1, <1>3, <2>3 DEF CoordinatorInv, FilesCover, Has
    <2>8. AtMostOnce' /\ QualifyingIsBacked'
      BY <1>1, <2>1 DEF CoordinatorInv, AtMostOnce, QualifyingIsBacked
    <2> QED
      BY <2>1, <2>4, <2>5, <2>6, <2>7, <2>8 DEF CoordinatorInv, InOrder
  <1> QED
    BY <1>2, <1>3 DEF ObserveReceipt

\* Completion and delivery are both there, or nothing is there yet.
LEMMA CompletionStep ==
  ASSUME CoordinatorInv, ObserveCompletion
  PROVE  CoordinatorInv'
  <1>1. /\ UNCHANGED <<files, issuedAt, locks, unreadable, clock, effects, remote>>
        /\ pc = "completion" /\ pc \in Busy
    BY DEF ObserveCompletion, InAdvance, Busy, Advancing
  <1>2. CASE NotObserved
    BY <1>1, <1>2, NotObservedStep
  <1>3. CASE /\ {"completion", "delivery"} \subseteq remote[working]
             /\ Goto("complete") /\ UNCHANGED journal
    <2>1. /\ pc' = "complete" /\ UNCHANGED <<journal, nowAt, plan, working, stops, exit>>
          /\ pc' \in Busy /\ pc' \notin SlotProcess
      BY <1>3 DEF Goto, Busy, SlotProcess, Advancing
    <2>2. PlanInOrder' /\ PlanIsFresh' /\ WorkingIsOpen'
      BY <1>1, <2>1, HandKept
    <2>3. HandKnows'
      <3>1. Has(working, "entry") /\ Has(working, "receipt")
        BY <1>1 DEF CoordinatorInv, HandKnows, Advancing
      <3> QED
        BY <1>1, <1>3, <2>1, <3>1 DEF HandKnows, Has
    <2>4. TypeOK'
      BY <1>1, <2>1 DEF CoordinatorInv, TypeOK, ProgramCounters, Advancing
    <2> QED
      BY <1>1, <2>1, <2>2, <2>3, <2>4, EvidenceKept DEF CoordinatorInv
  <1> QED
    BY <1>2, <1>3 DEF ObserveCompletion

-----------------------------------------------------------------------------
(* The passes.                                                             *)

\* A pass begins with a plan over slots that are open.
LEMMA MakePlanStep ==
  ASSUME CoordinatorInv, MakePlan
  PROVE  CoordinatorInv'
  <1>1. /\ UNCHANGED <<journal, files, issuedAt, locks, unreadable, clock, effects, remote>>
        /\ pc = "reconcile" /\ clock \in Nat
    BY DEF MakePlan, diskVars, worldVars, CoordinatorInv, TypeOK
  <1>2. CASE StopSafely("ACTIVE_AMBIGUOUS", "down")
    <2>1. PlanInOrder' /\ PlanIsFresh' /\ WorkingIsOpen' /\ HandKnows'
      BY <1>2, Stopped DEF StopSafely
    <2>2. TypeOK'
      BY <1>1, <1>2 DEF CoordinatorInv, TypeOK, StopSafely, ProgramCounters
    <2> QED
      BY <1>1, <2>1, <2>2, EvidenceKept DEF CoordinatorInv
  <1>3. CASE /\ pc' = "act" /\ nowAt' = clock
             /\ plan' = PlannedSteps(journal, clock, Active) \cup {AdvanceActive}
             /\ UNCHANGED <<working, stops, exit>>
    <2> DEFINE missing == MissingSlots(journal, clock)
               executable == ExecutableSlots(journal, clock, Active)
    <2>1. NumSlots \in Nat \ {0} /\ NoSlot \notin Slots /\ NumSlots + 1 \notin Slots
      BY ScheduleAssumption DEF ValidSchedule, NoSlot, Slots
    <2>2. /\ missing \subseteq Slots \ TerminalSlots(journal)
          /\ executable \subseteq Slots \ TerminalSlots(journal)
          /\ missing \cap executable = {}
      BY DEF MissingSlots, ExecutableSlots, DueSlots
    <2>3. ASSUME NEW step \in plan'
          PROVE  \/ step = Step("START_WINDOW", NoSlot) /\ plan' = {step, AdvanceActive}
                 \/ step = Step("END_WINDOW", NoSlot) /\ plan' = {step, AdvanceActive}
                 \/ step = AdvanceActive
                 \/ /\ \/ \E s \in missing : step = Step("RECORD_MISSING", s)
                       \/ \E s \in executable : step = Step("EXECUTE_SLOT", s)
                    /\ Started(journal)
      <3>1. CASE StartIsDue(journal, clock)
        BY <1>3, <3>1 DEF PlannedSteps
      <3>2. CASE ~StartIsDue(journal, clock) /\ ~Started(journal)
        BY <1>3, <3>2 DEF PlannedSteps
      <3>3. CASE ~StartIsDue(journal, clock) /\ Started(journal) /\ EndIsDue(journal, clock, Active)
        BY <1>3, <3>3 DEF PlannedSteps
      <3>4. CASE ~StartIsDue(journal, clock) /\ Started(journal) /\ ~EndIsDue(journal, clock, Active)
        <4>1. plan' = ({Step("RECORD_MISSING", s) : s \in missing}
                         \cup {Step("EXECUTE_SLOT", s) : s \in executable}) \cup {AdvanceActive}
          BY <1>3, <3>4 DEF PlannedSteps
        <4> HIDE DEF missing, executable
        <4> QED
          BY <3>4, <4>1
      <3> QED
        BY <3>1, <3>2, <3>3, <3>4
    <2> HIDE DEF missing, executable
    <2>4. PlanInOrder'
      <3>1. \A step \in plan' : \E type \in StepTypes, s \in 0..(NumSlots + 1) : step = Step(type, s)
        <4>1. Slots \subseteq 0..(NumSlots + 1) /\ {NoSlot, NumSlots + 1} \subseteq 0..(NumSlots + 1)
          BY <2>1 DEF Slots, NoSlot
        <4> QED
          BY <2>2, <2>3, <4>1 DEF StepTypes, AdvanceActive
      <3>2. ASSUME NEW step \in plan', NEW other \in plan', step.slot = other.slot
            PROVE  step = other
        <4>1. \A type, s : Step(type, s).slot = s
          BY DEF Step
        <4>2. NoSlot # NumSlots + 1 /\ AdvanceActive.slot = NumSlots + 1
          BY <2>1, <4>1 DEF AdvanceActive, NoSlot
        <4>3. CASE \/ step \in {Step("START_WINDOW", NoSlot), Step("END_WINDOW", NoSlot)}
                   \/ other \in {Step("START_WINDOW", NoSlot), Step("END_WINDOW", NoSlot)}
          <5>1. \E first : plan' = {first, AdvanceActive} /\ first.slot = NoSlot
            BY <2>1, <2>2, <2>3, <4>1, <4>2, <4>3
          <5> QED
            BY <3>2, <4>2, <5>1
        <4>4. ASSUME step \notin {Step("START_WINDOW", NoSlot), Step("END_WINDOW", NoSlot)},
                     other \notin {Step("START_WINDOW", NoSlot), Step("END_WINDOW", NoSlot)}
              PROVE  step = other
          <5>1. \A x \in {step, other} :
                  \/ x = AdvanceActive
                  \/ x = Step("RECORD_MISSING", x.slot) /\ x.slot \in missing
                  \/ x = Step("EXECUTE_SLOT", x.slot) /\ x.slot \in executable
            BY <2>3, <4>1, <4>4
          <5>2. NumSlots + 1 \notin missing /\ NumSlots + 1 \notin executable
            BY <2>1, <2>2
          <5> QED
            BY <2>2, <3>2, <4>2, <5>1, <5>2
        <4> QED
          BY <4>3, <4>4
      <3> QED
        BY <1>3, <3>1, <3>2 DEF PlanInOrder
    <2>5. "act" \notin Busy /\ "act" \notin SlotProcess /\ "act" \notin Advancing
      BY DEF Busy, SlotProcess, Advancing
    <2>6. PlanIsFresh'
      BY <1>1, <1>3, <2>2, <2>3, <2>5 DEF PlanIsFresh, Step, AdvanceActive, SlotSteps
    <2>7. WorkingIsOpen' /\ HandKnows'
      BY <1>3, <2>5 DEF WorkingIsOpen, HandKnows
    <2>8. TypeOK'
      <3>1. \A step \in plan' : step.slot \in 0..(NumSlots + 1)
        BY <2>4 DEF PlanInOrder, Step
      <3> QED
        BY <1>1, <1>3, <3>1 DEF CoordinatorInv, TypeOK, ProgramCounters
    <2> QED
      BY <1>1, <2>4, <2>6, <2>7, <2>8, EvidenceKept DEF CoordinatorInv
  <1> QED
    BY <1>2, <1>3 DEF MakePlan

\* A pass that has nothing to do, or is over.
LEMMA IdleStep ==
  ASSUME CoordinatorInv,
         \/ Finish \/ BlockStart \/ RefuseTornFile \/ EndPass \/ Restart
         \/ \E tears \in BOOLEAN : Crash(tears)
  PROVE  CoordinatorInv'
  <1>1. /\ UNCHANGED <<journal, files, issuedAt, locks, clock, effects, remote>>
        /\ pc' \in {"ended", "blocked", "reconcile", "down"} /\ plan' = {}
        /\ nowAt' \in {0, nowAt} /\ working' \in {NoSlot, working} /\ stops' \in {stops, stops + 1}
        /\ unreadable' \in BOOLEAN
    <2>1. pc \in {"reconcile", "down"} => plan = {}
      BY DEF CoordinatorInv, PlanInOrder, Busy, SlotProcess, Advancing
    <2>2. unreadable \in BOOLEAN
      BY DEF CoordinatorInv, TypeOK
    <2>3. CASE Finish \/ BlockStart \/ RefuseTornFile \/ EndPass \/ Restart
      BY <2>1, <2>2, <2>3
         DEF Finish, BlockStart, RefuseTornFile, EndPass, Restart, Goto, StopSafely,
             diskVars, worldVars
    <2>4. ASSUME NEW tears \in BOOLEAN, Crash(tears)
          PROVE  /\ UNCHANGED <<journal, files, issuedAt, locks, clock, effects, remote>>
                 /\ pc' = "down" /\ plan' = {} /\ nowAt' = 0 /\ working' = NoSlot
                 /\ stops' = stops + 1 /\ unreadable' = (unreadable \/ tears)
      BY <2>4 DEF Crash, worldVars
    <2> QED
      BY <2>2, <2>3, <2>4
  <1>2. TypeOK'
    BY <1>1 DEF CoordinatorInv, TypeOK, ProgramCounters
  <1> QED
    BY <1>1, <1>2, Stopped, EvidenceKept DEF CoordinatorInv

\* The coordinator takes a slot in hand.
LEMMA TakeStep ==
  ASSUME CoordinatorInv, ExecuteSlot \/ Advance
  PROVE  CoordinatorInv'
  <1>1. PICK step \in plan : /\ step.type \in {"EXECUTE_SLOT", "ADVANCE"}
                             /\ plan' = plan \ {step} /\ working' = step.slot
                             /\ \/ pc' = "openSequence" /\ step.type = "EXECUTE_SLOT"
                                \/ pc' = "reserveTransport" /\ Has(step.slot, "entry")
    BY DEF ExecuteSlot, Advance, Take, NextStep, CoordinatorInv, PlanIsFresh
  <1>2. /\ UNCHANGED <<journal, files, issuedAt, locks, unreadable, clock, effects, remote>>
        /\ UNCHANGED <<nowAt, stops, exit>> /\ pc = "act"
    BY DEF ExecuteSlot, Advance, Take, diskVars, worldVars
  <1>3. /\ step.slot \in Slots \ TerminalSlots(journal)
        /\ step.type = "EXECUTE_SLOT" => Started(journal)
        /\ \A other \in plan' : other.slot # step.slot
    BY <1>1 DEF CoordinatorInv, PlanIsFresh, PlanInOrder, SlotSteps
  <1>4. /\ pc' \in Busy /\ pc' \in {"openSequence", "reserveTransport"}
        /\ pc' \in SlotProcess => step.type = "EXECUTE_SLOT"
    BY <1>1 DEF Busy, SlotProcess, Advancing
  <1>5. PlanInOrder'
    BY <1>1, <1>4 DEF CoordinatorInv, PlanInOrder
  <1>6. PlanIsFresh'
    BY <1>1, <1>2, <1>3 DEF CoordinatorInv, PlanIsFresh, Has
  <1>7. WorkingIsOpen'
    BY <1>1, <1>2, <1>3, <1>4 DEF WorkingIsOpen
  <1>8. HandKnows'
    BY <1>1, <1>2 DEF HandKnows, Has, Advancing
  <1>9. TypeOK'
    BY <1>1, <1>2, <1>3, <1>4 DEF CoordinatorInv, TypeOK, ProgramCounters, SlotProcess, Advancing
  <1> QED
    BY <1>2, <1>5, <1>6, <1>7, <1>8, <1>9, EvidenceKept DEF CoordinatorInv

\* What is active is to be advanced.
LEMMA ListActiveStep ==
  ASSUME CoordinatorInv, ListActive
  PROVE  CoordinatorInv'
  <1>1. /\ UNCHANGED <<journal, files, issuedAt, locks, unreadable, clock, effects, remote>>
        /\ UNCHANGED <<pc, nowAt, working, stops, exit>> /\ pc = "act"
        /\ \A step \in plan' : \E s \in Active : step = Step("ADVANCE", s)
    BY DEF ListActive, diskVars, worldVars
  <1>2. "act" \notin Busy
    BY DEF Busy, SlotProcess, Advancing
  <1>3. \A s \in Active : s \in Slots \ TerminalSlots(journal) /\ Has(s, "entry")
    BY DEF Active
  <1>4. Slots \subseteq 0..(NumSlots + 1)
    BY ScheduleAssumption DEF ValidSchedule, Slots
  <1>5. PlanInOrder'
    <2>1. \A step \in plan' : \E type \in StepTypes, s \in 0..(NumSlots + 1) : step = Step(type, s)
      BY <1>1, <1>3, <1>4 DEF StepTypes
    <2>2. \A step, other \in plan' : step.slot = other.slot => step = other
      BY <1>1 DEF Step
    <2> QED
      BY <1>1, <2>1, <2>2 DEF PlanInOrder
  <1>6. PlanIsFresh'
    BY <1>1, <1>2, <1>3 DEF PlanIsFresh, Step, Has
  <1>7. WorkingIsOpen' /\ HandKnows'
    BY <1>1 DEF CoordinatorInv, WorkingIsOpen, HandKnows, Has
  <1>8. TypeOK'
    <2>1. \A s \in Active : Step("ADVANCE", s).slot = s /\ s \in 0..(NumSlots + 1)
      BY <1>3, <1>4 DEF Step
    <2>2. \A step \in plan' : step.slot \in 0..(NumSlots + 1)
      BY <1>1, <2>1
    <2> QED
      BY <1>1, <2>2 DEF CoordinatorInv, TypeOK
  <1> QED
    BY <1>1, <1>5, <1>6, <1>7, <1>8, EvidenceKept DEF CoordinatorInv

-----------------------------------------------------------------------------
(* Events of the plan, reconciliation, and the rest of the world.          *)

\* A step of the plan that appends an event, of its own slot or of none.
LEMMA RecordStep ==
  ASSUME CoordinatorInv, pc = "act", NEW step \in plan, NEW event, Shaped(event),
         event.slot \in Slots => event.slot = step.slot,
         event.terminal_status # "QUALIFYING",
         Record(step, event), UNCHANGED <<files, issuedAt, locks, unreadable>>,
         UNCHANGED worldVars
  PROVE  CoordinatorInv'
  <1>1. InOrder(journal) /\ TypeOK /\ "act" \notin Busy /\ event \in Event
    BY DEF CoordinatorInv, Busy, SlotProcess, Advancing, Shaped
  <1>2. CASE ValidEvent(event, journal)
    <2>1. /\ journal' = Append(journal, event) /\ plan' = plan \ {step}
          /\ UNCHANGED <<pc, nowAt, working, stops, exit>>
      BY <1>2 DEF Record
    <2>2. InOrder(journal') /\ Started(journal')
      BY <1>1, <1>2, <2>1, ValidKeepsOrder
    <2>3. /\ TerminalSlots(journal') = TerminalSlots(journal) \cup ({event.slot} \cap Slots)
          /\ \A s \in Slots : Concluded(journal', s, "QUALIFYING") <=> Concluded(journal, s, "QUALIFYING")
      BY <1>1, <2>1, Appended DEF InOrder
    <2>4. TypeOK'
      BY <1>1, <2>1, <2>2 DEF TypeOK, InOrder, worldVars
    <2>5. PlanInOrder'
      BY <2>1 DEF CoordinatorInv, PlanInOrder
    <2>6. PlanIsFresh'
      <3>1. \A other \in plan' : other \in plan /\ other.slot # step.slot
        BY <2>1 DEF CoordinatorInv, PlanInOrder
      <3> QED
        BY <1>1, <2>1, <2>2, <2>3, <3>1 DEF CoordinatorInv, PlanIsFresh, Has
    <2>7. WorkingIsOpen' /\ HandKnows'
      BY <2>1 DEF WorkingIsOpen, HandKnows, Busy, SlotProcess, Advancing
    <2>8. (\A s \in Slots : FilesCover(s))' /\ AtMostOnce'
      BY DEF CoordinatorInv, FilesCover, Has, AtMostOnce, worldVars
    <2>9. QualifyingIsBacked'
      BY <2>3 DEF CoordinatorInv, QualifyingIsBacked, worldVars
    <2> QED
      BY <2>2, <2>4, <2>5, <2>6, <2>7, <2>8, <2>9 DEF CoordinatorInv
  <1>3. CASE ~ValidEvent(event, journal)
    <2>1. UNCHANGED journal /\ StopSafely("JOURNAL_REFUSED", "down")
      BY <1>3 DEF Record
    <2>2. PlanInOrder' /\ PlanIsFresh' /\ WorkingIsOpen' /\ HandKnows'
      BY <2>1, Stopped DEF StopSafely
    <2>3. TypeOK'
      BY <1>1, <2>1 DEF TypeOK, StopSafely, ProgramCounters, worldVars
    <2> QED
      BY <2>1, <2>2, <2>3, EvidenceKept DEF CoordinatorInv, worldVars
  <1> QED
    BY <1>2, <1>3

LEMMA PlannedEventStep ==
  ASSUME CoordinatorInv, StartWindow \/ RecordMissing \/ EndWindow
  PROVE  CoordinatorInv'
  <1>1. /\ pc = "act" /\ nowAt \in Nat
        /\ UNCHANGED <<files, issuedAt, locks, unreadable>> /\ UNCHANGED worldVars
    BY DEF StartWindow, RecordMissing, EndWindow, CoordinatorInv, TypeOK
  <1>2. CASE StartWindow \/ EndWindow
    <2>1. PICK step \in plan : Record(step, WindowStarted(nowAt)) \/ Record(step, WindowEnded(nowAt))
      BY <1>2 DEF StartWindow, EndWindow, NextStep
    <2>2. NoSlot \notin Slots
      BY ScheduleAssumption DEF ValidSchedule, NoSlot, Slots
    <2>3. Shaped(WindowStarted(nowAt)) /\ Shaped(WindowEnded(nowAt))
      BY <1>1, WindowEventsShaped
    <2>4. CASE Record(step, WindowStarted(nowAt))
      <3>1. /\ WindowStarted(nowAt).slot \notin Slots
            /\ WindowStarted(nowAt).terminal_status # "QUALIFYING"
        BY <2>2 DEF WindowStarted
      <3> QED
        BY <1>1, <2>3, <2>4, <3>1, RecordStep
    <2>5. CASE Record(step, WindowEnded(nowAt))
      <3>1. /\ WindowEnded(nowAt).slot \notin Slots
            /\ WindowEnded(nowAt).terminal_status # "QUALIFYING"
        BY <2>2 DEF WindowEnded
      <3> QED
        BY <1>1, <2>3, <2>5, <3>1, RecordStep
    <2> QED
      BY <2>1, <2>4, <2>5
  <1>3. CASE RecordMissing
    <2>1. PICK step \in plan : /\ step.type = "RECORD_MISSING"
                               /\ Record(step, SlotTerminal(step.slot, "MISSING", nowAt))
      BY <1>3 DEF RecordMissing, NextStep
    <2>2. step.slot \in Slots
      BY <2>1 DEF CoordinatorInv, PlanIsFresh, SlotSteps
    <2> DEFINE event == SlotTerminal(step.slot, "MISSING", nowAt)
    <2>3. Shaped(event) /\ event.slot = step.slot /\ event.terminal_status # "QUALIFYING"
      BY <1>1, <2>2, TerminalShaped DEF SlotTerminal, Statuses
    <2> QED
      BY <1>1, <2>1, <2>3, RecordStep
  <1> QED
    BY <1>2, <1>3

\* What a pass finds half done gets its entry, or is given up.
LEMMA ReconcileStep ==
  ASSUME CoordinatorInv, NEW s \in Slots, Reconcile(s)
  PROVE  CoordinatorInv'
  <1>1. /\ pc = "reconcile" /\ Unreconciled(s) /\ plan = {}
        /\ UNCHANGED <<issuedAt, locks, unreadable, clock, effects, remote>>
    BY DEF Reconcile, worldVars, CoordinatorInv, PlanInOrder, Busy, SlotProcess, Advancing
  <1>2. InOrder(journal) /\ TypeOK /\ clock \in Nat
    BY DEF CoordinatorInv, TypeOK
  <1>3. CASE Has(s, "assignment")
    <2>1. /\ AddFile(s, "entry") /\ UNCHANGED journal
          /\ pc' = "reconcile" /\ UNCHANGED <<nowAt, plan, working, stops, exit>>
      BY <1>3, <1>1 DEF Reconcile, Goto
    <2>2. PlanInOrder' /\ PlanIsFresh' /\ WorkingIsOpen' /\ HandKnows'
      BY <1>1, <2>1, Stopped
    <2>3. /\ files' \in [Slots -> SUBSET FileNames]
          /\ files'[s] = files[s] \cup {"entry"}
          /\ \A t \in Slots : t # s => files'[t] = files[t]
      BY <1>2, <2>1 DEF TypeOK, AddFile, FileNames
    <2>4. TypeOK'
      BY <1>1, <1>2, <2>1, <2>3 DEF TypeOK
    <2>5. ASSUME NEW t \in Slots PROVE FilesCover(t)'
      BY <1>1, <1>3, <2>3 DEF CoordinatorInv, FilesCover, Has
    <2>6. AtMostOnce' /\ QualifyingIsBacked'
      BY <1>1, <2>1 DEF CoordinatorInv, AtMostOnce, QualifyingIsBacked
    <2> QED
      BY <1>2, <2>1, <2>2, <2>4, <2>5, <2>6 DEF CoordinatorInv, InOrder
  <1>4. CASE ~Has(s, "assignment")
    <2> DEFINE event == SlotTerminal(s, "INVALID", clock)
    <2>1. AppendEvent(event, "reconcile") /\ UNCHANGED files
      BY <1>1, <1>4 DEF Reconcile, MarkInvalid, Unreconciled
    <2>2. /\ Shaped(event) /\ event \in Event /\ event.slot = s
          /\ event.terminal_status = "INVALID"
      BY <1>2, TerminalShaped DEF Statuses, SlotTerminal, Shaped
    <2> HIDE DEF event
    <2>3. /\ plan' = {} /\ pc' \in {"reconcile", "down"}
          /\ nowAt' \in {0, nowAt} /\ working' \in {NoSlot, working} /\ stops' \in {stops, stops + 1}
          /\ \/ journal' = Append(journal, event) /\ ValidEvent(event, journal)
             \/ UNCHANGED journal
      BY <1>1, <2>1 DEF AppendEvent, Goto, StopSafely
    <2>4. PlanInOrder' /\ PlanIsFresh' /\ WorkingIsOpen' /\ HandKnows'
      BY <2>3, Stopped
    <2>5. InOrder(journal')
      BY <1>2, <2>2, <2>3, ValidKeepsOrder
    <2>6. \A t \in Slots : Concluded(journal', t, "QUALIFYING") => Concluded(journal, t, "QUALIFYING")
      <3>1. CASE UNCHANGED journal
        BY <3>1
      <3>2. CASE journal' = Append(journal, event)
        <4>1. journal \in Seq(Event)
          BY <1>2 DEF InOrder
        <4>2. \A t \in Slots : Concluded(Append(journal, event), t, "QUALIFYING") <=>
                Concluded(journal, t, "QUALIFYING")
                \/ (event.slot = t /\ event.terminal_status = "QUALIFYING")
          BY <2>2, <4>1, Appended
        <4> QED
          BY <2>2, <3>2, <4>2
      <3> QED
        BY <2>3, <3>1, <3>2
    <2>7. TypeOK'
      BY <1>1, <1>2, <2>1, <2>3, <2>5 DEF TypeOK, InOrder, ProgramCounters
    <2>8. (\A t \in Slots : FilesCover(t))' /\ AtMostOnce'
      BY <1>1, <2>1 DEF CoordinatorInv, FilesCover, Has, AtMostOnce
    <2>9. QualifyingIsBacked'
      BY <1>1, <2>6 DEF CoordinatorInv, QualifyingIsBacked
    <2> QED
      BY <2>4, <2>5, <2>7, <2>8, <2>9 DEF CoordinatorInv
  <1> QED
    BY <1>3, <1>4

\* The observer host goes on.
LEMMA RemoteStep ==
  ASSUME CoordinatorInv, NEW s \in Slots, RemoteProgress(s)
  PROVE  CoordinatorInv'
  <1>1. PICK fact \in {"completion", "delivery"} :
          remote' = [remote EXCEPT ![s] = @ \cup {fact}]
    BY DEF RemoteProgress
  <1>2. /\ UNCHANGED <<journal, files, issuedAt, locks, unreadable, clock, effects>>
        /\ UNCHANGED <<pc, nowAt, plan, working, stops, exit>>
        /\ "worker" \in remote[s]
    BY DEF RemoteProgress, diskVars, processVars
  <1>3. /\ remote' \in [Slots -> SUBSET RemoteFacts]
        /\ remote'[s] = remote[s] \cup {fact}
        /\ \A t \in Slots : t # s => remote'[t] = remote[t]
        /\ \A t \in Slots : remote[t] \subseteq remote'[t]
    <2>1. remote \in [Slots -> SUBSET RemoteFacts]
      BY DEF CoordinatorInv, TypeOK
    <2> QED
      BY <1>1, <2>1 DEF RemoteFacts
  <1>4. TypeOK'
    BY <1>2, <1>3 DEF CoordinatorInv, TypeOK
  <1>5. PlanInOrder' /\ PlanIsFresh' /\ WorkingIsOpen'
    BY <1>2 DEF CoordinatorInv, PlanInOrder, PlanIsFresh, WorkingIsOpen, Has
  <1>6. HandKnows'
    <2>1. pc = "complete" => working \in Slots
      BY InHand DEF Busy, Advancing
    <2> QED
      BY <1>2, <1>3, <2>1 DEF CoordinatorInv, HandKnows, Has
  <1>7. ASSUME NEW t \in Slots PROVE FilesCover(t)'
    BY <1>2, <1>3 DEF CoordinatorInv, FilesCover, Has
  <1>8. AtMostOnce'
    BY <1>2 DEF CoordinatorInv, AtMostOnce
  <1>9. QualifyingIsBacked'
    BY <1>2, <1>3 DEF CoordinatorInv, QualifyingIsBacked
  <1> QED
    BY <1>2, <1>4, <1>5, <1>6, <1>7, <1>8, <1>9 DEF CoordinatorInv, InOrder

\* Time passes, or nothing does.
LEMMA TickStep ==
  ASSUME CoordinatorInv, Tick \/ UNCHANGED vars
  PROVE  CoordinatorInv'
  <1>1. /\ UNCHANGED <<journal, files, issuedAt, locks, unreadable, effects, remote>>
        /\ UNCHANGED <<pc, nowAt, plan, working, stops, exit>>
        /\ clock' \in {clock, clock + 1}
    BY DEF Tick, vars, diskVars, worldVars, processVars
  <1>2. TypeOK' /\ PlanInOrder' /\ PlanIsFresh' /\ WorkingIsOpen' /\ HandKnows'
    BY <1>1 DEF CoordinatorInv, TypeOK, PlanInOrder, PlanIsFresh, WorkingIsOpen, HandKnows, Has
  <1> QED
    BY <1>1, <1>2, EvidenceKept DEF CoordinatorInv

-----------------------------------------------------------------------------
(* The theorems.                                                           *)

LEMMA InitEstablishes == Init => CoordinatorInv
  <1> SUFFICES ASSUME Init PROVE CoordinatorInv
    OBVIOUS
  <1>1. journal = <<>> /\ pc = "reconcile" /\ plan = {}
    BY DEF Init
  <1>2. "reconcile" \notin Busy /\ "reconcile" \notin SlotProcess /\ "reconcile" \notin Advancing
    BY DEF Busy, SlotProcess, Advancing
  <1>3. TypeOK
    <2>1. clock \in Nat /\ nowAt \in Nat /\ stops \in Nat /\ journal \in Seq(Event)
      BY DEF Init
    <2>2. issuedAt \in [Slots -> Nat] /\ files \in [Slots -> SUBSET FileNames]
      BY DEF Init
    <2>3. effects \in [Slots -> [EffectNames -> Nat]] /\ remote \in [Slots -> SUBSET RemoteFacts]
      BY DEF Init
    <2>4. /\ pc \in ProgramCounters /\ working \in Slots \cup {NoSlot} /\ plan = {}
          /\ locks \in SUBSET (Observers \cup {QuotaLock}) /\ unreadable \in BOOLEAN
      BY DEF Init, ProgramCounters
    <2> QED
      BY <2>1, <2>2, <2>3, <2>4 DEF TypeOK
  <1>4. InOrder(journal)
    BY <1>1 DEF InOrder, Ended
  <1>5. PlanInOrder /\ PlanIsFresh /\ WorkingIsOpen /\ HandKnows
    BY <1>1, <1>2 DEF PlanInOrder, PlanIsFresh, WorkingIsOpen, HandKnows
  <1>6. \A s \in Slots : FilesCover(s)
    BY DEF Init, FilesCover, Has, EffectNames
  <1>7. AtMostOnce /\ QualifyingIsBacked
    BY DEF Init, AtMostOnce, QualifyingIsBacked, Concluded
  <1> QED
    BY <1>3, <1>4, <1>5, <1>6, <1>7 DEF CoordinatorInv

LEMMA NextPreserves == CoordinatorInv /\ [Next]_vars => CoordinatorInv'
  <1> SUFFICES ASSUME CoordinatorInv, [Next]_vars PROVE CoordinatorInv'
    OBVIOUS
  <1>1. CASE \E s \in Slots : Reconcile(s)
    BY <1>1, ReconcileStep
  <1>2. CASE MakePlan
    BY <1>2, MakePlanStep
  <1>3. CASE \/ Finish \/ BlockStart \/ RefuseTornFile \/ EndPass \/ Restart
             \/ \E tears \in BOOLEAN : Crash(tears)
    BY <1>3, IdleStep
  <1>4. CASE StartWindow \/ RecordMissing \/ EndWindow
    BY <1>4, PlannedEventStep
  <1>5. CASE ExecuteSlot \/ Advance
    BY <1>5, TakeStep
  <1>6. CASE ListActive
    BY <1>6, ListActiveStep
  <1>7. CASE SlotProcessStep
    BY <1>7, LockStep, ReserveStep, WriteStep, SubmitStep, SlotFailedStep DEF SlotProcessStep
  <1>8. CASE AdvanceStep
    BY <1>8, ReservationStep, RemoteEffectStep, ReceiptStep, CompletionStep, CompleteStep
       DEF AdvanceStep
  <1>9. CASE \E s \in Slots : RemoteProgress(s)
    BY <1>9, RemoteStep
  <1>10. CASE Tick \/ UNCHANGED vars
    BY <1>10, TickStep
  <1> QED
    BY <1>1, <1>2, <1>3, <1>4, <1>5, <1>6, <1>7, <1>8, <1>9, <1>10 DEF Next, CoordinatorStep

\* The inductive invariant of the coordinator: its journal is in order, its
\* plan and the slot in hand are of open slots, and the write-once files of a
\* slot cover the side effects it had.
THEOREM CoordinatorInvariant == Spec => []CoordinatorInv
  BY InitEstablishes, NextPreserves, PTL DEF Spec

\* The coordinator's state keeps its types.
THEOREM CoordinatorTypeCorrect == Spec => []TypeOK
  <1>1. CoordinatorInv => TypeOK
    BY DEF CoordinatorInv
  <1> QED
    BY <1>1, CoordinatorInvariant, PTL

\* Whatever crashes, fails or stays ambiguous, each unit is submitted,
\* transported and started at most once, and one that counts has all of its
\* evidence behind it.
THEOREM CoordinatorUnitsCountOnce == Spec => []UnitsCountOnce
  <1>1. CoordinatorInv => UnitsCountOnce
    BY DEF CoordinatorInv, UnitsCountOnce
  <1> QED
    BY <1>1, CoordinatorInvariant, PTL

-----------------------------------------------------------------------------
(* The window the coordinator implements.                                  *)

\* A slot's account is what its one terminal event says.
LEMMA AccountIs ==
  ASSUME NEW records, InOrder(records), NEW s \in Slots
  PROVE  /\ s \notin TerminalSlots(records) => Account(records, s) = "OPEN"
         /\ s \in TerminalSlots(records) => Account(records, s) \in Statuses
         /\ \A status \in Statuses :
              Account(records, s) = status <=> Concluded(records, s, status)
  <1>1. s \in TerminalSlots(records) => \E status \in Statuses : Concluded(records, s, status)
    <2>1. ASSUME s \in TerminalSlots(records)
          PROVE  \E status \in Statuses : Concluded(records, s, status)
      <3>1. PICK i \in 1..Len(records) : records[i].slot = s
        BY <2>1 DEF TerminalSlots
      <3>2. records[i].terminal_status \in Statuses
        BY <3>1 DEF InOrder, Shaped
      <3> QED
        BY <3>1, <3>2 DEF Concluded
    <2> QED
      BY <2>1
  <1>2. ASSUME NEW a, NEW b, Concluded(records, s, a), Concluded(records, s, b) PROVE a = b
    BY <1>2 DEF Concluded, InOrder
  <1>3. CASE s \notin TerminalSlots(records)
    <2>1. \A status : ~Concluded(records, s, status)
      BY <1>3, OpenIsNotConcluded
    <2>2. Account(records, s) = "OPEN"
      BY <2>1 DEF Account
    <2> QED
      BY <1>3, <2>1, <2>2 DEF Statuses
  <1>4. CASE s \in TerminalSlots(records)
    <2>1. Account(records, s) = CHOOSE status \in Statuses : Concluded(records, s, status)
      BY <1>1, <1>4 DEF Account
    <2>2. Account(records, s) \in Statuses /\ Concluded(records, s, Account(records, s))
      BY <1>1, <1>4, <2>1
    <2> QED
      BY <1>2, <1>4, <2>2
  <1> QED
    BY <1>3, <1>4

\* An event the journal accepts changes the account of its slot alone.
LEMMA Accounted ==
  ASSUME NEW records, InOrder(records), NEW event, Shaped(event), ValidEvent(event, records),
         NEW s \in Slots
  PROVE  Account(Append(records, event), s) =
           IF event.slot = s THEN event.terminal_status ELSE Account(records, s)
  <1> DEFINE longer == Append(records, event)
  <1>1. InOrder(longer) /\ records \in Seq(Event) /\ event \in Event
    BY ValidKeepsOrder DEF InOrder, Shaped
  <1>2. /\ TerminalSlots(longer) = TerminalSlots(records) \cup ({event.slot} \cap Slots)
        /\ \A status : Concluded(longer, s, status) <=>
             Concluded(records, s, status) \/ (event.slot = s /\ event.terminal_status = status)
    BY <1>1, Appended
  <1> HIDE DEF longer
  <1>3. CASE event.slot = s
    <2>1. event.terminal_status \in Statuses
      BY <1>3 DEF Shaped
    <2>2. Account(longer, s) = event.terminal_status
      BY <1>1, <1>2, <1>3, <2>1, AccountIs
    <2> QED
      BY <1>3, <2>2 DEF longer
  <1>4. CASE event.slot # s
    <2>1. Account(longer, s) = Account(records, s)
      <3>1. CASE s \in TerminalSlots(records)
        <4>1. Account(records, s) \in Statuses /\ Concluded(records, s, Account(records, s))
          BY <3>1, AccountIs
        <4>2. Concluded(longer, s, Account(records, s))
          BY <1>2, <4>1
        <4> QED
          BY <1>1, <4>1, <4>2, AccountIs
      <3>2. CASE s \notin TerminalSlots(records)
        <4>1. s \notin TerminalSlots(longer)
          BY <1>2, <1>4, <3>2
        <4> QED
          BY <1>1, <3>2, <4>1, AccountIs
      <3> QED
        BY <3>1, <3>2
    <2> QED
      BY <1>4, <2>1 DEF longer
  <1> QED
    BY <1>3, <1>4

\* A step that touches nothing of what the window sees.
LEMMA Unseen ==
  ASSUME UNCHANGED <<journal, Submissions, AcceptedSlots>>
  PROVE  [Window!WindowNext]_(Window!windowVars)
  BY DEF Window!windowVars, WindowState, Accounts

\* An event starts the window, concludes a slot, or ends the window.
LEMMA Recorded ==
  ASSUME CoordinatorInv, NEW event, Shaped(event), ValidEvent(event, journal),
         journal' = Append(journal, event), UNCHANGED <<Submissions, AcceptedSlots>>,
         event.terminal_status = "QUALIFYING" => event.slot \in AcceptedSlots
  PROVE  Window!WindowNext
  <1>1. InOrder(journal) /\ journal \in Seq(Event) /\ event \in Event
    BY DEF CoordinatorInv, InOrder, Shaped
  <1>2. /\ ~Ended(journal) /\ Started(journal')
        /\ Ended(journal') <=> event.event = "WINDOW_ENDED"
    BY <1>1, ValidKeepsOrder, Appended
  <1>3. \A s \in Slots : Account(journal', s) =
          IF event.slot = s THEN event.terminal_status ELSE Account(journal, s)
    BY <1>1, Accounted
  <1>4. CASE event.event = "WINDOW_STARTED"
    <2>1. journal = <<>> /\ event.slot \notin Slots
      BY <1>4 DEF ValidEvent, Shaped
    <2>2. WindowState = "waiting" /\ WindowState' = "open"
      BY <1>2, <1>4, <2>1 DEF WindowState, Started
    <2>3. UNCHANGED Accounts
      BY <1>3, <2>1 DEF Accounts
    <2> QED
      BY <2>2, <2>3 DEF Window!WindowNext, Window!StartUnits
  <1>5. CASE event.event = "SLOT_TERMINAL"
    <2>1. /\ event.slot \in Slots /\ event.terminal_status \in Statuses
          /\ Started(journal) /\ event.slot \notin TerminalSlots(journal)
      BY <1>5 DEF ValidEvent, Shaped
    <2>2. WindowState = "open" /\ UNCHANGED WindowState
      BY <1>2, <1>5, <2>1 DEF WindowState
    <2>3. Accounts[event.slot] = "OPEN"
      BY <1>1, <2>1, AccountIs DEF Accounts
    <2>4. Accounts' = [Accounts EXCEPT ![event.slot] = event.terminal_status]
      BY <1>3 DEF Accounts
    <2>5. Window!Conclude(event.slot, event.terminal_status)
      BY <2>2, <2>3, <2>4 DEF Window!Conclude
    <2> QED
      BY <2>1, <2>5 DEF Window!WindowNext, Statuses
  <1>6. CASE event.event = "WINDOW_ENDED"
    <2>1. Started(journal) /\ TerminalSlots(journal) = Slots /\ event.slot \notin Slots
      BY <1>6 DEF ValidEvent, Shaped
    <2>2. WindowState = "open" /\ WindowState' = "ended"
      BY <1>2, <1>6, <2>1 DEF WindowState
    <2>3. UNCHANGED Accounts
      BY <1>3, <2>1 DEF Accounts
    <2>4. \A s \in Slots : Account(journal, s) \in Statuses
      BY <1>1, <2>1, AccountIs
    <2>5. \A s \in Slots : Accounts[s] # "OPEN"
      BY <2>4 DEF Accounts, Statuses
    <2> QED
      BY <2>2, <2>3, <2>5 DEF Window!WindowNext, Window!EndUnits
  <1> QED
    BY <1>1, <1>4, <1>5, <1>6 DEF Event

\* An event that is not QUALIFYING, or no event.
LEMMA RecordedOrNot ==
  ASSUME CoordinatorInv, UNCHANGED <<effects, remote>>,
         NEW event, Shaped(event), event.terminal_status # "QUALIFYING",
         \/ UNCHANGED journal
         \/ ValidEvent(event, journal) /\ journal' = Append(journal, event)
  PROVE  [Window!WindowNext]_(Window!windowVars)
  <1>1. UNCHANGED <<Submissions, AcceptedSlots>>
    BY DEF Submissions, AcceptedSlots
  <1> QED
    BY <1>1, Unseen, Recorded

\* A slot that is given up.
LEMMA GivenUp ==
  ASSUME CoordinatorInv, UNCHANGED <<effects, remote>>,
         NEW s \in Slots, NEW label, MarkInvalid(s, label)
  PROVE  [Window!WindowNext]_(Window!windowVars)
  <1> DEFINE event == SlotTerminal(s, "INVALID", clock)
  <1>1. Shaped(event) /\ event.terminal_status # "QUALIFYING"
    BY TerminalShaped DEF CoordinatorInv, TypeOK, Statuses, SlotTerminal
  <1>2. \/ UNCHANGED journal
        \/ ValidEvent(event, journal) /\ journal' = Append(journal, event)
    BY DEF MarkInvalid, AppendEvent
  <1> HIDE DEF event
  <1> QED
    BY <1>1, <1>2, RecordedOrNot

\* The steps of a pass that are about no slot in hand.
LEMMA PassImplements ==
  ASSUME CoordinatorInv,
         \/ \E s \in Slots : Reconcile(s)
         \/ StartWindow \/ RecordMissing \/ EndWindow
  PROVE  [Window!WindowNext]_(Window!windowVars)
  <1>1. clock \in Nat /\ nowAt \in Nat /\ NoSlot \notin Slots
    BY ScheduleAssumption DEF CoordinatorInv, TypeOK, ValidSchedule, NoSlot, Slots
  <1>2. UNCHANGED <<effects, remote>>
    BY DEF Reconcile, StartWindow, RecordMissing, EndWindow, worldVars
  <1>3. ASSUME NEW s \in Slots, Reconcile(s) PROVE [Window!WindowNext]_(Window!windowVars)
    <2>1. UNCHANGED journal \/ MarkInvalid(s, "reconcile")
      BY <1>3 DEF Reconcile
    <2>2. CASE UNCHANGED journal
      BY <1>2, <2>2, Unseen DEF Submissions, AcceptedSlots
    <2>3. CASE MarkInvalid(s, "reconcile")
      BY <1>2, <2>3, GivenUp
    <2> QED
      BY <2>1, <2>2, <2>3
  <1>4. CASE StartWindow
    <2>1. \/ UNCHANGED journal
          \/ /\ ValidEvent(WindowStarted(nowAt), journal)
             /\ journal' = Append(journal, WindowStarted(nowAt))
      BY <1>4 DEF StartWindow, Record
    <2>2. Shaped(WindowStarted(nowAt))
      BY <1>1, WindowEventsShaped
    <2>3. WindowStarted(nowAt).terminal_status # "QUALIFYING"
      BY DEF WindowStarted
    <2> QED
      BY <1>2, <2>1, <2>2, <2>3, RecordedOrNot
  <1>5. CASE EndWindow
    <2>1. \/ UNCHANGED journal
          \/ /\ ValidEvent(WindowEnded(nowAt), journal)
             /\ journal' = Append(journal, WindowEnded(nowAt))
      BY <1>5 DEF EndWindow, Record
    <2>2. Shaped(WindowEnded(nowAt))
      BY <1>1, WindowEventsShaped
    <2>3. WindowEnded(nowAt).terminal_status # "QUALIFYING"
      BY DEF WindowEnded
    <2> QED
      BY <1>2, <2>1, <2>2, <2>3, RecordedOrNot
  <1>6. CASE RecordMissing
    <2>1. PICK step \in plan : /\ step.type = "RECORD_MISSING"
                               /\ Record(step, SlotTerminal(step.slot, "MISSING", nowAt))
      BY <1>6 DEF RecordMissing, NextStep
    <2>2. step.slot \in Slots
      BY <2>1 DEF CoordinatorInv, PlanIsFresh, SlotSteps
    <2> DEFINE event == SlotTerminal(step.slot, "MISSING", nowAt)
    <2>3. Shaped(event) /\ event.terminal_status # "QUALIFYING"
      BY <1>1, <2>2, TerminalShaped DEF SlotTerminal, Statuses
    <2>4. \/ UNCHANGED journal
          \/ ValidEvent(event, journal) /\ journal' = Append(journal, event)
      BY <2>1 DEF Record
    <2> HIDE DEF event
    <2> QED
      BY <1>2, <2>3, <2>4, RecordedOrNot
  <1> QED
    BY <1>3, <1>4, <1>5, <1>6

\* The slot process sends the transaction of an open slot once.
LEMMA SlotProcessImplements ==
  ASSUME CoordinatorInv, SlotProcessStep
  PROVE  [Window!WindowNext]_(Window!windowVars)
  <1>1. CASE Submit
    <2>1. pc = "submit" /\ Attempt(working, "submissions") /\ UNCHANGED <<journal, remote>>
      BY <1>1 DEF Submit, InSlotProcess
    <2>2. working \in Slots /\ working \notin TerminalSlots(journal) /\ Started(journal)
      BY <2>1 DEF CoordinatorInv, WorkingIsOpen, Busy, SlotProcess
    <2>3. InOrder(journal) /\ ~Ended(journal)
      BY <2>2 DEF CoordinatorInv, InOrder
    <2>4. WindowState = "open" /\ UNCHANGED <<WindowState, AcceptedSlots, Accounts>>
      BY <2>1, <2>2, <2>3 DEF WindowState, AcceptedSlots, Accounts
    <2>5. Accounts[working] = "OPEN"
      BY <2>2, <2>3, AccountIs DEF Accounts
    <2>6. Submissions[working] = 0 /\ Submissions' = [Submissions EXCEPT ![working] = 1]
      <3>1. TypeOK /\ "submissions" \in EffectNames /\ effects[working]["submissions"] = 0
        BY <2>1 DEF CoordinatorInv, HandKnows, EffectNames
      <3>2. /\ effects'[working]["submissions"] = effects[working]["submissions"] + 1
            /\ \A s \in Slots : s # working => effects'[s] = effects[s]
        BY <2>1, <2>2, <3>1, Attempted
      <3>3. /\ effects'[working]["submissions"] = 1
            /\ \A s \in Slots : s # working =>
                 effects'[s]["submissions"] = effects[s]["submissions"]
        BY <3>1, <3>2
      <3>4. Submissions[working] = 0
        BY <2>2, <3>1 DEF Submissions
      <3>5. Submissions' = [Submissions EXCEPT ![working] = 1]
        BY <2>2, <3>3 DEF Submissions
      <3> QED
        BY <3>4, <3>5
    <2> QED
      BY <2>2, <2>4, <2>5, <2>6 DEF Window!WindowNext, Window!Submit
  <1>2. CASE SlotFailed
    <2>1. working \in Slots /\ MarkInvalid(working, "act") /\ UNCHANGED <<effects, remote>>
      BY <1>2, InHand DEF SlotFailed, Busy, worldVars
    <2> QED
      BY <2>1, GivenUp
  <1>3. CASE OpenSequence \/ OpenQuota \/ ReserveSlot \/ ReserveSequence \/ Prepare
             \/ Acknowledge \/ SignAssignment \/ WriteOutput \/ ReleaseLocks
    <2>1. UNCHANGED <<journal, effects, remote>>
      BY <1>3 DEF OpenSequence, OpenQuota, ReserveSlot, ReserveSequence, Prepare, Acknowledge,
                  SignAssignment, WriteOutput, ReleaseLocks, InSlotProcess
    <2> QED
      BY <2>1, Unseen DEF Submissions, AcceptedSlots
  <1> QED
    BY <1>1, <1>2, <1>3 DEF SlotProcessStep

\* An attempt that is no submission.
LEMMA NotSent ==
  ASSUME CoordinatorInv, working \in Slots,
         NEW e \in EffectNames \ {"submissions"}, Attempt(working, e)
  PROVE  UNCHANGED Submissions
  <1>1. /\ effects'[working]["submissions"] = effects[working]["submissions"]
        /\ \A s \in Slots : s # working => effects'[s] = effects[s]
    BY Attempted DEF CoordinatorInv, EffectNames
  <1> QED
    BY <1>1 DEF Submissions

\* What the observer host has more of the slot in hand is no acceptance.
LEMMA NotAccepted ==
  ASSUME CoordinatorInv, working \in Slots,
         \/ UNCHANGED remote
         \/ \E fact \in {"receipt", "worker"} :
              remote' = [remote EXCEPT ![working] = @ \cup {fact}]
  PROVE  UNCHANGED AcceptedSlots
  <1>1. remote \in [Slots -> SUBSET RemoteFacts]
    BY DEF CoordinatorInv, TypeOK
  <1>2. \A s \in Slots : "delivery" \in remote'[s] <=> "delivery" \in remote[s]
    BY <1>1
  <1> QED
    BY <1>2 DEF AcceptedSlots

\* Only a delivered result is counted when the work on a slot goes on.
LEMMA AdvanceImplements ==
  ASSUME CoordinatorInv, AdvanceStep
  PROVE  [Window!WindowNext]_(Window!windowVars)
  <1>1. working \in Slots /\ clock \in Nat
    BY InHand DEF AdvanceStep, ReserveTransport, Transport, ObserveReceipt, ReserveStart,
                  StartWorker, ObserveCompletion, Complete, InAdvance, Busy, Advancing,
                  CoordinatorInv, TypeOK
  <1>2. CASE ReserveTransport \/ ReserveStart
    BY <1>2, Unseen DEF ReserveTransport, ReserveStart, Submissions, AcceptedSlots
  <1>3. CASE Transport
    BY <1>1, <1>3, NotSent, NotAccepted, Unseen DEF Transport, EffectNames
  <1>4. CASE StartWorker
    BY <1>1, <1>4, NotSent, NotAccepted, Unseen DEF StartWorker, EffectNames
  <1>5. CASE ObserveReceipt \/ ObserveCompletion
    <2>1. UNCHANGED <<effects, remote>> /\ (UNCHANGED journal \/ MarkInvalid(working, "act"))
      BY <1>5 DEF ObserveReceipt, ObserveCompletion, NotObserved
    <2>2. CASE UNCHANGED journal
      BY <2>1, <2>2, Unseen DEF Submissions, AcceptedSlots
    <2> QED
      BY <1>1, <2>1, <2>2, GivenUp
  <1>6. CASE Complete
    <2>1. pc = "complete" /\ UNCHANGED <<effects, remote>>
      BY <1>6 DEF Complete, InAdvance
    <2>2. CASE MarkInvalid(working, "act")
      BY <1>1, <2>1, <2>2, GivenUp
    <2>3. CASE ~MarkInvalid(working, "act")
      <3> DEFINE event == SlotTerminal(working, "QUALIFYING", clock)
      <3>1. ValidEvent(event, journal) /\ journal' = Append(journal, event)
        BY <1>6, <2>3 DEF Complete
      <3>2. Shaped(event) /\ event.slot = working
        BY <1>1, TerminalShaped DEF SlotTerminal, Statuses
      <3>3. working \in AcceptedSlots
        BY <1>1, <2>1 DEF CoordinatorInv, HandKnows, AcceptedSlots
      <3>4. UNCHANGED <<Submissions, AcceptedSlots>>
        BY <2>1 DEF Submissions, AcceptedSlots
      <3> HIDE DEF event
      <3> QED
        BY <3>1, <3>2, <3>3, <3>4, Recorded
    <2> QED
      BY <2>2, <2>3
  <1> QED
    BY <1>2, <1>3, <1>4, <1>5, <1>6 DEF AdvanceStep

\* A result is accepted of a unit that was submitted.
LEMMA RemoteImplements ==
  ASSUME CoordinatorInv, NEW s \in Slots, RemoteProgress(s)
  PROVE  [Window!WindowNext]_(Window!windowVars)
  <1>1. /\ UNCHANGED <<journal, effects>> /\ "worker" \in remote[s]
        /\ \E fact \in {"completion", "delivery"} \ remote[s] :
             remote' = [remote EXCEPT ![s] = @ \cup {fact}]
    BY DEF RemoteProgress, diskVars
  <1>2. remote \in [Slots -> SUBSET RemoteFacts]
    BY DEF CoordinatorInv, TypeOK
  <1>3. UNCHANGED <<WindowState, Submissions, Accounts>>
    BY <1>1 DEF WindowState, Submissions, Accounts
  <1>4. Submissions[s] = 1
    BY <1>1 DEF CoordinatorInv, FilesCover, Submissions
  <1>5. CASE remote' = [remote EXCEPT ![s] = @ \cup {"completion"}]
    <2>1. \A t \in Slots : "delivery" \in remote'[t] <=> "delivery" \in remote[t]
      BY <1>2, <1>5
    <2> QED
      BY <1>1, <1>3, <2>1, Unseen DEF AcceptedSlots
  <1>6. CASE "delivery" \notin remote[s] /\ remote' = [remote EXCEPT ![s] = @ \cup {"delivery"}]
    <2>1. \A t \in Slots : "delivery" \in remote'[t] <=> "delivery" \in remote[t] \/ t = s
      BY <1>2, <1>6
    <2>2. s \notin AcceptedSlots /\ AcceptedSlots' = AcceptedSlots \cup {s}
      BY <1>6, <2>1 DEF AcceptedSlots
    <2> QED
      BY <1>3, <1>4, <2>2 DEF Window!WindowNext, Window!Accepted
  <1> QED
    BY <1>1, <1>5, <1>6

\* The coordinator implements OfficialWindow: each unit is submitted at most
\* once and while the window is open, concluded once, counted only when its
\* result was accepted, and the window ends when every unit is concluded.
THEOREM CoordinatorImplementsWindow == Spec => ImplementsWindow
  <1>1. Init => Window!WindowInit
    <2> SUFFICES ASSUME Init PROVE Window!WindowInit
      OBVIOUS
    <2>1. journal = <<>> /\ Len(journal) = 0
      BY DEF Init
    <2>2. WindowState = "waiting"
      BY <2>1 DEF WindowState, Started, Ended
    <2>3. Submissions = [s \in Slots |-> 0] /\ AcceptedSlots = {}
      BY DEF Init, Submissions, AcceptedSlots, EffectNames
    <2>4. \A s \in Slots : Account(journal, s) = "OPEN"
      BY <2>1 DEF Account, Concluded
    <2> QED
      BY <2>2, <2>3, <2>4 DEF Window!WindowInit, Accounts
  <1>2. CoordinatorInv /\ [Next]_vars => [Window!WindowNext]_(Window!windowVars)
    <2> SUFFICES ASSUME CoordinatorInv, [Next]_vars
                 PROVE  [Window!WindowNext]_(Window!windowVars)
      OBVIOUS
    <2>1. CASE (\E s \in Slots : Reconcile(s)) \/ StartWindow \/ RecordMissing \/ EndWindow
      BY <2>1, PassImplements
    <2>2. CASE \/ MakePlan \/ Finish \/ BlockStart \/ RefuseTornFile
               \/ ExecuteSlot \/ ListActive \/ Advance \/ EndPass \/ Restart
               \/ Tick \/ UNCHANGED vars \/ \E tears \in BOOLEAN : Crash(tears)
      <3>1. UNCHANGED <<journal, effects, remote>>
        BY <2>2 DEF MakePlan, Finish, BlockStart, RefuseTornFile, ExecuteSlot, ListActive, Advance,
                    EndPass, Restart, Tick, Crash, Take, vars, diskVars, worldVars
      <3> QED
        BY <3>1, Unseen DEF Submissions, AcceptedSlots
    <2>3. CASE SlotProcessStep
      BY <2>3, SlotProcessImplements
    <2>4. CASE AdvanceStep
      BY <2>4, AdvanceImplements
    <2>5. CASE \E s \in Slots : RemoteProgress(s)
      BY <2>5, RemoteImplements
    <2> QED
      BY <2>1, <2>2, <2>3, <2>4, <2>5 DEF Next, CoordinatorStep
  <1> QED
    BY <1>1, <1>2, CoordinatorInvariant, PTL DEF Spec, ImplementsWindow, Window!WindowSpec

\* Nothing is done any more for a slot that has its terminal event: no side
\* effect of it is attempted, by any later pass.
THEOREM CoordinatorTerminalIsFinal == Spec => TerminalIsFinal
  <1>1. CoordinatorInv /\ [Next]_vars =>
          [\A s \in TerminalSlots(journal) : effects'[s] = effects[s]]_vars
    <2> SUFFICES ASSUME CoordinatorInv, [Next]_vars, NEW s \in TerminalSlots(journal)
                 PROVE  effects'[s] = effects[s]
      OBVIOUS
    <2>1. CASE UNCHANGED effects
      BY <2>1
    <2>2. CASE \E e \in EffectNames : pc \in Busy /\ Attempt(working, e)
      <3>1. working \in Slots /\ s \in Slots /\ s # working
        BY <2>2, InHand DEF TerminalSlots
      <3> QED
        BY <2>2, <3>1, Attempted DEF CoordinatorInv
    <2>3. UNCHANGED effects \/ Submit \/ Transport \/ StartWorker
      <3>1. CASE SlotProcessStep
        BY <3>1 DEF SlotProcessStep, OpenSequence, OpenQuota, ReserveSlot, ReserveSequence, Prepare,
                    Acknowledge, SignAssignment, WriteOutput, ReleaseLocks, SlotFailed, worldVars
      <3>2. CASE AdvanceStep
        BY <3>2 DEF AdvanceStep, ReserveTransport, ObserveReceipt, ReserveStart,
                    ObserveCompletion, Complete
      <3>3. CASE ~SlotProcessStep /\ ~AdvanceStep
        BY <3>3 DEF Next, CoordinatorStep, Reconcile, MakePlan, Finish, BlockStart, RefuseTornFile,
                    StartWindow, RecordMissing, EndWindow, ExecuteSlot, ListActive, Advance,
                    EndPass, Restart, Tick, Crash, RemoteProgress, Take, vars, worldVars
      <3> QED
        BY <3>1, <3>2, <3>3
    <2>4. Submit \/ Transport \/ StartWorker =>
            \E e \in EffectNames : pc \in Busy /\ Attempt(working, e)
      BY DEF Submit, Transport, StartWorker, InSlotProcess, InAdvance, EffectNames, Busy,
             SlotProcess, Advancing
    <2> QED
      BY <2>1, <2>2, <2>3, <2>4
  <1> QED
    BY <1>1, CoordinatorInvariant, PTL DEF Spec, TerminalIsFinal
=============================================================================
