------------------------- MODULE OfficialPassProofs -------------------------
(***************************************************************************)
(* Proofs about OfficialCoordinator: nothing legal stops it for good.  Its *)
(* plan is made at one time and carried out at others, while the journal   *)
(* grows; still no event it records is refused, and no observer has two    *)
(* assignments in progress.                                                *)
(***************************************************************************)
EXTENDS OfficialCoordinatorProofs

Recording == {"START_WINDOW", "END_WINDOW", "RECORD_MISSING"}
Opening == {"openSequence", "openQuota", "reserve"}

\* No open slot of this slot's observer, other than itself, has begun.
ObserverIsFree(t) ==
  \A s \in Slots \ TerminalSlots(journal) :
    s # t /\ ObserverOf[s] = ObserverOf[t] => ~Has(s, "reservation")

\* No event is later than the present, and no side effect before its time.
TimesInOrder ==
  /\ nowAt <= clock
  /\ \A i \in 1 .. Len(journal) : journal[i].recorded_at <= clock
  /\ \A s \in Slots : Has(s, "reservation") => Started(journal) /\ DueAt[s] <= clock
  /\ pc \in Busy => Started(journal) /\ DueAt[working] <= clock

\* A step that records an event at the plan's time comes before every step
\* that may record one at the present, and what it was planned for holds.
RecordsAreTimely ==
  \A step \in plan :
    /\ step.type \in Recording =>
         /\ pc = "act"
         /\ \A i \in 1 .. Len(journal) : journal[i].recorded_at <= nowAt
    /\ step.type = "START_WINDOW" => step.slot = NoSlot /\ StartIsDue(journal, nowAt)
    /\ step.type = "END_WINDOW" =>
         /\ step.slot = NoSlot /\ nowAt >= EndAt
         /\ Started(journal) /\ ~Ended(journal) /\ TerminalSlots(journal) = Slots
    /\ step.type = "RECORD_MISSING" =>
         /\ Started(journal) /\ DueAt[step.slot] <= nowAt /\ Late(step.slot, nowAt)
         /\ \A other \in plan : other.type = "EXECUTE_SLOT" => step.slot < other.slot
    /\ step.type = "ADVANCE" => \A other \in plan : other.type = "ADVANCE"

\* What is to be executed is due, one slot of an observer that has none.
ExecutionsAreFree ==
  \A step \in plan : step.type = "EXECUTE_SLOT" =>
    /\ DueAt[step.slot] <= nowAt /\ ObserverIsFree(step.slot)
    /\ pc \in Busy => ObserverOf[working] # ObserverOf[step.slot]
    /\ \A other \in plan :
         other.type = "EXECUTE_SLOT" /\ ObserverOf[other.slot] = ObserverOf[step.slot] =>
           other = step

\* Of an observer's open slots at most one has begun.
OneBegun ==
  /\ \A s \in Slots \ TerminalSlots(journal) : Has(s, "reservation") => ObserverIsFree(s)
  /\ pc \in Opening => ObserverIsFree(working)

PassInv ==
  /\ TimesInOrder /\ RecordsAreTimely /\ ExecutionsAreFree /\ OneBegun
  /\ JournalNeverRefuses

-----------------------------------------------------------------------------
(* The journal.                                                            *)

LEMMA TimesAreNatural ==
  ASSUME CoordinatorInv
  PROVE  /\ clock \in Nat /\ nowAt \in Nat /\ Len(journal) \in Nat /\ InOrder(journal)
         /\ StartAt \in Nat /\ EndAt \in Nat /\ Tolerance \in Nat
         /\ \A s \in Slots : DueAt[s] \in Nat
         /\ \A i \in 1 .. Len(journal) : journal[i] \in Event /\ journal[i].recorded_at \in Nat
  <1>1. /\ clock \in Nat /\ nowAt \in Nat /\ InOrder(journal)
        /\ journal \in Seq(Event) /\ Len(journal) \in Nat
    BY DEF CoordinatorInv, TypeOK
  <1>2. /\ StartAt \in Nat /\ EndAt \in Nat /\ Tolerance \in Nat
        /\ \A s \in Slots : DueAt[s] \in Nat
    BY ScheduleAssumption DEF ValidSchedule
  <1>3. \A i \in 1 .. Len(journal) : journal[i] \in Event
    BY <1>1
  <1>4. \A event \in Event : event.recorded_at \in Nat
    BY DEF Event
  <1> QED
    BY <1>1, <1>2, <1>3, <1>4

\* The time of the last event is that of one of them.
LEMMA LastIsOne ==
  ASSUME CoordinatorInv, journal # <<>>, NEW at,
         \A i \in 1 .. Len(journal) : journal[i].recorded_at <= at
  PROVE  Last(journal).recorded_at <= at
  <1>1. Len(journal) \in 1 .. Len(journal)
    BY DEF CoordinatorInv, TypeOK
  <1> QED
    BY <1>1 DEF Last

\* A terminal event of an open slot that is due, no earlier than the last.
LEMMA TerminalIsValid ==
  ASSUME CoordinatorInv, Started(journal), NEW s \in Slots \ TerminalSlots(journal),
         NEW status, NEW at \in Nat, DueAt[s] <= at, status = "MISSING" => Late(s, at),
         \A i \in 1 .. Len(journal) : journal[i].recorded_at <= at
  PROVE  ValidEvent(SlotTerminal(s, status, at), journal)
  <1>1. journal # <<>> => at >= Last(journal).recorded_at
    <2> SUFFICES ASSUME journal # <<>> PROVE at >= Last(journal).recorded_at
      OBVIOUS
    <2>1. Last(journal).recorded_at <= at
      BY LastIsOne
    <2> QED
      BY <2>1
  <1>2. at >= DueAt[s]
    BY TimesAreNatural
  <1> QED
    BY <1>1, <1>2 DEF ValidEvent, SlotTerminal

\* What one event more leaves of what was said of the journal.
LEMMA JournalGrows ==
  ASSUME CoordinatorInv, NEW event, Shaped(event), ValidEvent(event, journal),
         journal' = Append(journal, event), NEW at, event.recorded_at <= at,
         \A i \in 1 .. Len(journal) : journal[i].recorded_at <= at
  PROVE  /\ Started(journal') /\ TerminalSlots(journal) \subseteq TerminalSlots(journal')
         /\ \A i \in 1 .. Len(journal') : journal'[i].recorded_at <= at
  <1>1. InOrder(journal) /\ journal \in Seq(Event) /\ event \in Event
    BY DEF CoordinatorInv, InOrder, Shaped
  <1>2. Started(journal') /\ TerminalSlots(journal) \subseteq TerminalSlots(journal')
    BY <1>1, ValidKeepsOrder, Appended
  <1>3. ASSUME NEW i \in 1 .. Len(journal') PROVE journal'[i].recorded_at <= at
    <2>1. \/ i \in 1 .. Len(journal) /\ journal'[i] = journal[i]
          \/ journal'[i] = event
      BY <1>1
    <2> QED
      BY <2>1
  <1> QED
    BY <1>2, <1>3

LEMMA FreeKept ==
  ASSUME TerminalSlots(journal) \subseteq TerminalSlots(journal'),
         \A s \in Slots : Has(s, "reservation")' => Has(s, "reservation"),
         NEW t, ObserverIsFree(t)
  PROVE  ObserverIsFree(t)'
  BY DEF ObserverIsFree

\* Whose file it is does not matter unless it is a reservation.
LEMMA NotReserved ==
  ASSUME CoordinatorInv, NEW s \in Slots, NEW file, file # "reservation", AddFile(s, file)
  PROVE  \A t \in Slots : Has(t, "reservation")' <=> Has(t, "reservation")
  <1>1. files \in [Slots -> SUBSET FileNames]
    BY DEF CoordinatorInv, TypeOK
  <1> QED
    BY <1>1 DEF AddFile, Has

-----------------------------------------------------------------------------
(* What several steps have in common.                                      *)

\* A step that records nothing and begins nothing.
LEMMA QuietPass ==
  ASSUME CoordinatorInv, PassInv,
         UNCHANGED <<journal, nowAt, plan, exit>>, clock' \in {clock, clock + 1},
         \A s \in Slots : Has(s, "reservation")' => Has(s, "reservation"),
         pc' \in Busy \/ pc' \in Opening => working' = working,
         pc' \in Busy => pc \in Busy, pc' \in Opening => pc \in Opening,
         pc = "act" => pc' = "act"
  PROVE  PassInv'
  <1>1. clock \in Nat /\ nowAt \in Nat /\ clock <= clock'
    BY TimesAreNatural
  <1>2. TimesInOrder'
    <2>1. nowAt' <= clock'
      BY <1>1 DEF PassInv, TimesInOrder
    <2>2. \A i \in 1 .. Len(journal') : journal'[i].recorded_at <= clock'
      BY <1>1, TimesAreNatural DEF PassInv, TimesInOrder
    <2>3. ASSUME NEW s \in Slots, Has(s, "reservation")'
          PROVE  Started(journal') /\ DueAt[s] <= clock'
      BY <1>1, <2>3, TimesAreNatural DEF PassInv, TimesInOrder
    <2>4. ASSUME pc' \in Busy PROVE Started(journal') /\ DueAt[working'] <= clock'
      <3>1. working \in Slots
        BY <2>4, InHand
      <3>2. Started(journal) /\ DueAt[working] <= clock
        BY <2>4 DEF PassInv, TimesInOrder
      <3> QED
        BY <1>1, <2>4, <3>1, <3>2, TimesAreNatural
    <2> QED
      BY <2>1, <2>2, <2>3, <2>4 DEF TimesInOrder
  <1>3. RecordsAreTimely'
    BY DEF PassInv, RecordsAreTimely
  <1>4. \A t : ObserverIsFree(t) => ObserverIsFree(t)'
    BY FreeKept
  <1>5. ExecutionsAreFree'
    BY <1>4 DEF PassInv, ExecutionsAreFree
  <1>6. OneBegun'
    BY <1>4 DEF PassInv, OneBegun
  <1> QED
    BY <1>2, <1>3, <1>5, <1>6 DEF PassInv, JournalNeverRefuses

\* A step that ends in no plan.
LEMMA IdlePass ==
  ASSUME CoordinatorInv, PassInv, plan' = {}, pc' \notin Busy, nowAt' \in {0, nowAt},
         UNCHANGED <<journal, files, clock>>, exit' # "JOURNAL_REFUSED"
  PROVE  PassInv'
  <1>1. pc' \notin Opening
    BY DEF Opening, Busy, SlotProcess
  <1>2. TimesInOrder'
    BY TimesAreNatural DEF PassInv, TimesInOrder, Has
  <1>3. \A t : ObserverIsFree(t) => ObserverIsFree(t)'
    BY DEF ObserverIsFree, Has
  <1>4. OneBegun'
    BY <1>1, <1>3 DEF PassInv, OneBegun, Has
  <1> QED
    BY <1>2, <1>4 DEF PassInv, RecordsAreTimely, ExecutionsAreFree, JournalNeverRefuses

\* An event of the present, when no step of the plan records one.
LEMMA PresentPass ==
  ASSUME CoordinatorInv, PassInv, \A step \in plan : step.type \notin Recording,
         \/ UNCHANGED journal
         \/ \E event : /\ Shaped(event) /\ event.recorded_at = clock
                       /\ ValidEvent(event, journal) /\ journal' = Append(journal, event),
         pc' \in {"act", "reconcile"}, UNCHANGED <<files, clock, nowAt, plan, exit>>
  PROVE  PassInv'
  <1>1. pc' \notin Busy /\ pc' \notin Opening
    BY DEF Opening, Busy, SlotProcess, Advancing
  <1>2. /\ Started(journal) => Started(journal')
        /\ TerminalSlots(journal) \subseteq TerminalSlots(journal')
        /\ \A i \in 1 .. Len(journal') : journal'[i].recorded_at <= clock
    <2>1. CASE UNCHANGED journal
      BY <2>1 DEF PassInv, TimesInOrder
    <2>2. CASE ~UNCHANGED journal
      <3>1. PICK event : /\ Shaped(event) /\ event.recorded_at = clock
                         /\ ValidEvent(event, journal) /\ journal' = Append(journal, event)
        BY <2>2
      <3>2. event.recorded_at <= clock
        BY <3>1, TimesAreNatural
      <3>3. \A i \in 1 .. Len(journal) : journal[i].recorded_at <= clock
        BY DEF PassInv, TimesInOrder
      <3> QED
        BY <3>1, <3>2, <3>3, JournalGrows
    <2> QED
      BY <2>1, <2>2
  <1>3. TimesInOrder'
    BY <1>1, <1>2 DEF PassInv, TimesInOrder, Has
  <1>4. RecordsAreTimely'
    BY DEF PassInv, RecordsAreTimely, Recording
  <1>5. \A t : ObserverIsFree(t) => ObserverIsFree(t)'
    BY <1>2, FreeKept DEF Has
  <1>6. ExecutionsAreFree'
    BY <1>1, <1>5 DEF PassInv, ExecutionsAreFree
  <1>7. OneBegun'
    BY <1>1, <1>2, <1>5 DEF PassInv, OneBegun, Has
  <1> QED
    BY <1>3, <1>4, <1>6, <1>7 DEF PassInv, JournalNeverRefuses

\* Giving up a slot that is due in a window that has started.
LEMMA GivenUpPass ==
  ASSUME CoordinatorInv, PassInv, \A step \in plan : step.type \notin Recording,
         NEW s \in Slots, Started(journal), DueAt[s] <= clock,
         NEW label \in {"act", "reconcile"}, MarkInvalid(s, label), UNCHANGED <<files, clock>>
  PROVE  PassInv'
  <1> DEFINE event == SlotTerminal(s, "INVALID", clock)
  <1>1. Shaped(event) /\ event.recorded_at = clock
    BY TimesAreNatural, TerminalShaped DEF Statuses, SlotTerminal
  <1>2. \/ UNCHANGED journal /\ Goto(label)
        \/ ValidEvent(event, journal) /\ journal' = Append(journal, event) /\ Goto(label)
    <2>1. CASE s \in TerminalSlots(journal)
      BY <2>1 DEF MarkInvalid
    <2>2. CASE s \notin TerminalSlots(journal)
      <3>1. \A i \in 1 .. Len(journal) : journal[i].recorded_at <= clock
        BY DEF PassInv, TimesInOrder
      <3>2. ValidEvent(event, journal)
        BY <2>2, <3>1, TimesAreNatural, TerminalIsValid
      <3> QED
        BY <2>2, <3>2 DEF MarkInvalid, AppendEvent
    <2> QED
      BY <2>1, <2>2
  <1> HIDE DEF event
  <1>3. pc' = label /\ UNCHANGED <<nowAt, plan, exit>>
    BY <1>2 DEF Goto
  <1> QED
    BY <1>1, <1>2, <1>3, PresentPass

-----------------------------------------------------------------------------
(* The plan.                                                               *)

\* While a slot is in hand, or no pass is on, no step records at plan time.
LEMMA NoRecording ==
  ASSUME CoordinatorInv, PassInv, pc # "act"
  PROVE  \A step \in plan : step.type \notin Recording
  BY DEF PassInv, RecordsAreTimely

\* A slot with an entry has a reservation, and is due.
LEMMA EntryIsReserved ==
  ASSUME CoordinatorInv, PassInv, NEW s \in Slots,
         Has(s, "entry") \/ Has(s, "assignment")
  PROVE  Has(s, "reservation") /\ DueAt[s] <= clock
  BY DEF CoordinatorInv, FilesCover, PassInv, TimesInOrder

\* What is executable when nothing waits for reconciliation has a free observer.
LEMMA ExecutableIsFree ==
  ASSUME CoordinatorInv, PassInv, \A s \in Slots : ~Unreconciled(s),
         NEW t \in ExecutableSlots(journal, clock, Active)
  PROVE  /\ t \in Slots /\ DueAt[t] <= clock /\ ~Late(t, clock) /\ ObserverIsFree(t)
         /\ \A s \in ExecutableSlots(journal, clock, Active) :
              ObserverOf[s] = ObserverOf[t] => s = t
  <1> DEFINE due == DueSlots(journal, clock) \ MissingSlots(journal, clock)
  <1>1. /\ t \in due /\ \A s \in Active : ObserverOf[s] # ObserverOf[t]
        /\ \A s \in due : ObserverOf[s] = ObserverOf[t] => t <= s
    BY DEF ExecutableSlots
  <1>2. t \in Slots /\ DueAt[t] <= clock /\ ~Late(t, clock)
    BY <1>1 DEF DueSlots, MissingSlots
  <1>3. ASSUME NEW s \in Slots \ TerminalSlots(journal), ObserverOf[s] = ObserverOf[t]
        PROVE  ~Has(s, "reservation")
    <2> SUFFICES ASSUME Has(s, "reservation") PROVE FALSE
      OBVIOUS
    <2>1. DueAt[s] <= clock
      BY DEF PassInv, TimesInOrder
    <2>2. Has(s, "entry")
      BY <2>1 DEF Unreconciled
    <2> QED
      BY <1>1, <1>3, <2>2 DEF Active
  <1>4. ASSUME NEW s \in ExecutableSlots(journal, clock, Active), ObserverOf[s] = ObserverOf[t]
        PROVE  s = t
    <2>1. s \in due /\ \A r \in due : ObserverOf[r] = ObserverOf[s] => s <= r
      BY DEF ExecutableSlots
    <2>2. s \in Nat /\ t \in Nat /\ s <= t /\ t <= s
      BY <1>1, <1>4, <2>1 DEF DueSlots, Slots
    <2> QED
      BY <2>2
  <1> QED
    BY <1>2, <1>3, <1>4 DEF ObserverIsFree

\* What is planned is what the time asks for.
LEMMA PlanIsTimely ==
  ASSUME CoordinatorInv, PassInv, ~Ended(journal), \A s \in Slots : ~Unreconciled(s),
         NEW step \in PlannedSteps(journal, clock, Active) \cup {AdvanceActive}
  PROVE  /\ step.type \in Recording \cup {"EXECUTE_SLOT", "ADVANCE_ACTIVE"}
         /\ step.type = "START_WINDOW" => step.slot = NoSlot /\ StartIsDue(journal, clock)
         /\ step.type = "END_WINDOW" =>
              /\ step.slot = NoSlot /\ clock >= EndAt
              /\ Started(journal) /\ TerminalSlots(journal) = Slots
         /\ step.type = "RECORD_MISSING" =>
              Started(journal) /\ step.slot \in MissingSlots(journal, clock)
         /\ step.type = "EXECUTE_SLOT" =>
              step.slot \in ExecutableSlots(journal, clock, Active)
  <1>1. CASE step = AdvanceActive
    BY <1>1 DEF AdvanceActive, Step
  <1>2. CASE StartIsDue(journal, clock) /\ step = Step("START_WINDOW", NoSlot)
    BY <1>2 DEF Step, Recording
  <1>3. CASE /\ Started(journal) /\ EndIsDue(journal, clock, Active)
             /\ step = Step("END_WINDOW", NoSlot)
    BY <1>3 DEF Step, Recording, EndIsDue
  <1>4. CASE /\ Started(journal)
             /\ \E s \in MissingSlots(journal, clock) : step = Step("RECORD_MISSING", s)
    BY <1>4 DEF Step, Recording
  <1>5. CASE \E s \in ExecutableSlots(journal, clock, Active) : step = Step("EXECUTE_SLOT", s)
    BY <1>5 DEF Step, Recording
  <1>6. CASE step # AdvanceActive
    <2>1. step \in PlannedSteps(journal, clock, Active)
      BY <1>6
    <2>2. CASE StartIsDue(journal, clock)
      <3>1. PlannedSteps(journal, clock, Active) = {Step("START_WINDOW", NoSlot)}
        BY <2>2 DEF PlannedSteps, StartIsDue, Started
      <3> QED
        BY <1>2, <2>1, <2>2, <3>1
    <2>3. CASE ~StartIsDue(journal, clock) /\ ~Started(journal)
      <3>1. PlannedSteps(journal, clock, Active) = {}
        BY <2>3 DEF PlannedSteps
      <3> QED
        BY <2>1, <3>1
    <2>4. CASE /\ ~StartIsDue(journal, clock) /\ Started(journal)
               /\ EndIsDue(journal, clock, Active)
      <3>1. PlannedSteps(journal, clock, Active) = {Step("END_WINDOW", NoSlot)}
        BY <2>4 DEF PlannedSteps
      <3> QED
        BY <1>3, <2>1, <2>4, <3>1
    <2>5. CASE /\ ~StartIsDue(journal, clock) /\ Started(journal)
               /\ ~EndIsDue(journal, clock, Active)
      <3>1. PlannedSteps(journal, clock, Active) =
              {Step("RECORD_MISSING", s) : s \in MissingSlots(journal, clock)}
                \cup {Step("EXECUTE_SLOT", s) : s \in ExecutableSlots(journal, clock, Active)}
        BY <2>5 DEF PlannedSteps
      <3> QED
        BY <1>4, <1>5, <2>1, <2>5, <3>1
    <2> QED
      BY <2>2, <2>3, <2>4, <2>5
  <1> QED
    BY <1>1, <1>6

LEMMA MakePlanPass ==
  ASSUME CoordinatorInv, PassInv, MakePlan
  PROVE  PassInv'
  <1>1. /\ pc = "reconcile" /\ ~Ended(journal) /\ \A s \in Slots : ~Unreconciled(s)
        /\ UNCHANGED <<journal, files, clock>>
    BY DEF MakePlan, diskVars, worldVars
  <1>2. CASE StopSafely("ACTIVE_AMBIGUOUS", "down")
    <2>1. plan' = {} /\ pc' = "down" /\ nowAt' = 0 /\ exit' # "JOURNAL_REFUSED"
      BY <1>2 DEF StopSafely
    <2>2. pc' \notin Busy
      BY <2>1 DEF Busy, SlotProcess, Advancing
    <2> QED
      BY <1>1, <2>1, <2>2, IdlePass
  <1>3. CASE /\ pc' = "act" /\ nowAt' = clock
             /\ plan' = PlannedSteps(journal, clock, Active) \cup {AdvanceActive}
             /\ UNCHANGED <<working, stops, exit>>
    <2>1. pc' \notin Busy /\ pc' \notin Opening
      BY <1>3 DEF Opening, Busy, SlotProcess, Advancing
    <2>2. TimesInOrder'
      BY <1>1, <1>3, <2>1, TimesAreNatural DEF PassInv, TimesInOrder, Has
    <2>3. \A t : ObserverIsFree(t) => ObserverIsFree(t)'
      BY <1>1 DEF ObserverIsFree, Has
    <2>4. OneBegun'
      BY <1>1, <2>1, <2>3 DEF PassInv, OneBegun, Has
    <2>5. ASSUME NEW step \in plan', step.type = "RECORD_MISSING",
                 NEW other \in plan', other.type = "EXECUTE_SLOT"
          PROVE  step.slot < other.slot
      <3> DEFINE s == step.slot
                 t == other.slot
      <3>1. s \in MissingSlots(journal, clock) /\ t \in ExecutableSlots(journal, clock, Active)
        BY <1>1, <1>3, <2>5, PlanIsTimely
      <3>2. s \in Slots /\ Late(s, clock) /\ t \in Slots /\ ~Late(t, clock)
        BY <1>1, <3>1, ExecutableIsFree DEF MissingSlots, DueSlots
      <3> HIDE DEF s, t
      <3>3. DueAt[s] < DueAt[t]
        BY <3>2, TimesAreNatural DEF Late
      <3>4. t <= s => DueAt[t] <= DueAt[s]
        BY <3>2, ScheduleAssumption DEF ValidSchedule
      <3>5. s < t
        BY <3>2, <3>3, <3>4, TimesAreNatural DEF Slots
      <3> QED
        BY <3>5 DEF s, t
    <2>6. RecordsAreTimely'
      <3> SUFFICES ASSUME NEW step \in plan'
                   PROVE
            /\ step.type \in Recording => \A i \in 1 .. Len(journal) : journal[i].recorded_at <= clock
            /\ step.type = "START_WINDOW" => step.slot = NoSlot /\ StartIsDue(journal, clock)
            /\ step.type = "END_WINDOW" =>
                 /\ step.slot = NoSlot /\ clock >= EndAt
                 /\ Started(journal) /\ ~Ended(journal) /\ TerminalSlots(journal) = Slots
            /\ step.type = "RECORD_MISSING" =>
                 Started(journal) /\ DueAt[step.slot] <= clock /\ Late(step.slot, clock)
            /\ step.type # "ADVANCE"
        BY <1>1, <1>3, <2>5 DEF RecordsAreTimely
      <3>1. \A i \in 1 .. Len(journal) : journal[i].recorded_at <= clock
        BY DEF PassInv, TimesInOrder
      <3> QED
        BY <1>1, <1>3, <3>1, PlanIsTimely DEF MissingSlots, DueSlots, Recording
    <2>7. ASSUME NEW step \in plan', step.type = "EXECUTE_SLOT"
          PROVE  /\ DueAt[step.slot] <= clock /\ ObserverIsFree(step.slot)'
                 /\ \A other \in plan' :
                      other.type = "EXECUTE_SLOT" /\ ObserverOf[other.slot] = ObserverOf[step.slot] =>
                        other = step
      <3>1. step.slot \in ExecutableSlots(journal, clock, Active)
        BY <1>1, <1>3, <2>7, PlanIsTimely
      <3>2. ASSUME NEW other \in plan', other.type = "EXECUTE_SLOT",
                   ObserverOf[other.slot] = ObserverOf[step.slot]
            PROVE  other.slot = step.slot
        BY <1>1, <1>3, <3>1, <3>2, PlanIsTimely, ExecutableIsFree
      <3>3. PlanInOrder'
        BY MakePlanStep DEF CoordinatorInv
      <3> QED
        BY <1>1, <2>3, <3>1, <3>2, <3>3, ExecutableIsFree DEF PlanInOrder
    <2>8. ExecutionsAreFree'
      BY <1>3, <2>1, <2>7 DEF ExecutionsAreFree
    <2> QED
      BY <1>3, <2>2, <2>4, <2>6, <2>8 DEF PassInv, JournalNeverRefuses
  <1> QED
    BY <1>2, <1>3 DEF MakePlan

\* A step that records an event at the time of the plan.
LEMMA RecordPass ==
  ASSUME CoordinatorInv, PassInv, NEW step \in plan, step.type \in Recording,
         NEW event, Shaped(event), event.recorded_at = nowAt, ValidEvent(event, journal),
         Record(step, event), UNCHANGED <<files, clock>>,
         step.type = "START_WINDOW" => event.event = "WINDOW_STARTED",
         step.type # "START_WINDOW" => Started(journal)
  PROVE  PassInv'
  <1>1. /\ journal' = Append(journal, event) /\ plan' = plan \ {step}
        /\ UNCHANGED <<pc, nowAt, working, stops, exit>>
    BY DEF Record
  <1>2. /\ pc = "act" /\ \A i \in 1 .. Len(journal) : journal[i].recorded_at <= nowAt
    BY DEF PassInv, RecordsAreTimely
  <1>3. pc' \notin Busy /\ pc' \notin Opening
    BY <1>1, <1>2 DEF Opening, Busy, SlotProcess, Advancing
  <1>4. /\ Started(journal') /\ TerminalSlots(journal) \subseteq TerminalSlots(journal')
        /\ \A i \in 1 .. Len(journal') : journal'[i].recorded_at <= nowAt
    <2>1. event.recorded_at <= nowAt
      BY TimesAreNatural
    <2> QED
      BY <1>1, <1>2, <2>1, JournalGrows
  <1>5. TimesInOrder'
    <2>1. \A i \in 1 .. Len(journal') : journal'[i].recorded_at <= clock
      <3>1. \A i \in 1 .. Len(journal) : journal[i].recorded_at <= clock
        BY DEF PassInv, TimesInOrder
      <3>2. event.recorded_at <= clock
        BY DEF PassInv, TimesInOrder
      <3> QED
        BY <1>1, <3>1, <3>2, JournalGrows
    <2> QED
      BY <1>1, <1>3, <1>4, <2>1 DEF PassInv, TimesInOrder, Has
  <1>6. \A t : ObserverIsFree(t) => ObserverIsFree(t)'
    BY <1>4, FreeKept DEF Has
  <1>7. OneBegun'
    BY <1>3, <1>4, <1>6 DEF PassInv, OneBegun, Has
  <1>8. ExecutionsAreFree'
    BY <1>1, <1>3, <1>6 DEF PassInv, ExecutionsAreFree
  <1>9. ASSUME NEW other \in plan'
        PROVE  other.type # "START_WINDOW" /\ other.type # "END_WINDOW"
    <2>1. other \in plan /\ other # step
      BY <1>1
    <2>2. other.slot # step.slot
      BY <2>1 DEF CoordinatorInv, PlanInOrder
    <2>3. ASSUME other.type = "START_WINDOW" PROVE FALSE
      <3>1. other.slot = NoSlot /\ journal = <<>>
        BY <2>1, <2>3 DEF PassInv, RecordsAreTimely, StartIsDue
      <3>2. step.type = "START_WINDOW"
        BY <3>1 DEF Started
      <3> QED
        BY <2>2, <3>1, <3>2 DEF PassInv, RecordsAreTimely
    <2>4. ASSUME other.type = "END_WINDOW" PROVE FALSE
      <3>1. other.slot = NoSlot /\ Started(journal) /\ TerminalSlots(journal) = Slots
        BY <2>1, <2>4 DEF PassInv, RecordsAreTimely
      <3>2. step.type = "RECORD_MISSING"
        BY <2>2, <3>1 DEF PassInv, RecordsAreTimely, Recording, StartIsDue, Started
      <3>3. step.slot \in Slots \ TerminalSlots(journal)
        BY <3>2 DEF CoordinatorInv, PlanIsFresh, SlotSteps
      <3> QED
        BY <3>1, <3>3
    <2> QED
      BY <2>3, <2>4
  <1>10. RecordsAreTimely'
    BY <1>1, <1>2, <1>4, <1>9 DEF PassInv, RecordsAreTimely
  <1> QED
    BY <1>1, <1>5, <1>7, <1>8, <1>10 DEF PassInv, JournalNeverRefuses

\* The journal accepts every event a plan has.
LEMMA PlannedEventPass ==
  ASSUME CoordinatorInv, PassInv, StartWindow \/ RecordMissing \/ EndWindow
  PROVE  PassInv'
  <1>1. UNCHANGED <<files, clock>> /\ nowAt \in Nat
    BY TimesAreNatural DEF StartWindow, RecordMissing, EndWindow, worldVars
  <1>2. CASE StartWindow
    <2>1. PICK step \in plan : /\ step.type = "START_WINDOW"
                               /\ Record(step, WindowStarted(nowAt))
      BY <1>2 DEF StartWindow, NextStep
    <2>2. StartIsDue(journal, nowAt)
      BY <2>1 DEF PassInv, RecordsAreTimely
    <2> DEFINE event == WindowStarted(nowAt)
    <2>3. /\ ValidEvent(event, journal) /\ Shaped(event)
          /\ event.recorded_at = nowAt /\ event.event = "WINDOW_STARTED"
      <3>1. Shaped(event)
        BY <1>1, WindowEventsShaped
      <3>2. event.recorded_at = nowAt /\ event.event = "WINDOW_STARTED"
        BY DEF WindowStarted
      <3> HIDE DEF event
      <3>3. ValidEvent(event, journal)
        BY <2>2, <3>2 DEF ValidEvent, StartIsDue
      <3> QED
        BY <3>1, <3>2, <3>3
    <2> HIDE DEF event
    <2>4. Record(step, event)
      BY <2>1 DEF event
    <2> QED
      BY <1>1, <2>1, <2>3, <2>4, RecordPass DEF Recording
  <1>3. CASE EndWindow
    <2>1. PICK step \in plan : step.type = "END_WINDOW" /\ Record(step, WindowEnded(nowAt))
      BY <1>3 DEF EndWindow, NextStep
    <2>2. /\ Started(journal) /\ ~Ended(journal) /\ TerminalSlots(journal) = Slots
          /\ nowAt >= EndAt /\ \A i \in 1 .. Len(journal) : journal[i].recorded_at <= nowAt
      BY <2>1 DEF PassInv, RecordsAreTimely, Recording
    <2> DEFINE event == WindowEnded(nowAt)
    <2>3. ValidEvent(event, journal) /\ Shaped(event) /\ event.recorded_at = nowAt
      <3>1. Shaped(event)
        BY <1>1, WindowEventsShaped
      <3>2. event.recorded_at = nowAt /\ event.event = "WINDOW_ENDED"
        BY DEF WindowEnded
      <3> HIDE DEF event
      <3>3. journal # <<>> => nowAt >= Last(journal).recorded_at
        <4>1. journal # <<>> => Last(journal).recorded_at <= nowAt
          BY <2>2, LastIsOne
        <4> QED
          BY <4>1
      <3>4. ValidEvent(event, journal)
        BY <2>2, <3>2, <3>3 DEF ValidEvent
      <3> QED
        BY <3>1, <3>2, <3>4
    <2> HIDE DEF event
    <2>4. Record(step, event)
      BY <2>1 DEF event
    <2> QED
      BY <1>1, <2>1, <2>2, <2>3, <2>4, RecordPass DEF Recording
  <1>4. CASE RecordMissing
    <2>1. PICK step \in plan : /\ step.type = "RECORD_MISSING"
                               /\ Record(step, SlotTerminal(step.slot, "MISSING", nowAt))
      BY <1>4 DEF RecordMissing, NextStep
    <2>2. /\ Started(journal) /\ DueAt[step.slot] <= nowAt /\ Late(step.slot, nowAt)
          /\ \A i \in 1 .. Len(journal) : journal[i].recorded_at <= nowAt
      BY <2>1 DEF PassInv, RecordsAreTimely, Recording
    <2>3. step.slot \in Slots \ TerminalSlots(journal)
      BY <2>1 DEF CoordinatorInv, PlanIsFresh, SlotSteps
    <2> DEFINE event == SlotTerminal(step.slot, "MISSING", nowAt)
    <2>4. ValidEvent(event, journal)
      BY <1>1, <2>2, <2>3, TerminalIsValid
    <2>5. Shaped(event) /\ event.recorded_at = nowAt
      BY <1>1, <2>3, TerminalShaped DEF SlotTerminal, Statuses
    <2> HIDE DEF event
    <2>6. Record(step, event)
      BY <2>1 DEF event
    <2> QED
      BY <1>1, <2>1, <2>2, <2>4, <2>5, <2>6, RecordPass DEF Recording
  <1> QED
    BY <1>2, <1>3, <1>4

\* The first slot of the plan, or an active one, is taken in hand.
LEMMA TakePass ==
  ASSUME CoordinatorInv, PassInv, ExecuteSlot \/ Advance
  PROVE  PassInv'
  <1>1. PICK step \in plan :
          /\ pc = "act" /\ plan' = plan \ {step} /\ working' = step.slot
          /\ pc' \in {"openSequence", "reserveTransport"}
          /\ UNCHANGED <<journal, files, clock, nowAt, exit>>
          /\ \/ step.type = "EXECUTE_SLOT" /\ \A other \in plan : step.slot <= other.slot
             \/ step.type = "ADVANCE" /\ pc' = "reserveTransport"
    BY DEF ExecuteSlot, Advance, NextStep, Take, diskVars, worldVars
  <1>2. step.slot \in Slots \ TerminalSlots(journal)
    BY <1>1 DEF CoordinatorInv, PlanIsFresh, SlotSteps
  <1>3. ASSUME step.type = "EXECUTE_SLOT", NEW other \in plan, other.type \in Recording
        PROVE  FALSE
    <2>1. step.slot <= other.slot /\ step.slot \in Nat /\ step.slot > 0
      BY <1>1, <1>2, <1>3 DEF Slots
    <2>2. CASE other.type = "RECORD_MISSING"
      <3>1. other.slot < step.slot /\ other.slot \in Slots
        BY <1>3, <2>2 DEF PassInv, RecordsAreTimely, CoordinatorInv, PlanIsFresh, SlotSteps
      <3> QED
        BY <2>1, <3>1 DEF Slots
    <2>3. CASE other.type # "RECORD_MISSING"
      <3>1. other.slot = 0
        BY <1>3, <2>3 DEF PassInv, RecordsAreTimely, Recording, NoSlot
      <3> QED
        BY <2>1, <3>1
    <2> QED
      BY <2>2, <2>3
  <1>4. \A other \in plan : other.type \notin Recording
    BY <1>1, <1>3 DEF PassInv, RecordsAreTimely, Recording
  <1>5. Started(journal) /\ DueAt[step.slot] <= clock
    <2>1. CASE step.type = "EXECUTE_SLOT"
      <3>1. DueAt[step.slot] <= nowAt /\ nowAt <= clock
        BY <2>1 DEF PassInv, ExecutionsAreFree, TimesInOrder
      <3>2. Started(journal)
        BY <2>1 DEF CoordinatorInv, PlanIsFresh
      <3> QED
        BY <1>2, <3>1, <3>2, TimesAreNatural
    <2>2. CASE step.type = "ADVANCE"
      <3>1. Has(step.slot, "entry")
        BY <2>2 DEF CoordinatorInv, PlanIsFresh
      <3> QED
        BY <1>2, <3>1, EntryIsReserved DEF PassInv, TimesInOrder
    <2> QED
      BY <1>1, <2>1, <2>2
  <1>6. TimesInOrder'
    BY <1>1, <1>5 DEF PassInv, TimesInOrder, Has
  <1>7. RecordsAreTimely'
    BY <1>1, <1>4 DEF PassInv, RecordsAreTimely, Recording
  <1>8. \A t : ObserverIsFree(t) => ObserverIsFree(t)'
    BY <1>1 DEF ObserverIsFree, Has
  <1>9. ExecutionsAreFree'
    <2>1. CASE step.type = "EXECUTE_SLOT"
      <3>1. \A other \in plan' : other.type = "EXECUTE_SLOT" =>
              ObserverOf[step.slot] # ObserverOf[other.slot]
        BY <1>1, <2>1 DEF PassInv, ExecutionsAreFree
      <3> QED
        BY <1>1, <1>8, <3>1 DEF PassInv, ExecutionsAreFree
    <2>2. CASE step.type = "ADVANCE"
      <3>1. \A other \in plan' : other.type # "EXECUTE_SLOT"
        BY <1>1, <2>2 DEF PassInv, RecordsAreTimely
      <3> QED
        BY <3>1 DEF ExecutionsAreFree
    <2> QED
      BY <1>1, <2>1, <2>2
  <1>10. OneBegun'
    <2>1. pc' \in Opening => ObserverIsFree(step.slot)
      BY <1>1 DEF PassInv, ExecutionsAreFree, Opening
    <2>2. \A s \in Slots \ TerminalSlots(journal) : Has(s, "reservation") => ObserverIsFree(s)
      BY DEF PassInv, OneBegun
    <2> QED
      BY <1>1, <1>8, <2>1, <2>2 DEF OneBegun, Has
  <1> QED
    BY <1>1, <1>6, <1>7, <1>9, <1>10 DEF PassInv, JournalNeverRefuses

\* After the planned steps, what is active is advanced.
LEMMA ListActivePass ==
  ASSUME CoordinatorInv, PassInv, ListActive
  PROVE  PassInv'
  <1>1. /\ pc = "act" /\ pc' = "act" /\ UNCHANGED <<journal, files, clock, nowAt, working, exit>>
        /\ \A step \in plan' : step.type = "ADVANCE"
    BY DEF ListActive, diskVars, worldVars, Step
  <1>2. pc' \notin Busy /\ pc' \notin Opening
    BY <1>1 DEF Opening, Busy, SlotProcess, Advancing
  <1>3. TimesInOrder'
    BY <1>1, <1>2 DEF PassInv, TimesInOrder, Has
  <1>4. RecordsAreTimely' /\ ExecutionsAreFree'
    BY <1>1 DEF RecordsAreTimely, ExecutionsAreFree, Recording
  <1>5. OneBegun'
    BY <1>1, <1>2 DEF PassInv, OneBegun, ObserverIsFree, Has
  <1> QED
    BY <1>1, <1>3, <1>4, <1>5 DEF PassInv, JournalNeverRefuses

-----------------------------------------------------------------------------
(* The start of a pass, and the work on one slot.                          *)

\* What the journals show of a slot decides what becomes of it.
LEMMA ReconcilePass ==
  ASSUME CoordinatorInv, PassInv, NEW s \in Slots, Reconcile(s)
  PROVE  PassInv'
  <1>1. pc = "reconcile" /\ UNCHANGED clock /\ Has(s, "reservation")
    BY DEF Reconcile, Unreconciled, worldVars
  <1>2. Started(journal) /\ DueAt[s] <= clock
    BY <1>1 DEF PassInv, TimesInOrder
  <1>3. CASE AddFile(s, "entry") /\ Goto("reconcile") /\ UNCHANGED journal
    <2>1. \A t \in Slots : Has(t, "reservation")' => Has(t, "reservation")
      BY <1>3, NotReserved
    <2>2. UNCHANGED <<nowAt, plan, working, exit>> /\ pc' = "reconcile"
      BY <1>3 DEF Goto
    <2>3. pc' \notin Busy /\ pc' \notin Opening
      BY <2>2 DEF Opening, Busy, SlotProcess, Advancing
    <2> QED
      BY <1>1, <1>3, <2>1, <2>2, <2>3, QuietPass
  <1>4. CASE MarkInvalid(s, "reconcile") /\ UNCHANGED files
    <2>1. \A step \in plan : step.type \notin Recording
      BY <1>1, NoRecording
    <2> QED
      BY <1>1, <1>2, <1>4, <2>1, GivenUpPass
  <1> QED
    BY <1>3, <1>4 DEF Reconcile

\* The slot in hand is given up, or found to qualify.
LEMMA ConcludePass ==
  ASSUME CoordinatorInv, PassInv, pc \in Busy, UNCHANGED <<files, clock>>,
         \/ MarkInvalid(working, "act")
         \/ LET qualifying == SlotTerminal(working, "QUALIFYING", clock)
            IN /\ ValidEvent(qualifying, journal)
               /\ journal' = Append(journal, qualifying)
               /\ Goto("act")
  PROVE  PassInv'
  <1>1. working \in Slots
    BY InHand
  <1>2. \A step \in plan : step.type \notin Recording
    <2>1. pc # "act"
      BY DEF Busy, SlotProcess, Advancing
    <2> QED
      BY <2>1, NoRecording
  <1>3. CASE MarkInvalid(working, "act")
    <2>1. Started(journal) /\ DueAt[working] <= clock
      BY DEF PassInv, TimesInOrder
    <2> QED
      BY <1>1, <1>2, <1>3, <2>1, GivenUpPass
  <1> DEFINE event == SlotTerminal(working, "QUALIFYING", clock)
  <1>4. CASE ValidEvent(event, journal) /\ journal' = Append(journal, event) /\ Goto("act")
    <2>1. Shaped(event) /\ event.recorded_at = clock
      BY <1>1, TimesAreNatural, TerminalShaped DEF Statuses, SlotTerminal
    <2> HIDE DEF event
    <2>2. pc' = "act" /\ UNCHANGED <<nowAt, plan, exit>>
      BY <1>4 DEF Goto
    <2> QED
      BY <1>2, <1>4, <2>1, <2>2, PresentPass
  <1> QED
    BY <1>3, <1>4

\* The work on a slot goes on without recording or reserving it.
LEMMA WorkPass ==
  ASSUME CoordinatorInv, PassInv, pc \in Busy,
         NEW label \in Busy \cup {"act"}, Goto(label), label \in Opening => pc \in Opening,
         UNCHANGED <<journal, clock>>,
         \/ UNCHANGED files
         \/ \E file \in FileNames \ {"reservation"} : AddFile(working, file)
  PROVE  PassInv'
  <1>1. UNCHANGED <<nowAt, plan, working, exit>> /\ pc' = label
    BY DEF Goto
  <1>2. pc # "act"
    BY DEF Busy, SlotProcess, Advancing
  <1>3. \A s \in Slots : Has(s, "reservation")' => Has(s, "reservation")
    <2>1. working \in Slots
      BY InHand
    <2> QED
      BY <2>1, NotReserved DEF Has
  <1> QED
    BY <1>1, <1>2, <1>3, QuietPass

\* The slot's own files say that its side effects began.
LEMMA ReservePass ==
  ASSUME CoordinatorInv, PassInv, pc = "reserve", Goto("reserveSequence"),
         AddFile(working, "reservation"), UNCHANGED <<journal, clock>>
  PROVE  PassInv'
  <1>1. pc \in Busy /\ pc \in Opening /\ pc' \notin Opening /\ pc' # "act"
    BY DEF Goto, Opening, Busy, SlotProcess
  <1>2. working \in Slots /\ working \notin TerminalSlots(journal)
    BY <1>1, InHand
  <1>3. /\ UNCHANGED <<nowAt, plan, working, exit>>
        /\ \A s \in Slots : Has(s, "reservation")' => Has(s, "reservation") \/ s = working
    <2>1. files \in [Slots -> SUBSET FileNames]
      BY DEF CoordinatorInv, TypeOK
    <2> QED
      BY <1>2, <2>1 DEF AddFile, Has, Goto
  <1>4. Started(journal) /\ DueAt[working] <= clock
    BY <1>1 DEF PassInv, TimesInOrder
  <1>5. TimesInOrder'
    BY <1>2, <1>3, <1>4 DEF PassInv, TimesInOrder
  <1>6. RecordsAreTimely'
    BY <1>1, <1>3, NoRecording DEF PassInv, RecordsAreTimely
  <1>7. ASSUME NEW t, ObserverIsFree(t), t = working \/ ObserverOf[t] # ObserverOf[working]
        PROVE  ObserverIsFree(t)'
    BY <1>3, <1>7 DEF ObserverIsFree
  <1>8. ExecutionsAreFree'
    <2>1. \A step \in plan : step.type = "EXECUTE_SLOT" =>
            ObserverIsFree(step.slot) /\ ObserverOf[working] # ObserverOf[step.slot]
      BY <1>1 DEF PassInv, ExecutionsAreFree
    <2>2. \A step \in plan : step.type = "EXECUTE_SLOT" => ObserverIsFree(step.slot)'
      BY <1>7, <2>1
    <2> QED
      BY <1>3, <2>1, <2>2 DEF PassInv, ExecutionsAreFree
  <1>9. ASSUME NEW s \in Slots \ TerminalSlots(journal), Has(s, "reservation")'
        PROVE  ObserverIsFree(s)'
    <2>1. ObserverIsFree(working)
      BY <1>1 DEF PassInv, OneBegun
    <2>2. CASE s = working
      BY <1>7, <2>1, <2>2
    <2>3. CASE s # working
      <3>1. Has(s, "reservation")
        BY <1>3, <1>9, <2>3
      <3>2. ObserverOf[s] # ObserverOf[working]
        BY <2>1, <2>3, <3>1 DEF ObserverIsFree
      <3>3. ObserverIsFree(s)
        BY <3>1 DEF PassInv, OneBegun
      <3> QED
        BY <1>7, <3>2, <3>3
    <2> QED
      BY <2>2, <2>3
  <1>10. OneBegun'
    BY <1>1, <1>9 DEF OneBegun
  <1> QED
    BY <1>3, <1>5, <1>6, <1>8, <1>10 DEF PassInv, JournalNeverRefuses

LEMMA SlotProcessPass ==
  ASSUME CoordinatorInv, PassInv, SlotProcessStep
  PROVE  PassInv'
  <1>1. CASE SlotFailed
    <2>1. pc \in Busy /\ UNCHANGED <<files, clock>> /\ MarkInvalid(working, "act")
      BY <1>1 DEF SlotFailed, Busy, worldVars
    <2> QED
      BY <2>1, ConcludePass
  <1>2. CASE ReserveSlot
    <2>1. pc = "reserve" /\ UNCHANGED <<journal, clock>>
      BY <1>2 DEF ReserveSlot, InSlotProcess
    <2>2. CASE Goto("slotFailed") /\ UNCHANGED files
      <3>1. pc \in Busy /\ "slotFailed" \in Busy \cup {"act"} /\ "slotFailed" \notin Opening
        BY <2>1 DEF Busy, SlotProcess, Opening
      <3> QED
        BY <2>1, <2>2, <3>1, WorkPass
    <2>3. CASE Goto("reserveSequence") /\ AddFile(working, "reservation")
      BY <2>1, <2>3, ReservePass
    <2> QED
      BY <1>2, <2>2, <2>3 DEF ReserveSlot
  <1>3. CASE OpenSequence \/ OpenQuota \/ ReleaseLocks
    <2>1. PICK label \in {"slotFailed", "openQuota", "reserve", "release", "reserveTransport"} :
            /\ Goto(label) /\ pc \in {"openSequence", "openQuota", "release"}
            /\ label \in Opening => pc \in Opening
            /\ UNCHANGED <<journal, files, clock>>
      BY <1>3 DEF OpenSequence, OpenQuota, ReleaseLocks, InSlotProcess, Opening
    <2>2. pc \in Busy /\ label \in Busy \cup {"act"}
      BY <2>1 DEF Busy, SlotProcess, Advancing
    <2> QED
      BY <2>1, <2>2, WorkPass
  <1>4. CASE ReserveSequence \/ Prepare \/ Submit \/ Acknowledge \/ SignAssignment \/ WriteOutput
    <2>1. /\ \E label \in {"slotFailed", "prepare", "submit", "acknowledge", "assign",
                           "output", "release"} : Goto(label)
          /\ pc \in SlotProcess /\ UNCHANGED <<journal, clock>>
          /\ \/ UNCHANGED files
             \/ \E file \in {"sequence", "prepared", "acknowledged", "assignment", "entry"} :
                  AddFile(working, file)
      BY <1>4 DEF ReserveSequence, Prepare, Submit, Acknowledge, SignAssignment, WriteOutput,
                  WriteOrFail, InSlotProcess, SlotProcess
    <2>2. PICK label \in {"slotFailed", "prepare", "submit", "acknowledge", "assign",
                          "output", "release"} : Goto(label)
      BY <2>1
    <2>3. pc \in Busy /\ label \in Busy \cup {"act"} /\ label \notin Opening
      BY <2>1 DEF Busy, SlotProcess, Opening
    <2>4. \/ UNCHANGED files
          \/ \E file \in FileNames \ {"reservation"} : AddFile(working, file)
      BY <2>1 DEF FileNames
    <2> QED
      BY <2>1, <2>2, <2>3, <2>4, WorkPass
  <1> QED
    BY <1>1, <1>2, <1>3, <1>4 DEF SlotProcessStep

LEMMA AdvancePass ==
  ASSUME CoordinatorInv, PassInv, AdvanceStep
  PROVE  PassInv'
  <1>1. pc \in Advancing /\ UNCHANGED clock
    BY DEF AdvanceStep, ReserveTransport, Transport, ObserveReceipt, ReserveStart, StartWorker,
           ObserveCompletion, Complete, InAdvance, Advancing
  <1>2. pc \in Busy
    BY <1>1 DEF Busy
  <1>3. CASE \/ ReserveTransport \/ Transport \/ ReserveStart \/ StartWorker
    <2>1. /\ \E label \in {"reserveStart", "receipt", "transport", "start", "completion"} : Goto(label)
          /\ UNCHANGED journal
          /\ \/ UNCHANGED files
             \/ \E file \in {"transportReserved", "workerStartReserved"} : AddFile(working, file)
      BY <1>3 DEF ReserveTransport, Transport, ReserveStart, StartWorker, InAdvance
    <2>2. PICK label \in {"reserveStart", "receipt", "transport", "start", "completion"} : Goto(label)
      BY <2>1
    <2>3. label \in Busy \cup {"act"} /\ label \notin Opening
      BY DEF Busy, Advancing, Opening
    <2>4. \/ UNCHANGED files
          \/ \E file \in FileNames \ {"reservation"} : AddFile(working, file)
      BY <2>1 DEF FileNames
    <2> QED
      BY <1>1, <1>2, <2>1, <2>2, <2>3, <2>4, WorkPass
  <1>4. CASE AddFile(working, "receipt") /\ Goto("reserveStart") /\ UNCHANGED journal
    <2>1. "reserveStart" \in Busy \cup {"act"} /\ "reserveStart" \notin Opening
      BY DEF Busy, Advancing, Opening
    <2>2. \E file \in FileNames \ {"reservation"} : AddFile(working, file)
      BY <1>4 DEF FileNames
    <2> QED
      BY <1>1, <1>2, <1>4, <2>1, <2>2, WorkPass
  <1>5. CASE Goto("complete") /\ UNCHANGED <<journal, files>>
    <2>1. "complete" \in Busy \cup {"act"} /\ "complete" \notin Opening
      BY DEF Busy, Advancing, Opening
    <2> QED
      BY <1>1, <1>2, <1>5, <2>1, WorkPass
  <1>6. CASE NotObserved /\ UNCHANGED files
    <2>1. CASE MarkInvalid(working, "act")
      BY <1>1, <1>2, <1>6, <2>1, ConcludePass
    <2>2. CASE UNCHANGED journal /\ Goto("act")
      <3>1. "act" \in Busy \cup {"act"} /\ "act" \notin Opening
        BY DEF Opening
      <3> QED
        BY <1>1, <1>2, <1>6, <2>2, <3>1, WorkPass
    <2> QED
      BY <1>6, <2>1, <2>2 DEF NotObserved
  <1>7. CASE Complete
    <2>1. UNCHANGED files
      BY <1>7 DEF Complete
    <2> QED
      BY <1>1, <1>2, <1>7, <2>1, ConcludePass DEF Complete
  <1> QED
    BY <1>3, <1>4, <1>5, <1>6, <1>7 DEF AdvanceStep, ObserveReceipt, ObserveCompletion

-----------------------------------------------------------------------------
(* The whole.                                                              *)

\* The end of a pass or of the process.
LEMMA EndPasses ==
  ASSUME CoordinatorInv, PassInv,
         \/ Finish \/ BlockStart \/ RefuseTornFile \/ EndPass \/ Restart
         \/ \E tears \in BOOLEAN : Crash(tears)
  PROVE  PassInv'
  <1>1. /\ plan' = {} \/ UNCHANGED plan
        /\ pc' \in {"ended", "blocked", "reconcile", "down"}
        /\ nowAt' \in {0, nowAt} /\ UNCHANGED <<journal, files, clock>>
        /\ exit' \in {exit, "START_MISSED", "UNREADABLE"}
    BY DEF Finish, BlockStart, RefuseTornFile, EndPass, Restart, Crash, StopSafely, Goto,
           diskVars, worldVars
  <1>2. plan' = {}
    <2>1. CASE Finish \/ Restart
      <3>1. pc \in {"reconcile", "down"} /\ UNCHANGED plan
        BY <2>1 DEF Finish, Restart, Goto
      <3>2. pc \notin Busy \cup {"act"}
        BY <3>1 DEF Busy, SlotProcess, Advancing
      <3> QED
        BY <3>1, <3>2 DEF CoordinatorInv, PlanInOrder
    <2>2. CASE EndPass
      BY <2>2 DEF EndPass
    <2>3. CASE BlockStart \/ RefuseTornFile \/ \E tears \in BOOLEAN : Crash(tears)
      BY <2>3 DEF BlockStart, RefuseTornFile, Crash, StopSafely
    <2> QED
      BY <2>1, <2>2, <2>3
  <1>3. pc' \notin Busy
    BY <1>1 DEF Busy, SlotProcess, Advancing
  <1>4. exit' # "JOURNAL_REFUSED"
    BY <1>1 DEF PassInv, JournalNeverRefuses
  <1> QED
    BY <1>1, <1>2, <1>3, <1>4, IdlePass

LEMMA WorldPass ==
  ASSUME CoordinatorInv, PassInv,
         Tick \/ (\E s \in Slots : RemoteProgress(s)) \/ UNCHANGED vars
  PROVE  PassInv'
  <1>1. /\ UNCHANGED <<journal, files, nowAt, plan, exit, pc, working>>
        /\ clock' \in {clock, clock + 1}
    BY DEF Tick, RemoteProgress, vars, diskVars, worldVars, processVars
  <1>2. \A s \in Slots : Has(s, "reservation")' => Has(s, "reservation")
    BY <1>1 DEF Has
  <1> QED
    BY <1>1, <1>2, QuietPass

LEMMA PassEstablished == Init => PassInv
  <1> SUFFICES ASSUME Init PROVE PassInv
    OBVIOUS
  <1>1. pc \notin Busy /\ pc \notin Opening
    BY DEF Init, Busy, SlotProcess, Advancing, Opening
  <1>2. \A s \in Slots : ~Has(s, "reservation")
    BY DEF Init, Has
  <1>3. TimesInOrder
    BY <1>1, <1>2 DEF Init, TimesInOrder
  <1>4. OneBegun
    BY <1>1, <1>2 DEF OneBegun
  <1> QED
    BY <1>3, <1>4 DEF Init, PassInv, RecordsAreTimely, ExecutionsAreFree, JournalNeverRefuses

LEMMA PassPreserved == CoordinatorInv /\ PassInv /\ [Next]_vars => PassInv'
  <1> SUFFICES ASSUME CoordinatorInv, PassInv, [Next]_vars
               PROVE  PassInv'
    OBVIOUS
  <1>1. CASE \E s \in Slots : Reconcile(s)
    BY <1>1, ReconcilePass
  <1>2. CASE MakePlan
    BY <1>2, MakePlanPass
  <1>3. CASE StartWindow \/ RecordMissing \/ EndWindow
    BY <1>3, PlannedEventPass
  <1>4. CASE ExecuteSlot \/ Advance
    BY <1>4, TakePass
  <1>5. CASE ListActive
    BY <1>5, ListActivePass
  <1>6. CASE SlotProcessStep
    BY <1>6, SlotProcessPass
  <1>7. CASE AdvanceStep
    BY <1>7, AdvancePass
  <1>8. CASE \/ Finish \/ BlockStart \/ RefuseTornFile \/ EndPass \/ Restart
             \/ \E tears \in BOOLEAN : Crash(tears)
    BY <1>8, EndPasses
  <1>9. CASE Tick \/ (\E s \in Slots : RemoteProgress(s)) \/ UNCHANGED vars
    BY <1>9, WorldPass
  <1> QED
    BY <1>1, <1>2, <1>3, <1>4, <1>5, <1>6, <1>7, <1>8, <1>9 DEF Next, CoordinatorStep

\* In every reachable state what a plan says still holds when it is carried
\* out, and an observer has at most one slot begun.
THEOREM PassInvariant == Spec => []PassInv
  <1>1. Spec => []CoordinatorInv
    BY CoordinatorInvariant
  <1> QED
    BY <1>1, PassEstablished, PassPreserved, PTL DEF Spec

\* Nothing legal stops the coordinator for good: its journal accepts every
\* event it records, whatever moved between the plan and the record, and no
\* observer ever has two assignments in progress, whatever crashed in between.
THEOREM CoordinatorNeverStops == Spec => []CoordinatorGoesOn
  <1>1. CoordinatorInv /\ PassInv => CoordinatorGoesOn
    <2> SUFFICES ASSUME CoordinatorInv, PassInv, Ambiguous(Active)
                 PROVE  FALSE
      BY DEF CoordinatorGoesOn, OneActivePerObserver, PassInv
    <2>1. PICK s \in Active, t \in Active : s # t /\ ObserverOf[s] = ObserverOf[t]
      BY DEF Ambiguous
    <2>2. /\ s \in Slots \ TerminalSlots(journal) /\ Has(s, "entry")
          /\ t \in Slots \ TerminalSlots(journal) /\ Has(t, "entry")
      BY <2>1 DEF Active
    <2>3. Has(s, "reservation") /\ Has(t, "reservation")
      BY <2>2, EntryIsReserved
    <2>4. ObserverIsFree(s)
      BY <2>2, <2>3 DEF PassInv, OneBegun
    <2> QED
      BY <2>1, <2>2, <2>3, <2>4 DEF ObserverIsFree
  <1>2. Spec => []CoordinatorInv
    BY CoordinatorInvariant
  <1>3. Spec => []PassInv
    BY PassInvariant
  <1> QED
    BY <1>1, <1>2, <1>3, PTL
=============================================================================
