------------------------- MODULE OfficialCoordinator -------------------------
(***************************************************************************)
(* The coordinator of the official window, with the slot process it spawns *)
(* and the observer hosts it reaches over SSH:                             *)
(*   scripts/run-grant-m2-official-coordinator.mjs    the passes           *)
(*   scripts/run-grant-m2-official-slot.mjs and                            *)
(*   scripts/lib/grant-m2-official-slot-runner.mjs    one transaction      *)
(*   scripts/complete-grant-m2-official-slot.mjs      one QUALIFYING event *)
(*                                                                         *)
(* One coordinator runs at a time (flock).  Every external side effect is  *)
(* preceded by a write-once file, and what a restart finds of those files  *)
(* decides what becomes of the slot.  A step of the model is the work      *)
(* between two of those files; the process may die between any two steps,  *)
(* and the clock may move at any time.                                     *)
(***************************************************************************)
EXTENDS OfficialJournal

CONSTANTS
  Lifetime,          \* expiresAt - issuedAt of an assignment (180 s)
  MaxClock,          \* bound: the last tick of the clock
  MaxStops           \* bound: abnormal exits; systemd allows six in five minutes

ASSUME CoordinatorAssumption == Lifetime \in Nat /\ MaxClock \in Nat /\ MaxStops \in Nat

VARIABLES
  journal,           \* the official journal: its events
  files,             \* the write-once files of each slot
  issuedAt,          \* issuedAt of each slot's assignment
  locks,             \* lock directories of the sequence and quota journals
  unreadable,        \* a crash tore an event or an entry: every load throws
  clock,
  effects,           \* how often each side effect of a slot was attempted
  remote,            \* what the observer host has of each slot
  pc,                \* where the coordinator is
  nowAt,             \* the time its plan was made for
  plan,              \* steps of the current pass still to be taken
  working,           \* the slot being prepared or advanced
  stops,             \* abnormal exits so far
  exit               \* why the coordinator last stopped by itself

diskVars == <<journal, files, issuedAt, locks, unreadable>>
worldVars == <<clock, effects, remote>>
processVars == <<pc, nowAt, plan, working, stops, exit>>
vars == <<diskVars, worldVars, processVars>>

\* The slot's side-effect journal, its prepared-dispatch.json (entry) and its
\* coordinator states, each written once.
FileNames == {"reservation", "sequence", "prepared", "acknowledged", "assignment",
              "entry", "transportReserved", "receipt", "workerStartReserved"}
EffectNames == {"submissions", "transports", "workerStarts"}
RemoteFacts == {"receipt", "worker", "completion", "delivery"}
QuotaLock == "coordinator-quota"

SlotProcess == {"openSequence", "openQuota", "reserve", "reserveSequence", "prepare",
                "submit", "acknowledge", "assign", "output", "release"}
Advancing == {"reserveTransport", "transport", "receipt", "reserveStart", "start",
              "completion", "complete"}
ProgramCounters == SlotProcess \cup Advancing \cup
  {"down", "reconcile", "act", "slotFailed", "ended", "blocked"}

Has(s, file) == file \in files[s]
AddFile(s, file) == files' = [files EXCEPT ![s] = @ \cup {file}]
Attempt(s, effect) == effects' = [effects EXCEPT ![s][effect] = @ + 1]
Expired(s) == clock > issuedAt[s] + Lifetime

-----------------------------------------------------------------------------
Init ==
  /\ journal = <<>>
  /\ files = [s \in Slots |-> {}]
  /\ issuedAt = [s \in Slots |-> 0]
  /\ locks = {}
  /\ unreadable = FALSE
  /\ clock = 0
  /\ effects = [s \in Slots |-> [e \in EffectNames |-> 0]]
  /\ remote = [s \in Slots |-> {}]
  /\ pc = "reconcile"
  /\ nowAt = 0
  /\ plan = {}
  /\ working = NoSlot
  /\ stops = 0
  /\ exit = "NONE"

Goto(label) == pc' = label /\ UNCHANGED <<nowAt, plan, working, stops, exit>>

\* An exception reaches the main loop: "safe mode", and a nonzero exit.
StopSafely(reason, label) ==
  /\ pc' = label
  /\ exit' = reason
  /\ stops' = stops + 1
  /\ nowAt' = 0 /\ plan' = {} /\ working' = NoSlot

\* appendGrantM2OfficialEvent(): an event the journal refuses is an exception.
AppendEvent(event, label) ==
  IF ValidEvent(event, journal)
  THEN journal' = Append(journal, event) /\ Goto(label)
  ELSE UNCHANGED journal /\ StopSafely("JOURNAL_REFUSED", "down")

\* markInvalid(): a slot that is terminal already is left alone.
MarkInvalid(s, label) ==
  IF s \in TerminalSlots(journal)
  THEN UNCHANGED journal /\ Goto(label)
  ELSE AppendEvent(SlotTerminal(s, "INVALID", clock), label)

-----------------------------------------------------------------------------
(***************************************************************************)
(* The start of a pass: reconcilePreparedSlots(), activeAssignments() and  *)
(* the plan.                                                               *)
(***************************************************************************)

\* A slot whose side effects began, and whose assignment never reached the
\* coordinator's slot directory.
Unreconciled(s) ==
  /\ s \notin TerminalSlots(journal)
  /\ DueAt[s] <= clock
  /\ ~Has(s, "entry") /\ Has(s, "reservation")

\* Faulty variant: a slot without an assignment is left to be executed again.
ReconcileForgetting(s) ==
  /\ pc = "reconcile" /\ ~unreadable /\ Unreconciled(s)
  /\ files' = [files EXCEPT ![s] = IF Has(s, "assignment") THEN @ \cup {"entry"} ELSE {}]
  /\ locks' = {}
  /\ Goto("reconcile")
  /\ UNCHANGED <<journal, issuedAt, unreadable>> /\ UNCHANGED worldVars

\* Faulty variant: a slot that cannot be recovered waits for the operator.
ReconcileWaiting(s) ==
  /\ pc = "reconcile" /\ ~unreadable /\ Unreconciled(s)
  /\ Has(s, "assignment")
  /\ AddFile(s, "entry") /\ Goto("reconcile") /\ UNCHANGED journal
  /\ UNCHANGED <<issuedAt, locks, unreadable>> /\ UNCHANGED worldVars

\* A prepared assignment is recovered; anything less is INVALID, for the
\* transaction may have been sent.
Reconcile(s) ==
  /\ pc = "reconcile" /\ ~unreadable /\ Unreconciled(s)
  /\ IF Has(s, "assignment")
     THEN AddFile(s, "entry") /\ Goto("reconcile") /\ UNCHANGED journal
     ELSE MarkInvalid(s, "reconcile") /\ UNCHANGED files
  /\ UNCHANGED <<issuedAt, locks, unreadable>> /\ UNCHANGED worldVars

\* Faulty variant: a slot stays active after its terminal event.
ActiveUntilForgotten == {s \in Slots : Has(s, "entry")}

\* activeAssignments()
Active == {s \in Slots \ TerminalSlots(journal) : Has(s, "entry")}

\* validateActiveAssignments() allows one per observer.
Ambiguous(active) ==
  \E s, t \in active : s # t /\ ObserverOf[s] = ObserverOf[t]

\* After the steps of the plan, whatever is active then is advanced.
AdvanceActive == Step("ADVANCE_ACTIVE", NumSlots + 1)

MakePlan ==
  /\ pc = "reconcile" /\ ~unreadable
  /\ ~Ended(journal) /\ ~StartIsMissed(journal, clock)
  /\ \A s \in Slots : ~Unreconciled(s)
  /\ IF Started(journal) /\ Ambiguous(Active)
     THEN StopSafely("ACTIVE_AMBIGUOUS", "down")
     ELSE /\ pc' = "act"
          /\ nowAt' = clock
          /\ plan' = PlannedSteps(journal, clock, Active) \cup {AdvanceActive}
          /\ UNCHANGED <<working, stops, exit>>
  /\ UNCHANGED diskVars /\ UNCHANGED worldVars

\* The window is over: the coordinator exits normally.
Finish ==
  /\ pc = "reconcile" /\ ~unreadable /\ Ended(journal)
  /\ Goto("ended")
  /\ UNCHANGED diskVars /\ UNCHANGED worldVars

\* M2_OFFICIAL_START_TOLERANCE_MISSED, again after every restart.
BlockStart ==
  /\ pc = "reconcile" /\ ~unreadable /\ StartIsMissed(journal, clock)
  /\ StopSafely("START_MISSED", "blocked")
  /\ UNCHANGED diskVars /\ UNCHANGED worldVars

-----------------------------------------------------------------------------
(***************************************************************************)
(* The steps of a plan, in schedule order.                                 *)
(***************************************************************************)
NextStep(type) ==
  {step \in plan : step.type = type /\ \A other \in plan : step.slot <= other.slot}

\* Take a step that appends an event of the plan's time.
Record(step, event) ==
  IF ValidEvent(event, journal)
  THEN /\ journal' = Append(journal, event)
       /\ plan' = plan \ {step}
       /\ UNCHANGED <<pc, nowAt, working, stops, exit>>
  ELSE UNCHANGED journal /\ StopSafely("JOURNAL_REFUSED", "down")

StartWindow ==
  /\ pc = "act"
  /\ \E step \in NextStep("START_WINDOW") : Record(step, WindowStarted(nowAt))
  /\ UNCHANGED <<files, issuedAt, locks, unreadable>> /\ UNCHANGED worldVars

RecordMissing ==
  /\ pc = "act"
  /\ \E step \in NextStep("RECORD_MISSING") :
        Record(step, SlotTerminal(step.slot, "MISSING", nowAt))
  /\ UNCHANGED <<files, issuedAt, locks, unreadable>> /\ UNCHANGED worldVars

EndWindow ==
  /\ pc = "act"
  /\ \E step \in NextStep("END_WINDOW") : Record(step, WindowEnded(nowAt))
  /\ UNCHANGED <<files, issuedAt, locks, unreadable>> /\ UNCHANGED worldVars

Take(step, label) ==
  /\ plan' = plan \ {step}
  /\ working' = step.slot
  /\ pc' = label
  /\ UNCHANGED <<nowAt, stops, exit>>
  /\ UNCHANGED diskVars /\ UNCHANGED worldVars

\* prepareSlot() spawns the slot process, with the plan's time as --now-at.
ExecuteSlot ==
  /\ pc = "act"
  /\ \E step \in NextStep("EXECUTE_SLOT") :
        Take(step, IF Has(step.slot, "entry") THEN "reserveTransport"
                                              ELSE "openSequence")

\* The journal is read again, and what is active now is advanced.
ListActive ==
  /\ pc = "act"
  /\ NextStep("ADVANCE_ACTIVE") # {}
  /\ plan' = IF Ended(journal) THEN {} ELSE {Step("ADVANCE", s) : s \in Active}
  /\ UNCHANGED <<pc, nowAt, working, stops, exit>>
  /\ UNCHANGED diskVars /\ UNCHANGED worldVars

\* advanceOne() of one active slot, in the order of the directory.
Advance ==
  /\ pc = "act"
  /\ \E step \in plan : step.type = "ADVANCE" /\ Take(step, "reserveTransport")

EndPass ==
  /\ pc = "act" /\ plan = {}
  /\ pc' = "reconcile" /\ nowAt' = 0 /\ working' = NoSlot
  /\ UNCHANGED <<plan, stops, exit>>
  /\ UNCHANGED diskVars /\ UNCHANGED worldVars

-----------------------------------------------------------------------------
(***************************************************************************)
(* The slot process.  It locks the observer's sequence journal, then the   *)
(* quota journal all observers share, and releases both only after its     *)
(* assignment is written: any other end leaves the locks for an operator.  *)
(***************************************************************************)
InSlotProcess(label) == pc = label /\ UNCHANGED <<clock, remote, unreadable>>

OpenSequence ==
  /\ InSlotProcess("openSequence")
  /\ IF ObserverOf[working] \in locks
     THEN Goto("slotFailed") /\ UNCHANGED locks
     ELSE Goto("openQuota") /\ locks' = locks \cup {ObserverOf[working]}
  /\ UNCHANGED <<journal, files, issuedAt, effects>>

\* Faulty variant: the quota journal is locked under a name nobody else uses.
OpenQuotaElsewhere ==
  /\ InSlotProcess("openQuota")
  /\ Goto("reserve") /\ locks' = locks \cup {"slot-quota"}
  /\ UNCHANGED <<journal, files, issuedAt, effects>>

\* A held quota lock leaves the sequence journal locked as well.
OpenQuota ==
  /\ InSlotProcess("openQuota")
  /\ IF QuotaLock \in locks
     THEN Goto("slotFailed") /\ UNCHANGED locks
     ELSE Goto("reserve") /\ locks' = locks \cup {QuotaLock}
  /\ UNCHANGED <<journal, files, issuedAt, effects>>

\* Write one more file of the slot, or end in RECONCILIATION_REQUIRED.
WriteOrFail(file, label) ==
  \/ AddFile(working, file) /\ Goto(label)
  \/ UNCHANGED files /\ Goto("slotFailed")

\* The slot's directory is there already: mkdir fails with EEXIST.
Reserved(s) == Has(s, "reservation")

\* The execution tolerance is checked against --now-at, the plan's time.
ReserveSlot ==
  /\ InSlotProcess("reserve")
  /\ IF Late(working, nowAt) \/ Reserved(working)
     THEN Goto("slotFailed") /\ UNCHANGED files
     ELSE Goto("reserveSequence") /\ AddFile(working, "reservation")
  /\ UNCHANGED <<journal, issuedAt, locks, effects>>

ReserveSequence ==
  /\ InSlotProcess("reserveSequence")
  /\ IF Has(working, "sequence")
     THEN Goto("slotFailed") /\ UNCHANGED files
     ELSE Goto("prepare") /\ AddFile(working, "sequence")
  /\ UNCHANGED <<journal, issuedAt, locks, effects>>

Prepare ==
  /\ InSlotProcess("prepare")
  /\ WriteOrFail("prepared", "submit")
  /\ UNCHANGED <<journal, issuedAt, locks, effects>>

\* sendTransaction: from here on the transaction may be on the ledger.
Submit ==
  /\ InSlotProcess("submit")
  /\ Attempt(working, "submissions")
  /\ Goto("acknowledge")
  /\ UNCHANGED <<journal, files, issuedAt, locks>>

\* The answer, or an error that leaves the outcome of the call unknown.
Acknowledge ==
  /\ InSlotProcess("acknowledge")
  /\ WriteOrFail("acknowledged", "assign")
  /\ UNCHANGED <<journal, issuedAt, locks, effects>>

SignAssignment ==
  /\ InSlotProcess("assign")
  /\ issuedAt' = [issuedAt EXCEPT ![working] = clock]
  /\ WriteOrFail("assignment", "output")
  /\ UNCHANGED <<journal, locks, effects>>

\* prepared-dispatch.json, unless the RPC budget needs reconciliation.
WriteOutput ==
  /\ InSlotProcess("output")
  /\ WriteOrFail("entry", "release")
  /\ UNCHANGED <<journal, issuedAt, locks, effects>>

\* The sequence journal is closed first.
ReleaseLocks ==
  /\ InSlotProcess("release")
  /\ IF ObserverOf[working] \in locks
     THEN locks' = locks \ {ObserverOf[working]} /\ Goto("release")
     ELSE locks' = locks \ {QuotaLock} /\ Goto("reserveTransport")
  /\ UNCHANGED <<journal, files, issuedAt, effects>>

\* The process failed: the slot is INVALID, and prepareSlot() returns.
SlotFailed ==
  /\ pc = "slotFailed"
  /\ MarkInvalid(working, "act")
  /\ UNCHANGED <<files, issuedAt, locks, unreadable>> /\ UNCHANGED worldVars

SlotProcessStep ==
  \/ OpenSequence \/ OpenQuota \/ ReserveSlot \/ ReserveSequence \/ Prepare
  \/ Submit \/ Acknowledge \/ SignAssignment \/ WriteOutput \/ ReleaseLocks
  \/ SlotFailed

-----------------------------------------------------------------------------
(***************************************************************************)
(* advanceOne(): from the transport of an assignment to its terminal event *)
(***************************************************************************)
InAdvance(label) == pc = label /\ UNCHANGED <<issuedAt, locks, unreadable, clock>>

\* Nothing was observed: wait for the next pass, until the assignment expires.
NotObserved ==
  IF Expired(working) THEN MarkInvalid(working, "act")
                      ELSE UNCHANGED journal /\ Goto("act")

\* Faulty variant: the reservation is not written before the transport.
ReserveTransportInMemory ==
  /\ InAdvance("reserveTransport")
  /\ Goto(IF Has(working, "receipt") THEN "reserveStart" ELSE "transport")
  /\ UNCHANGED <<journal, files, effects, remote>>

ReserveTransport ==
  /\ InAdvance("reserveTransport")
  /\ IF Has(working, "receipt") THEN Goto("reserveStart") /\ UNCHANGED files
     ELSE IF Has(working, "transportReserved") THEN Goto("receipt") /\ UNCHANGED files
     ELSE Goto("transport") /\ AddFile(working, "transportReserved")
  /\ UNCHANGED <<journal, effects, remote>>

\* The observer host claims the assignment and signs a receipt, or fails
\* anywhere on the way; the coordinator goes on either way.
Transport ==
  /\ InAdvance("transport")
  /\ Attempt(working, "transports")
  /\ \/ UNCHANGED remote
     \/ ~Expired(working) /\ remote' = [remote EXCEPT ![working] = @ \cup {"receipt"}]
  /\ Goto("receipt")
  /\ UNCHANGED <<journal, files>>

\* The test over SSH says no when the file is absent and when SSH fails.
ObserveReceipt ==
  /\ InAdvance("receipt")
  /\ \/ /\ "receipt" \in remote[working]
        /\ AddFile(working, "receipt") /\ Goto("reserveStart") /\ UNCHANGED journal
     \/ NotObserved /\ UNCHANGED files
  /\ UNCHANGED <<effects, remote>>

ReserveStart ==
  /\ InAdvance("reserveStart")
  /\ IF Has(working, "workerStartReserved") THEN Goto("completion") /\ UNCHANGED files
     ELSE Goto("start") /\ AddFile(working, "workerStartReserved")
  /\ UNCHANGED <<journal, effects, remote>>

\* systemctl start; the worker refuses an expired assignment.
StartWorker ==
  /\ InAdvance("start")
  /\ Attempt(working, "workerStarts")
  /\ \/ UNCHANGED remote
     \/ ~Expired(working) /\ remote' = [remote EXCEPT ![working] = @ \cup {"worker"}]
  /\ Goto("completion")
  /\ UNCHANGED <<journal, files>>

\* Faulty variant: the delivery log is not consulted.
ObserveWithoutDelivery ==
  /\ InAdvance("completion")
  /\ \/ /\ "completion" \in remote[working]
        /\ Goto("complete") /\ UNCHANGED journal
     \/ NotObserved
  /\ UNCHANGED <<files, effects, remote>>

\* The completion and, in the observer's delivery log, the result.
ObserveCompletion ==
  /\ InAdvance("completion")
  /\ \/ /\ {"completion", "delivery"} \subseteq remote[working]
        /\ Goto("complete") /\ UNCHANGED journal
     \/ NotObserved
  /\ UNCHANGED <<files, effects, remote>>

\* The copied evidence is recomputed by a process of its own, and the slot ends
\* one way or the other: an event that process may not append is INVALID too.
Complete ==
  /\ InAdvance("complete")
  /\ \/ LET qualifying == SlotTerminal(working, "QUALIFYING", clock)
        IN /\ ValidEvent(qualifying, journal)
           /\ journal' = Append(journal, qualifying)
           /\ Goto("act")
     \/ MarkInvalid(working, "act")
  /\ UNCHANGED <<files, effects, remote>>

AdvanceStep ==
  \/ ReserveTransport \/ Transport \/ ObserveReceipt \/ ReserveStart \/ StartWorker
  \/ ObserveCompletion \/ Complete

-----------------------------------------------------------------------------
(***************************************************************************)
(* The rest of the world.                                                  *)
(***************************************************************************)

\* The worker leaves its completion, and the observer's delivery runtime
\* (ObserverRuntime) a receipt of the Collector's acceptance.
RemoteProgress(s) ==
  /\ "worker" \in remote[s]
  /\ \E fact \in {"completion", "delivery"} \ remote[s] :
        remote' = [remote EXCEPT ![s] = @ \cup {fact}]
  /\ UNCHANGED <<clock, effects>>
  /\ UNCHANGED diskVars /\ UNCHANGED processVars

Tick ==
  /\ clock < MaxClock
  /\ clock' = clock + 1
  /\ UNCHANGED <<effects, remote>>
  /\ UNCHANGED diskVars /\ UNCHANGED processVars

\* Where the next write is an event, an assignment or an entry: a file that is
\* parsed by a later load.
BeforeParsedWrite == {"reconcile", "act", "assign", "output", "slotFailed", "receipt",
                      "completion", "complete"}

\* The coordinator and its slot process die together (one systemd unit), or an
\* SSH read throws and they exit.  A write in progress may leave a torn file.
Crash(tears) ==
  /\ pc \notin {"down", "ended", "blocked"}
  /\ stops < MaxStops
  /\ tears => pc \in BeforeParsedWrite
  /\ unreadable' = (unreadable \/ tears)
  /\ stops' = stops + 1
  /\ pc' = "down" /\ nowAt' = 0 /\ plan' = {} /\ working' = NoSlot
  /\ UNCHANGED <<journal, files, issuedAt, locks, exit>> /\ UNCHANGED worldVars

\* Restart=on-failure
Restart ==
  /\ pc = "down"
  /\ Goto("reconcile")
  /\ UNCHANGED diskVars /\ UNCHANGED worldVars

\* A partial event or entry stops every later pass before it does anything.
RefuseTornFile ==
  /\ pc = "reconcile" /\ unreadable
  /\ StopSafely("UNREADABLE", "blocked")
  /\ UNCHANGED diskVars /\ UNCHANGED worldVars

CoordinatorStep ==
  \/ \E s \in Slots : Reconcile(s)
  \/ MakePlan \/ Finish \/ BlockStart \/ RefuseTornFile
  \/ StartWindow \/ RecordMissing \/ EndWindow \/ ExecuteSlot
  \/ ListActive \/ Advance \/ EndPass
  \/ SlotProcessStep
  \/ AdvanceStep
  \/ Restart

Next ==
  \/ CoordinatorStep
  \/ Tick
  \/ \E s \in Slots : RemoteProgress(s)
  \/ \E tears \in BOOLEAN : Crash(tears)

Spec == Init /\ [][Next]_vars

\* The coordinator polls at least once a second, every subprocess it waits for
\* ends (SSH and RPC calls have timeouts), systemd restarts it, and time
\* passes.  Nothing is assumed of the observer hosts.
FairSpec == Spec /\ WF_vars(CoordinatorStep) /\ WF_vars(Tick)

-----------------------------------------------------------------------------
(***************************************************************************)
(* Properties.                                                             *)
(***************************************************************************)

\* Type correctness of the coordinator's state.
TypeOK ==
  /\ journal \in Seq(Event)
  /\ files \in [Slots -> SUBSET FileNames]
  /\ issuedAt \in [Slots -> Nat]
  /\ locks \in SUBSET (Observers \cup {QuotaLock})
  /\ unreadable \in BOOLEAN
  /\ clock \in Nat
  /\ effects \in [Slots -> [EffectNames -> Nat]]
  /\ remote \in [Slots -> SUBSET RemoteFacts]
  /\ pc \in ProgramCounters
  /\ nowAt \in Nat
  /\ \A step \in plan : step.slot \in 0..(NumSlots + 1)
  /\ working \in Slots \cup {NoSlot}
  /\ stops \in Nat

\* "A transaction submission is never retried automatically", and neither is a
\* transport or a worker start (grant-m2-official-cloud-coordinator.md:18-21):
\* whatever crashes, fails or stays ambiguous, each is attempted at most once.
AtMostOnce == \A s \in Slots, e \in EffectNames : effects[s][e] <= 1

\* A QUALIFYING slot has its one transaction, a receipt signed by the observer,
\* a finished observation and an acceptance by the Collector behind it.
QualifyingIsBacked ==
  \A s \in Slots :
     Concluded(journal, s, "QUALIFYING") =>
        /\ \A e \in EffectNames : effects[s][e] = 1
        /\ {"receipt", "completion", "delivery"} \subseteq remote[s]

\* An observer never has two assignments in progress, not even when one of them
\* was recovered after a crash: the planner never finds the active set
\* ambiguous, which would stop the window for good.
OneActivePerObserver == ~Ambiguous(Active)

\* The coordinator never offers its journal an event it refuses, though MISSING
\* and the window's start and end are recorded at the plan's time and every
\* other event at the present: a refusal would stop the window.
JournalNeverRefuses == exit # "JOURNAL_REFUSED"

\* A unit counts once and with everything behind it.
UnitsCountOnce == AtMostOnce /\ QualifyingIsBacked

\* Nothing legal stops the coordinator for good: neither an ambiguous active
\* set nor an event its journal refuses.
CoordinatorGoesOn == OneActivePerObserver /\ JournalNeverRefuses

\* Nothing is done any more for a slot that has its terminal event.
TerminalIsFinal ==
  [][\A s \in TerminalSlots(journal) : effects'[s] = effects[s]]_vars

\* Every planned unit is accounted for: once started, the window ends with a
\* terminal event for every slot, whatever the observers do, unless a torn file
\* stopped the coordinator.
EventuallyAccounted == Started(journal) ~> (Ended(journal) \/ unreadable)

\* A slot recorded as MISSING was missed: no transaction was sent for it.
MissingWasNotSubmitted ==
  \A s \in Slots : Concluded(journal, s, "MISSING") => effects[s].submissions = 0

\* The execution of a slot begins within its execution tolerance ("rejects
\* execution before or after the frozen tolerance", the slot runner's test).
ExecutedInTolerance ==
  [][\A s \in Slots : "reservation" \in files'[s] \ files[s] => ~Late(s, clock)]_vars

\* What the coordinator's state means for the window.
WindowState == IF Ended(journal) THEN "ended"
               ELSE IF Started(journal) THEN "open" ELSE "waiting"
Submissions == [s \in Slots |-> effects[s]["submissions"]]
AcceptedSlots == {s \in Slots : "delivery" \in remote[s]}
Account(records, s) ==
  IF \E status \in Statuses : Concluded(records, s, status)
  THEN CHOOSE status \in Statuses : Concluded(records, s, status)
  ELSE "OPEN"
Accounts == [s \in Slots |-> Account(journal, s)]

\* The coordinator implements the window: see OfficialWindow.
Window == INSTANCE OfficialWindow WITH
            Units       <- Slots,
            window      <- WindowState,
            submissions <- Submissions,
            accepted    <- AcceptedSlots,
            account     <- Accounts

ImplementsWindow == Window!WindowSpec
=============================================================================
