---------------------------- MODULE RehearsalSlot ----------------------------
(***************************************************************************)
(* One rehearsal slot from its reservation to its completion, over files   *)
(* written once: the slot runner (run-grant-m2-rehearsal-slot.mjs,         *)
(* grant-m2-slot-runner.mjs, -slot-journal.mjs,                            *)
(* -observer-sequence-journal.mjs), the dispatcher (grant-m2-dispatch.mjs),*)
(* the observer's inbox (-assignment-inbox.mjs, -assignment-receipt.mjs)   *)
(* and the completion (complete-grant-m2-rehearsal-slot.mjs).  All slots   *)
(* are of one observer.  Nothing here retries: an interrupted step leaves  *)
(* a directory or a lock that only an operator clears.                     *)
(***************************************************************************)
EXTENDS Naturals, Sequences, FiniteSets

CONSTANTS
  RehearsalSlots,  \* slots of one observer, all due at time 0
  Runs,            \* starts of the runner; each chooses a slot
  Lateness,        \* the 10 seconds a slot may be late
  Validity,        \* the 180 seconds an assignment is valid
  Failures,        \* bound: deaths, failed calls, operators' unlocks
  RehearsalEnd     \* bound: last instant

ASSUME RehearsalAssumption ==
  {Lateness, Validity, Failures, RehearsalEnd} \subseteq Nat

VARIABLES
  rehearsalClock, \* one clock for coordinator and observer
  runs,           \* the runner processes: step, slot, sequence read and taken
  sequenceLock,   \* the lock directory of the sequence journal
  sequences,      \* the sequence journal: slot of each record, in order
  slotFiles,      \* write-once files in each slot's directory
  submissions,    \* history: transactions handed to the RPC for each slot
  entries,        \* prepared assignments: sequence and issue time
  dispatch,       \* the dispatcher's directory of each slot
  inbox,          \* the observer's directory of each assignment
  failures        \* what is left of Failures

runVars == <<runs, sequenceLock, sequences, submissions, entries>>
rehearsalVars == <<rehearsalClock, runVars, slotFiles, dispatch, inbox, failures>>

SlotStates == {"00-reservation", "01-transaction-prepared", "02-submission-acknowledged",
               "03-assignment-prepared", "04-transport-receipt-recorded",
               "05-worker-completed", "reconciliation-required"}

NoEntry == [prepared |-> FALSE, sequence |-> 0, issued |-> 0]
IdleRun == [step |-> "idle", slot |-> "none", known |-> 0, sequence |-> 0]
NotDispatched == [state |-> "none", at |-> 0]
NotReceived == [state |-> "none", at |-> 0]

Failure == failures > 0 /\ failures' = failures - 1
NoFailure == UNCHANGED failures

RehearsalInit ==
  /\ rehearsalClock = 0
  /\ runs = [r \in Runs |-> IdleRun]
  /\ sequenceLock = FALSE /\ sequences = <<>>
  /\ slotFiles = [s \in RehearsalSlots |-> {}]
  /\ submissions = [s \in RehearsalSlots |-> 0]
  /\ entries = [s \in RehearsalSlots |-> NoEntry]
  /\ dispatch = [s \in RehearsalSlots |-> NotDispatched]
  /\ inbox = [s \in RehearsalSlots |-> NotReceived]
  /\ failures = Failures

----------------------------------------------------------------------------
(* The runner.                                                             *)

At(r, step) == runs[r].step = step
GoTo(r, step) == runs' = [runs EXCEPT ![r].step = step]
Writes(r, file) == slotFiles' = [slotFiles EXCEPT ![runs[r].slot] = @ \cup {file}]
RestOfRun == UNCHANGED <<rehearsalClock, dispatch, inbox>>

\* Faulty variant: the sequence journal is opened without its lock.
OpenSequenceJournalShared(r, s) ==
  /\ At(r, "idle")
  /\ runs' = [runs EXCEPT ![r] = [@ EXCEPT !.step = "open", !.slot = s,
                                           !.known = Len(sequences)]]
  /\ NoFailure /\ RestOfRun
  /\ UNCHANGED <<sequenceLock, sequences, submissions, entries, slotFiles>>
\* The journal of the observer is locked and read, or the process ends.
OpenSequenceJournal(r, s) ==
  /\ At(r, "idle")
  /\ IF sequenceLock
     THEN GoTo(r, "refused") /\ UNCHANGED sequenceLock
     ELSE /\ runs' = [runs EXCEPT ![r] = [@ EXCEPT !.step = "open", !.slot = s,
                                                   !.known = Len(sequences)]]
          /\ sequenceLock' = TRUE
  /\ NoFailure /\ RestOfRun
  /\ UNCHANGED <<sequences, submissions, entries, slotFiles>>

\* The slot is due and its directory is not there yet.  Otherwise the journals
\* are abandoned: their locks stay.
ReserveSlot(r) ==
  /\ At(r, "open")
  /\ IF rehearsalClock <= Lateness /\ slotFiles[runs[r].slot] = {}
     THEN Writes(r, "00-reservation") /\ GoTo(r, "reserved")
     ELSE GoTo(r, "abandoned") /\ UNCHANGED slotFiles
  /\ NoFailure /\ RestOfRun
  /\ UNCHANGED <<sequenceLock, sequences, submissions, entries>>

\* The next number, unless the slot has one already.
ReserveSequence(r) ==
  /\ At(r, "reserved")
  /\ IF \E i \in 1 .. Len(sequences) : sequences[i].slot = runs[r].slot
     THEN /\ GoTo(r, "abandoned")
          /\ Writes(r, "reconciliation-required")
          /\ UNCHANGED sequences
     ELSE /\ sequences' = Append(sequences, [slot |-> runs[r].slot,
                                             sequence |-> runs[r].known])
          /\ runs' = [runs EXCEPT ![r].step = "sequenced", ![r].sequence = runs[r].known]
          /\ UNCHANGED slotFiles
  /\ NoFailure /\ RestOfRun
  /\ UNCHANGED <<sequenceLock, submissions, entries>>

\* Building the transaction succeeds, or the slot is marked.
PrepareTransaction(r) ==
  /\ At(r, "sequenced")
  /\ \/ Writes(r, "01-transaction-prepared") /\ GoTo(r, "prepared") /\ NoFailure
     \/ Writes(r, "reconciliation-required") /\ GoTo(r, "abandoned") /\ Failure
  /\ RestOfRun
  /\ UNCHANGED <<sequenceLock, sequences, submissions, entries>>

\* Faulty variant: a submission with an unknown outcome is tried again.
SubmitTransactionRetrying(r) ==
  /\ At(r, "prepared")
  /\ submissions' = [submissions EXCEPT ![runs[r].slot] = @ + 1]
  /\ \/ GoTo(r, "submitted") /\ NoFailure
     \/ UNCHANGED runs /\ Failure
  /\ RestOfRun
  /\ UNCHANGED <<sequenceLock, sequences, entries, slotFiles>>
\* sendTransaction: whatever it answers, the transaction may be on its way.
SubmitTransaction(r) ==
  /\ At(r, "prepared")
  /\ submissions' = [submissions EXCEPT ![runs[r].slot] = @ + 1]
  /\ \/ GoTo(r, "submitted") /\ UNCHANGED slotFiles /\ NoFailure
     \/ GoTo(r, "abandoned") /\ Writes(r, "reconciliation-required") /\ Failure
  /\ RestOfRun
  /\ UNCHANGED <<sequenceLock, sequences, entries>>

RecordAcknowledgement(r) ==
  /\ At(r, "submitted")
  /\ Writes(r, "02-submission-acknowledged")
  /\ GoTo(r, "acknowledged")
  /\ NoFailure /\ RestOfRun
  /\ UNCHANGED <<sequenceLock, sequences, submissions, entries>>

\* The assignment is signed while the slot is not too late; after that the
\* runner throws, with the transaction submitted and nothing marked.
PrepareAssignment(r) ==
  /\ At(r, "acknowledged")
  /\ IF rehearsalClock <= Lateness
     THEN /\ entries' = [entries EXCEPT ![runs[r].slot] =
               [prepared |-> TRUE, sequence |-> runs[r].sequence, issued |-> rehearsalClock]]
          /\ Writes(r, "03-assignment-prepared")
          /\ GoTo(r, "assigned")
     ELSE GoTo(r, "abandoned") /\ UNCHANGED <<entries, slotFiles>>
  /\ NoFailure /\ RestOfRun
  /\ UNCHANGED <<sequenceLock, sequences, submissions>>

\* close() gives the lock back.
CloseRun(r) ==
  /\ At(r, "assigned")
  /\ GoTo(r, "done")
  /\ sequenceLock' = FALSE
  /\ NoFailure /\ RestOfRun
  /\ UNCHANGED <<sequences, submissions, entries, slotFiles>>

RunDies(r) ==
  /\ runs[r].step \notin {"idle", "refused", "abandoned", "done"}
  /\ GoTo(r, "abandoned")
  /\ Failure /\ RestOfRun
  /\ UNCHANGED <<sequenceLock, sequences, submissions, entries, slotFiles>>

\* An operator removes the lock of a process that is gone.
OperatorUnlocksSequence ==
  /\ sequenceLock
  /\ \A r \in Runs : runs[r].step \in {"idle", "refused", "abandoned", "done"}
  /\ sequenceLock' = FALSE
  /\ Failure /\ RestOfRun
  /\ UNCHANGED <<runs, sequences, submissions, entries, slotFiles>>

----------------------------------------------------------------------------
(* Dispatch, inbox, completion.                                            *)

\* The attempt directory is made before anything is sent, and never twice.
DispatchReserves(s) ==
  /\ entries[s].prepared /\ dispatch[s].state = "none"
  /\ rehearsalClock <= Lateness
  /\ rehearsalClock \in entries[s].issued .. (entries[s].issued + Validity)
  /\ dispatch' = [dispatch EXCEPT ![s] = [state |-> "reserved", at |-> rehearsalClock]]
  /\ UNCHANGED <<rehearsalClock, runVars, slotFiles, inbox, failures>>

\* The observer claims the assignment once, while it is valid, whether the
\* dispatcher's transport or an operator's copy brings it, and however late.
InboxReceives(s) ==
  /\ entries[s].prepared /\ inbox[s].state = "none"
  /\ rehearsalClock \in entries[s].issued .. (entries[s].issued + Validity)
  /\ inbox' = [inbox EXCEPT ![s] = [state |-> "claimed", at |-> rehearsalClock]]
  /\ UNCHANGED <<rehearsalClock, runVars, slotFiles, dispatch, failures>>

\* assignment.json and the signed receipt follow the claim; a death between
\* leaves the claim alone, and no retry gets past it.
InboxWritesReceipt(s) ==
  /\ inbox[s].state = "claimed"
  /\ inbox' = [inbox EXCEPT ![s].state = "receipted"]
  /\ UNCHANGED <<rehearsalClock, runVars, slotFiles, dispatch, failures>>

\* Faulty variant: any answer of the transport counts as a receipt.
ReceiptVerifiesAnyway(s) == inbox[s].state # "none"
\* The receipt is verified against the time the dispatch began.
ReceiptVerifies(s) == inbox[s].state = "receipted" /\ inbox[s].at <= dispatch[s].at

DispatchEnds(s) ==
  /\ dispatch[s].state = "reserved"
  /\ \/ /\ ReceiptVerifies(s)
        /\ dispatch' = [dispatch EXCEPT ![s].state = "receipt-recorded"]
     \/ dispatch' = [dispatch EXCEPT ![s].state = "uncertain"]
  /\ UNCHANGED <<rehearsalClock, runVars, slotFiles, inbox, failures>>

\* completeM2RehearsalSlot: the prepared evidence is all there, the receipt
\* verifies, the worker ended; then files 04 and 05.  A completion that dies
\* between them cannot be repeated: the next one finds file 04.
Complete(s) ==
  /\ {"00-reservation", "01-transaction-prepared", "02-submission-acknowledged",
      "03-assignment-prepared"} \subseteq slotFiles[s]
  /\ "04-transport-receipt-recorded" \notin slotFiles[s]
  /\ inbox[s].state = "worked"
  /\ \/ /\ slotFiles' = [slotFiles EXCEPT ![s] = @ \cup
               {"04-transport-receipt-recorded", "05-worker-completed"}]
        /\ NoFailure
     \/ /\ slotFiles' = [slotFiles EXCEPT ![s] = @ \cup {"04-transport-receipt-recorded"}]
        /\ Failure
  /\ UNCHANGED <<rehearsalClock, runVars, dispatch, inbox>>

\* The observer's worker, a module of its own, writes its evidence of the received
\* assignment.
WorkerEvidence(s) ==
  /\ inbox[s].state = "receipted"
  /\ inbox' = [inbox EXCEPT ![s].state = "worked"]
  /\ UNCHANGED <<rehearsalClock, runVars, slotFiles, dispatch, failures>>

RehearsalTick ==
  /\ rehearsalClock < RehearsalEnd
  /\ rehearsalClock' = rehearsalClock + 1
  /\ UNCHANGED <<runVars, slotFiles, dispatch, inbox, failures>>

RunnerSteps(r) ==
  \/ \E s \in RehearsalSlots : OpenSequenceJournal(r, s)
  \/ ReserveSlot(r) \/ ReserveSequence(r)
  \/ PrepareTransaction(r) \/ SubmitTransaction(r) \/ RecordAcknowledgement(r)
  \/ PrepareAssignment(r) \/ CloseRun(r) \/ RunDies(r)
TransportSteps(s) ==
  \/ DispatchReserves(s) \/ DispatchEnds(s)
  \/ InboxReceives(s) \/ InboxWritesReceipt(s) \/ WorkerEvidence(s)
  \/ Complete(s)

RehearsalNext ==
  \/ \E r \in Runs : RunnerSteps(r)
  \/ \E s \in RehearsalSlots : TransportSteps(s)
  \/ OperatorUnlocksSequence \/ RehearsalTick

RehearsalSpec == RehearsalInit /\ [][RehearsalNext]_rehearsalVars

----------------------------------------------------------------------------
(* Properties.                                                             *)

\* Every variable has its type.
RehearsalTypeOK ==
  /\ rehearsalClock \in 0 .. RehearsalEnd
  /\ runs \in [Runs -> [step : {"idle", "open", "refused", "reserved", "sequenced",
                              "prepared", "submitted", "acknowledged", "assigned",
                              "done", "abandoned"},
                      slot : RehearsalSlots \cup {"none"}, known : Nat, sequence : Nat]]
  /\ sequenceLock \in BOOLEAN
  /\ \A i \in 1 .. Len(sequences) : sequences[i] \in [slot : RehearsalSlots, sequence : Nat]
  /\ slotFiles \in [RehearsalSlots -> SUBSET SlotStates]
  /\ submissions \in [RehearsalSlots -> Nat]
  /\ entries \in [RehearsalSlots ->
       [prepared : BOOLEAN, sequence : Nat, issued : 0 .. RehearsalEnd]]
  /\ dispatch \in [RehearsalSlots ->
       [state : {"none", "reserved", "receipt-recorded", "uncertain"}, at : 0 .. RehearsalEnd]]
  /\ inbox \in [RehearsalSlots ->
       [state : {"none", "claimed", "receipted", "worked"}, at : 0 .. RehearsalEnd]]
  /\ failures \in 0 .. Failures

\* However many runners start for a slot, and wherever one dies or meets an
\* unknown outcome, a slot's transaction is handed to the RPC at most once.
SubmittedOnce == \A s \in RehearsalSlots : submissions[s] <= 1

\* The observer's sequence numbers are its own: the journal counts without a
\* gap, as its next opening demands, and no two assignments share a number,
\* although locks are cleared by hand and slots are abandoned midway.
SequencesDistinct ==
  /\ \A i \in 1 .. Len(sequences) : sequences[i].sequence = i - 1
  /\ \A s, t \in RehearsalSlots :
       (s # t /\ entries[s].prepared /\ entries[t].prepared) =>
         entries[s].sequence # entries[t].sequence

\* What the coordinator's files say happened did happen: a receipt is recorded
\* only for an assignment whose receipt the observer wrote, and a completed
\* slot has every earlier file, no mark of uncertainty, one submission, and a
\* worker that ran its assignment.
FilesTellTruth ==
  \A s \in RehearsalSlots :
    /\ dispatch[s].state = "receipt-recorded" => inbox[s].state \in {"receipted", "worked"}
    /\ "05-worker-completed" \in slotFiles[s] =>
         /\ slotFiles[s] = SlotStates \ {"reconciliation-required"}
         /\ submissions[s] = 1
         /\ inbox[s].state = "worked"

\* The rehearsal's files: one submission a slot, distinct sequence numbers, and
\* states that tell what happened at both ends.
RehearsalIsSound == SubmittedOnce /\ SequencesDistinct /\ FilesTellTruth
==============================================================================
