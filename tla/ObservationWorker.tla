-------------------------- MODULE ObservationWorker --------------------------
(***************************************************************************)
(* The observer's worker (packages/collector/src/observation-worker.ts and *)
(* its script) polls three readers, appends each poll to a raw log opened  *)
(* write-once, and concludes by quorum or at its deadline                  *)
(* (packages/probes/src/reader-quorum.ts).  The coordinator later          *)
(* recomputes the conclusion from the raw log                              *)
(* (grant-m2-official-reconciliation.mjs) and counts the unit only when    *)
(* both agree.  The worker's clock is a wall clock: it may be set back.    *)
(***************************************************************************)
EXTENDS Naturals, Sequences, FiniteSets

CONSTANTS
  LyingWorkerReaders,  \* readers that may claim anything
  LedgerLevels,        \* levels of a status the ledger goes through
  IssuedAt, ExpiresAt, \* validity of the assignment
  ObservationDeadlineMs,
  WorkerMishaps,       \* bound: failed requests, steps of the clock
                       \* backwards, process deaths
  WorkerEnd            \* bound: last instant of the clock

WorkerReaders == 1 .. 3

\* A job the worker takes: three readers and a deadline after the start.
ValidObservationJob ==
  Cardinality(WorkerReaders) = 3 /\ ObservationDeadlineMs \in Nat \ {0}

ASSUME WorkerAssumption ==
  /\ ValidObservationJob
  /\ LyingWorkerReaders \subseteq WorkerReaders
  /\ 0 \in LedgerLevels /\ LedgerLevels \subseteq 0 .. 3
  /\ {IssuedAt, ExpiresAt, WorkerMishaps, WorkerEnd} \subseteq Nat
  /\ IssuedAt < ExpiresAt
  /\ ExpiresAt + ObservationDeadlineMs <= WorkerEnd

VARIABLES
  workerClock,  \* wall clock of the observer host
  workerPc,     \* where the process stands
  startedAt,    \* startedAt
  pollIndex,    \* pollIndex
  observedAt,   \* observedAt of the poll under way
  rawOpened,    \* the raw log exists on disk
  rawLog,       \* its polls: index, time, what the rules make of the claims
  latestClaims, \* the claims of the last poll, whole
  seenOnLedger, \* hasLedgerObservation
  verdict,      \* terminal and supportingClaims
  resultFile,   \* the unsigned result on disk
  completion,   \* the completion on disk
  onChain,      \* the transaction: level of its status, failed or not,
                \* and whether the height is past lastValidBlockHeight
  span,         \* the values onChain had since the poll under way began
  mishaps,      \* what is left of WorkerMishaps
  setBack       \* history: the clock was set back

hostClock == <<workerClock, setBack>>
loopVars == <<startedAt, pollIndex, observedAt, seenOnLedger, verdict>>
rawVars == <<rawOpened, rawLog, latestClaims>>
resultVars == <<resultFile, completion>>
chainVars == <<onChain, span>>
workerVars == <<hostClock, workerPc, loopVars, rawVars, resultVars, chainVars, mishaps>>

\* A result file: absent, torn, or written with its contents.
NoFile == [state |-> "absent"]
TornFile == [state |-> "torn"]
NotCompleted == "absent"

\* null, processed, confirmed, finalized
StatusLevels == 0 .. 3
LedgerStates == [level : LedgerLevels, failed : BOOLEAN, over : BOOLEAN]

\* A claim: slot 0 stands for no transaction_slot, over for an
\* observed_block_height above the last valid one, error for reader_error.
Claims == [level : StatusLevels, failed : BOOLEAN, slot : 0 .. 2,
           over : BOOLEAN, error : BOOLEAN]
NoClaims == [n \in WorkerReaders |->
  [level |-> 0, failed |-> FALSE, slot |-> 0, over |-> FALSE, error |-> FALSE]]

----------------------------------------------------------------------------
(* The quorum rules, used by the worker and by the reconciliation.         *)

\* The readers of the first group that agrees on slot and execution error;
\* with three readers at most one group has two.
Compatible(claims, S) ==
  {n \in S : /\ claims[n].slot > 0
             /\ \E m \in S \ {n} : /\ claims[m].slot = claims[n].slot
                                   /\ claims[m].failed = claims[n].failed}

\* Faulty variant: every supporter is named, the slice is dropped.
FirstTwoAndMore(S) == S
\* slice(0, 2) of claims in the readers' order.
FirstTwo(S) == {n \in S : Cardinality({m \in S : m < n}) < 2}

NoVerdict == [terminal |-> "NONE", supporting |-> {}]
Concluded(terminal, S) == [terminal |-> terminal, supporting |-> FirstTwo(S)]

SomeStatus(claims) == \E n \in WorkerReaders : claims[n].level > 0

\* Faulty variant: a confirmed status counts as a finalized one.
FinalizedByConfirmed(claims) ==
  {n \in WorkerReaders : claims[n].level >= 2 /\ ~claims[n].failed}
Finalized(claims) == {n \in WorkerReaders : claims[n].level = 3 /\ ~claims[n].failed}

\* evaluateReaderClaimQuorum without the history of earlier polls, and with it.
LedgerQuorum(claims) ==
  LET failed == Compatible(claims,
                  {n \in WorkerReaders : claims[n].level > 0 /\ claims[n].failed})
      finalized == Compatible(claims, Finalized(claims))
      expired == {n \in WorkerReaders :
                    claims[n].level = 0 /\ ~claims[n].error /\ claims[n].over}
  IN IF Cardinality(failed) >= 2 THEN Concluded("OBSERVED_EXECUTION_FAILED", failed)
     ELSE IF Cardinality(finalized) >= 2 THEN Concluded("FINALIZED", finalized)
     ELSE IF ~SomeStatus(claims) /\ Cardinality(expired) >= 2
     THEN Concluded("EXPIRED", expired)
     ELSE NoVerdict
WithHistory(quorum, priorLedgerObservation) ==
  IF quorum.terminal = "EXPIRED" /\ priorLedgerObservation THEN NoVerdict ELSE quorum

DeadlineVerdict(claims) ==
  LET confirmed == Compatible(claims,
                  {n \in WorkerReaders : claims[n].level >= 2 /\ ~claims[n].failed})
  IN IF Cardinality(confirmed) >= 2
     THEN Concluded("CONFIRMED", confirmed)
     ELSE Concluded("OBSERVATION_INCONCLUSIVE", WorkerReaders)

----------------------------------------------------------------------------
(* What the reconciliation demands of a raw log and a result.              *)

SeenBefore(raw, i) == \E j \in 1 .. (i - 1) : raw[j].seen
Derived(raw, i) == WithHistory(raw[i].quorum, SeenBefore(raw, i))

RawInOrder(raw) ==
  /\ raw # <<>>
  /\ \A i \in 1 .. Len(raw) :
       /\ raw[i].index = i - 1
       /\ raw[i].at \in IssuedAt .. ExpiresAt
       /\ i > 1 => raw[i].at >= raw[i - 1].at
       /\ i < Len(raw) => Derived(raw, i) = NoVerdict

Recomputes(raw, claims, result) ==
  /\ RawInOrder(raw)
  /\ LET quorum == Derived(raw, Len(raw))
     IN /\ result.decidedAt \in raw[Len(raw)].at .. ExpiresAt
        /\ quorum = NoVerdict =>
             result.decidedAt >= raw[1].at + ObservationDeadlineMs
        /\ result.verdict = (IF quorum # NoVerdict THEN quorum ELSE DeadlineVerdict(claims))
        /\ result.claims = claims

----------------------------------------------------------------------------
(* What a reader may answer.                                               *)

\* status and height are two requests: each sees one of the states of span.
\* No rule looks at the height of a claim that has a status.
Reports(status, height) ==
  [level |-> status.level, failed |-> status.failed,
   slot |-> IF status.level > 0 THEN 1 ELSE 0,
   over |-> status.level = 0 /\ height.over, error |-> FALSE]
StatusLost(height) ==
  [level |-> 0, failed |-> FALSE, slot |-> 0, over |-> height.over, error |-> TRUE]
HeightLost(status) ==
  [Reports(status, status) EXCEPT !.over = FALSE, !.error = TRUE]

TrueClaims == {Reports(s, h) : s \in span, h \in span}
PartialClaims == {StatusLost(h) : h \in span} \cup {HeightLost(s) : s \in span}

\* A reader that lies: nothing seen and the lifetime over, a finalized success
\* or failure in the slot of the transaction, a success in another slot.
FalseClaims ==
  {[level |-> 0, failed |-> FALSE, slot |-> 0, over |-> TRUE, error |-> FALSE]}
  \cup {[level |-> 3, failed |-> f, slot |-> 1, over |-> FALSE, error |-> FALSE] : f \in BOOLEAN}
  \cup {[level |-> 3, failed |-> FALSE, slot |-> 2, over |-> FALSE, error |-> FALSE]}

ClaimsOf(n) == IF n \in LyingWorkerReaders THEN FalseClaims ELSE TrueClaims

----------------------------------------------------------------------------
Mishap == mishaps > 0 /\ mishaps' = mishaps - 1

WorkerInit ==
  /\ workerClock = IssuedAt
  /\ workerPc = "assigned"
  /\ startedAt = 0 /\ pollIndex = 0 /\ observedAt = 0
  /\ rawOpened = FALSE /\ rawLog = <<>> /\ latestClaims = NoClaims /\ seenOnLedger = FALSE /\ verdict = NoVerdict
  /\ resultFile = NoFile /\ completion = NotCompleted
  /\ onChain = [level |-> 0, failed |-> FALSE, over |-> FALSE] /\ span = {onChain}
  /\ mishaps = WorkerMishaps /\ setBack = FALSE

\* verifyObservationAssignment(): its signature is taken as valid.
AssignmentCurrent == workerClock \in IssuedAt .. ExpiresAt

\* Faulty variant: the raw log is opened for appending.
WorkerOpensAnyway ==
  /\ workerPc \in {"assigned", "dead"}
  /\ AssignmentCurrent
  /\ rawOpened' = TRUE
  /\ workerPc' = "loop"
  /\ startedAt' = workerClock
  /\ pollIndex' = 0 /\ seenOnLedger' = FALSE /\ verdict' = NoVerdict
  /\ UNCHANGED <<hostClock, observedAt, rawLog, latestClaims, resultVars, chainVars, mishaps>>

\* The assignment is verified, the raw log opened with "wx", the start taken.
\* A process started after another died finds the raw log and throws.
WorkerOpens ==
  /\ workerPc \in {"assigned", "dead"}
  /\ IF AssignmentCurrent /\ ~rawOpened
     THEN /\ rawOpened' = TRUE
          /\ workerPc' = "loop"
          /\ startedAt' = workerClock
     ELSE /\ workerPc' = "refused"
          /\ UNCHANGED <<rawOpened, startedAt>>
  /\ pollIndex' = 0 /\ seenOnLedger' = FALSE /\ verdict' = NoVerdict
  /\ UNCHANGED <<hostClock, observedAt, rawLog, latestClaims, resultVars, chainVars, mishaps>>

\* observedAt is taken and the requests go out.
PollBegins ==
  /\ workerPc = "loop"
  /\ workerPc' = "reading"
  /\ observedAt' = workerClock
  /\ span' = {onChain}
  /\ UNCHANGED <<hostClock, startedAt, pollIndex, seenOnLedger, verdict, rawVars,
                 resultVars, onChain, mishaps>>

\* All three readers have answered or timed out; the poll is on disk.
Records(claims) ==
  /\ workerPc = "reading"
  /\ workerPc' = "judging"
  /\ rawLog' = Append(rawLog, [index |-> pollIndex, at |-> observedAt,
                               quorum |-> LedgerQuorum(claims), seen |-> SomeStatus(claims)])
  /\ latestClaims' = claims
  /\ span' = {onChain}
  /\ UNCHANGED <<hostClock, loopVars, rawOpened, resultVars, onChain>>

ReadersAnswer ==
  \E a \in ClaimsOf(1), b \in ClaimsOf(2), c \in ClaimsOf(3) :
    Records(<<a, b, c>>) /\ UNCHANGED mishaps

ReaderFails(n) ==
  /\ Mishap
  /\ \E a \in ClaimsOf(1), b \in ClaimsOf(2), c \in ClaimsOf(3), lost \in PartialClaims :
       Records([<<a, b, c>> EXCEPT ![n] = lost])

\* What the loop does with the quorum of the poll, and at the deadline.
Acts(quorum, seen, deadlineReached) ==
  LET decided == IF quorum = NoVerdict /\ deadlineReached
                 THEN DeadlineVerdict(latestClaims) ELSE quorum
  IN /\ workerPc = "judging"
     /\ seenOnLedger' = seen
     /\ verdict' = decided
     /\ IF decided = NoVerdict
        THEN workerPc' = "sleeping" /\ pollIndex' = pollIndex + 1
        ELSE workerPc' = "decided" /\ UNCHANGED pollIndex
     /\ UNCHANGED <<hostClock, startedAt, observedAt, rawVars, resultVars, chainVars, mishaps>>

DeadlineReached == workerClock >= startedAt + ObservationDeadlineMs
SeenByNow == seenOnLedger \/ SomeStatus(latestClaims)

\* Faulty variant: the history of the earlier polls is dropped.
JudgeForgetful == Acts(LedgerQuorum(latestClaims), SomeStatus(latestClaims), DeadlineReached)
\* Faulty variant: the deadline is not checked.
JudgeNeverLate ==
  /\ pollIndex <= WorkerEnd
  /\ Acts(WithHistory(LedgerQuorum(latestClaims), SeenByNow), SeenByNow, FALSE)

\* The decision on the poll just recorded, with the history of all polls.
Judge == Acts(WithHistory(LedgerQuorum(latestClaims), SeenByNow), SeenByNow, DeadlineReached)

\* decidedAt is taken, then the result is written with "wx" and synced.
WritesResult ==
  /\ workerPc = "decided"
  /\ resultFile = NoFile
  /\ resultFile' = [state |-> "written", verdict |-> verdict, claims |-> latestClaims,
                    decidedAt |-> workerClock]
  /\ workerPc' = "written"
  /\ UNCHANGED <<hostClock, loopVars, rawVars, completion, chainVars, mishaps>>

\* A reservation the budget could not persist makes the script throw instead.
BudgetRefuses ==
  /\ workerPc = "decided"
  /\ Mishap
  /\ workerPc' = "refused"
  /\ UNCHANGED <<hostClock, loopVars, rawVars, resultVars, chainVars>>

Completes ==
  /\ workerPc = "written"
  /\ completion' = verdict.terminal
  /\ workerPc' = "done"
  /\ UNCHANGED <<hostClock, loopVars, rawVars, resultFile, chainVars, mishaps>>

\* Death at any point; a result half written stays as it is.
WorkerDies ==
  /\ workerPc \notin {"done", "dead", "refused"}
  /\ Mishap
  /\ workerPc' = "dead"
  /\ resultFile' \in {resultFile} \cup
       (IF workerPc = "decided" /\ resultFile = NoFile THEN {TornFile} ELSE {})
  /\ UNCHANGED <<hostClock, loopVars, rawVars, completion, chainVars>>

\* The ledger advances; a transaction cannot land once its lifetime is over.
\* No reader looks outside a poll: what happens in between happens before the
\* next one begins.  Bound: one move during a poll, of any length.
WorkerChainMoves ==
  /\ workerPc \in {"loop", "reading"}
  /\ Cardinality(span) = 1
  /\ \E state \in LedgerStates :
       /\ state # onChain /\ state.level >= onChain.level
       /\ state.level > 0 => state.level > onChain.level
       /\ onChain.over => state.over
       /\ onChain.level > 0 => state.failed = onChain.failed
       /\ state.level = 0 => ~state.failed
       /\ (onChain.over /\ onChain.level = 0) => state.level = 0
       /\ onChain' = state
       /\ span' = IF workerPc = "reading" THEN span \cup {state} ELSE {state}
  /\ UNCHANGED <<hostClock, workerPc, loopVars, rawVars, resultVars, mishaps>>

\* One tick is the poll interval: it ends the sleep.  Nothing reads the clock
\* while requests are out or after the result.
WorkerTick ==
  /\ workerPc \notin {"reading", "written", "done", "refused"}
  /\ workerClock < WorkerEnd
  /\ workerClock' = workerClock + 1
  /\ workerPc' = IF workerPc = "sleeping" THEN "loop" ELSE workerPc
  /\ UNCHANGED <<setBack, loopVars, rawVars, resultVars, chainVars, mishaps>>

WorkerClockSetBack ==
  /\ workerPc \in {"loop", "judging", "sleeping", "decided"}
  /\ workerClock > 0
  /\ Mishap
  /\ workerClock' = workerClock - 1
  /\ setBack' = TRUE
  /\ UNCHANGED <<workerPc, loopVars, rawVars, resultVars, chainVars>>

WorkerRuns == PollBegins \/ ReadersAnswer \/ Judge \/ WritesResult \/ Completes

WorkerNext ==
  \/ WorkerOpens \/ WorkerRuns
  \/ \E n \in WorkerReaders : ReaderFails(n)
  \/ BudgetRefuses \/ WorkerDies
  \/ WorkerChainMoves \/ WorkerTick \/ WorkerClockSetBack

WorkerSpec == WorkerInit /\ [][WorkerNext]_workerVars

\* Requests end by their timeout, files are written, timers fire.
WorkerFairness == WF_workerVars(WorkerRuns) /\ WF_workerVars(WorkerTick)

----------------------------------------------------------------------------
(* Properties.                                                             *)

Terminals == {"NONE", "FINALIZED", "CONFIRMED", "OBSERVED_EXECUTION_FAILED", "EXPIRED",
              "OBSERVATION_INCONCLUSIVE"}
Verdicts == [terminal : Terminals, supporting : SUBSET WorkerReaders]
RawRecords == [index : Nat, at : 0 .. WorkerEnd, quorum : Verdicts, seen : BOOLEAN]

\* The worker's variables, the log and the files have their types; a verdict
\* is reached with two supporting claims or not at all.
WorkerTypeOK ==
  /\ workerClock \in 0 .. WorkerEnd
  /\ workerPc \in {"assigned", "loop", "reading", "judging", "sleeping", "decided",
                    "written", "done", "dead", "refused"}
  /\ startedAt \in 0 .. WorkerEnd /\ pollIndex \in Nat /\ observedAt \in 0 .. WorkerEnd
  /\ rawOpened \in BOOLEAN /\ \A i \in 1 .. Len(rawLog) : rawLog[i] \in RawRecords
  /\ latestClaims \in [WorkerReaders -> Claims]
  /\ seenOnLedger \in BOOLEAN
  /\ verdict \in Verdicts
  /\ Cardinality(verdict.supporting) = IF verdict = NoVerdict THEN 0 ELSE 2
  /\ \/ resultFile \in {NoFile, TornFile}
     \/ resultFile \in [state : {"written"}, verdict : Verdicts, claims : [WorkerReaders -> Claims],
                        decidedAt : 0 .. WorkerEnd]
  /\ completion \in Terminals \cup {NotCompleted}
  /\ onChain \in LedgerStates /\ span \subseteq LedgerStates
  /\ mishaps \in 0 .. WorkerMishaps /\ setBack \in BOOLEAN

HasResult == resultFile.state = "written"

\* A completed observation recomputes: whatever the readers claimed, lost or
\* contradicted, the reconciliation derives from the raw log exactly the
\* verdict the worker wrote, and the slot is not lost.  It needs a wall clock
\* that was not set back, an assignment that did not expire while the worker
\* ran (the worker checks it once), and no time between startedAt and the
\* first observed_at, which the deadline is measured from on either side.
ResultReconciles ==
  (/\ completion # NotCompleted /\ HasResult
   /\ ~setBack
   /\ resultFile.decidedAt <= ExpiresAt
   /\ rawLog[1].at = startedAt) => Recomputes(rawLog, latestClaims, resultFile)

\* What the reconciliation accepts is true of the ledger while fewer than two
\* readers lie: finality and confirmation are, a failure is a failure, and
\* EXPIRED is said only after the blockhash lifetime.
ReconciledIsTrue ==
  HasResult /\ Cardinality(LyingWorkerReaders) < 2 =>
    LET terminal == resultFile.verdict.terminal
    IN Recomputes(rawLog, latestClaims, resultFile) =>
         /\ terminal = "FINALIZED" => onChain.level = 3 /\ ~onChain.failed
         /\ terminal = "CONFIRMED" => onChain.level >= 2 /\ ~onChain.failed
         /\ terminal = "OBSERVED_EXECUTION_FAILED" => onChain.level > 0 /\ onChain.failed
         /\ terminal = "EXPIRED" => onChain.over

\* One observation per assignment: however often the process dies and is
\* started again, the raw log is one run's, polls numbered from zero, and a
\* result is neither overwritten nor completed by another run.
OneObservation ==
  /\ \A i \in 1 .. Len(rawLog) : rawLog[i].index = i - 1
  /\ completion # NotCompleted => HasResult /\ completion = resultFile.verdict.terminal

\* A worker that has opened its log ends: at the latest its deadline makes it
\* conclude, unless it dies or the budget refuses.
WorkerEnds == (workerPc = "loop") ~> (workerPc \in {"done", "dead", "refused"})

\* The worker's evidence: one observation, which the reconciliation recomputes,
\* and which is true of the ledger.
ObservationIsSound == ResultReconciles /\ ReconciledIsTrue /\ OneObservation
==============================================================================
