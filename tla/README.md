# SovereignKit: formal models

TLA+ modules of the parts of SovereignKit that move, record and judge evidence:
how an observed result becomes a durable, accepted record exactly once, how the
official fourteen-day window concludes every planned unit exactly once, how the
RPC gate keeps its rate and its quota over crashes and restarts, and the
processes around them, from the observer's worker to the SDK's router. TLC
checks every component on small instances; TLAPS proves their invariants and
action properties for every instance. Line references are to the repository's
`packages/`, `scripts/` and `docs/`.

    tlc -workers 2 -config PipelineFaults.cfg MCResultPipeline
    tlc -workers 2 -config MCSafeParts.cfg MCSafeParts
    tlapm DurableCollectorProofs.tla

## 1. The system

SovereignKit measures Solana RPC routes. A *coordinator* submits one Devnet
transaction per planned unit and signs an *assignment* for an *observer* host;
the observer's *worker* polls three readers until two of them agree and writes
an unsigned *result* into a spool directory; the observer's *delivery runtime*
signs it and posts it to the *Collector*, which keeps the accepted results in
an append-only log. The coordinator then copies the evidence, recomputes it,
and records the unit's *terminal event* in its journal. An SDK gives
applications a router that falls back over routes and a client of published
route intelligence.

    coordinator --spawn--> slot process --RPC--> ledger
        |  (journal, write-once files, lock directories)
        +--ssh--> observer host: inbox -> worker -> spool -> delivery runtime
        |                                                         | HTTP POST
        +--reads-- accepted log <------------- Collector <--------+

| Component | State it keeps | Operations | Hard behaviour | What makes it correct |
|---|---|---|---|---|
| Durable Collector (`packages/collector/src/durable-collector.ts`, `http.ts`, `packages/probes/src/ingestion.ts`) | accepted log; replay indexes; poison flag; chain of calls | `open`, `ingest`, `assess`, `#commit` | concurrent calls, torn and uncertain writes, replay after a crash | one record per unit of evidence; memory never ahead of the disk; the log always replays |
| Observer delivery runtime (`observer-runtime.ts`) | spool, delivery log, delivered set, permanent refusals, readiness | `open`, `scanOnce`, `run`, `snapshot` | lost answers, timeouts with the request still executing, failed receipts | a receipt only for a durable record; readiness hides nothing; the log reopens |
| Official coordinator (`scripts/run-grant-m2-official-coordinator.mjs`, `lib/grant-m2-official-coordinator.mjs`) | write-once files per slot, plan of the pass | reconcile, plan, execute, advance, conclude | death between any two side effects, stale plan, SSH failures | at most one submission, transport and start per slot; every slot concluded |
| Official journal (`lib/grant-m2-official-journal.mjs`) | numbered event files | `append`, `load`, due/missing decision | torn event, order of recorded times | never refuses its own coordinator |
| Slot process (`run-grant-m2-official-slot.mjs`, `lib/grant-m2-official-slot-runner.mjs`, `-slot-journal`, `-observer-sequence-journal`) | lock directories, side-effect files, sequence journal | reserve, prepare, submit, acknowledge, sign | unknown outcome of a submission, abandoned locks | no reservation is ever reused |
| RPC budget (`lib/grant-m2-rpc-budget.mjs`, `-journal`) | spent quota, recent and pending calls, journal | `call`, `callWhenAvailable` | persist before call, completion after call, restore with pending calls | never more than 60 CU per second or the quota |
| Observation worker, reader quorum (`observation-worker.ts`, `probes/src/reader-quorum.ts`) | raw log of polls, result, completion | poll, judge, write result, complete | readers that disagree or fail, deadline, death, clock set back | one observation per assignment; the reconciliation recomputes it; it is true of the ledger |
| Evidence reconciliation (`lib/grant-m2-official-reconciliation.mjs`, `-evidence-store.mjs`, `complete-grant-m2-official-slot.mjs`) | local copies, write-once evidence files | copy, reconcile, persist, append | copies of files somebody is writing, death between two files | QUALIFYING has all its evidence; nothing written is written over |
| Rehearsal slot: runner, dispatch, inbox, receipt (`lib/grant-m2-slot-runner.mjs`, `-dispatch`, `-assignment-inbox`, `-assignment-receipt`, ...) | attempt, claim and slot directories, sequence journal | reserve, submit, prepare, dispatch, receive, complete | competing runners, unknown outcomes, locks cleared by hand | one submission a slot, distinct sequence numbers, files that tell the truth |
| Dry-run scheduler (`lib/grant-m2-scheduler.mjs`) | lock, binding, tick journal | tick | overlapping invocations, half a record, old times | every slot decided once |
| Reactive router (`packages/sdk/src/router.ts`) | visited routes, attempts, events | `route` | timeouts of submit, observe and hook against one deadline | no route twice; a conclusion only from two readers; the deadline |
| Intelligence client (`packages/sdk/src/intelligence.ts`) | applied snapshot, hysteresis, freshness | `poll`, `decision` | overlapping polls, rollback, equivocation, staleness | stale or contradicted intelligence never steers |
| Telemetry (`packages/telemetry/src`) | event log, timeline | record, `trackTransaction` | two requests per reader, lying readers, cut lines, two processes on one file | a terminal state is true and cites its evidence |
| Hostile proxy (`packages/hostile-proxy/src`) | active requests, audit records | handle a request | capacity checked on arrival, body and upstream in between | the trace tells the traffic and is bounded |
| Analysis (`packages/analysis/src/engine.ts`, `packages/probes/src/execution.ts`) | counts of each cell | execute, classify, evidence strength | percentages at their boundary, inconclusive units | inconclusive units never turn a class into its opposite |
| Live monitor (`run-grant-m2-live-monitor.mjs`) | state file, journal | sample, notify, store | message sent and state not stored | the operator knows what is stored; an outage is told |
| Canary soaks (`run-grant-m1-canary-soak.mjs`, `run-grant-m1-collector-canary-soak.mjs`) | samples | sample, evaluate | requests that hang, signals, wall clock set back | an admitted service had no long unseen outage and lost nothing |
| Milestone acceptance (`lib/grant-m1-acceptance.mjs`, `assemble-grant-m1-final-acceptance.mjs`) | copied files, bundle | assemble, judge | copies taken while observers work, redeliveries | PASS is true of ledger and Collector |
| Probe builder and signing, grant tooling, host provisioning, on-chain program, dashboard, video | none between calls, or presentation | - | - | not modelled, see section 6 |

`PROJECT.json` lists the same components with their status, and under
`hazards` what in this code is hard to test, at its line.

## 2. Modules

| Module | Models | Lines |
|---|---|---|
| `DurableCollector` | the Collector process under every sequence of calls | code 1:1, one action per await boundary |
| `ObserverRuntime` | the delivery runtime of every observer, without its network | actions take the HTTP outcome from the composition |
| `ResultPipeline` | both, joined by a wire with timeouts, crashes, failing disks, expiring keys | composes the two |
| `AcceptedLedger` | abstract: an append-only ledger without conflicting results, receipts only for what it holds | refined by `ResultPipeline` |
| `OfficialJournal` | the journal's validation, its summary, and the planner: pure operators over a sequence of events | used by the next |
| `OfficialCoordinator` | the coordinator's passes, its slot process, the remote hosts as facts, the clock | extends `OfficialJournal` |
| `OfficialWindow` | abstract: each unit submitted at most once and while open, concluded once, QUALIFYING only if accepted | refined by `OfficialCoordinator` |
| `RpcBudget` | the RPC gate of one owner: reservations, their journal, its lock, the process around it | stands alone |
| `ObservationWorker` | the worker's polls, its quorum and files, and the recomputation of its verdict | stands alone |
| `SlotEvidence` | the end of one official slot file by file, what `OfficialCoordinator` takes as one step | stands alone |
| `RehearsalSlot` | runner, dispatcher, inbox and completion of the rehearsal | stands alone |
| `DryRunScheduler` | invocations of the dry-run scheduler over one journal | stands alone |
| `ReactiveRouter` | one call of `route()` | stands alone |
| `SnapshotClient` | the published feed and its polling client | stands alone |
| `Telemetry`, `TelemetryLog` | the tracking of a transaction; the file of events under it | stand alone |
| `HostileProxy` | concurrent requests and the audit trace | stands alone |
| `AnalysisWindow` | the plan's execution as counts, and the classification | stands alone |
| `LiveMonitor` | the minute process on the observer's host | stands alone |
| `CanarySoak` | both soak runners and their evaluation | stands alone |
| `GrantAcceptance` | a campaign from assignment to verdict | stands alone |
| `DurableCollectorProofs`, `RpcBudgetProofs`, `ResultPipelineProofs`, `OfficialCoordinatorProofs`, `OfficialPassProofs` | the theorems of section 4 about the core | extend their module, `OfficialPassProofs` the coordinator's proofs |
| `ObservationProofs` | the theorems about `ObservationWorker` and `Telemetry` | extends both |
| `SafePartsProofs`, `LivePartsProofs` | the theorems about the parts of `MCSafeParts` and `MCLiveParts` | extend these, for any values of their constants |
| `MCDurableCollector`, `MCResultPipeline`, `MCOfficialCoordinator`, `MCRpcBudget` | small instances of the core | - |
| `MCLiveParts`, `MCSafeParts` | small instances of the parts that stand alone | section 2.12 |

Every operator named `...Early`, `...Unpoisoned`, `...Overlapping` and the like
with the comment "Faulty variant" is a plausible bug of the definition that
follows it. No specification uses one; each shows that some property would
notice the bug.

### 2.1 `DurableCollector`

`ingest()` chains calls on `#tail`: the variable `tail` is the calls waiting,
`writing` the call inside its `appendFile` and `sync`. Everything between two
awaits is one action:

| Action | Code |
|---|---|
| `Arrive` | a request is read and `ingest()` called; the collector time (`inWindow`) is taken here, `durable-collector.ts:63` |
| `RefusePoisoned` | `durable-collector.ts:79`, HTTP 500 |
| `AnswerWithoutWrite` | assessment says DUPLICATE or REJECTED, lines 80-85 |
| `BeginWrite` | assessment accepts; the call awaits its write, lines 84-94 |
| `CompleteWrite` | the write is durable; commit, sequence, answer, lines 99-105 |
| `FailWrite` | append or sync throws: the record may be absent, partial or whole, lines 95-98 |
| `CrashCollector`, `OpenLog` | process death at any point; `open()`, lines 41-61 |

A result is a model value; `ResultId`, `IdempotencyKey` and `ObserverSequence`
give its three identities, so equal values are byte-equal results and two
values with one key are a conflict. Schema, allowlist and signature are the set
`Admissible`; the validity interval is the flag `inWindow` of a call because
it depends on the time of the call. `Verdict` is `assess()` with the code's
order: admission first, then `result_id`, key, sequence.

### 2.2 `ObserverRuntime` and `ResultPipeline`

A scan (`StartScan` ... `EndScan`) takes a directory listing and visits it in
the order of the file names (`NextEntry`): delivered already, refused before, of
no use (too big, no result, another identity), or posted. A file of no use only
degrades the scan (`SkipFailed`). A file that cannot be *read* ends it: `stat`
and `readFile` are outside the `try` block of the entry
(`observer-runtime.ts:128,133`), so `scanOnce` throws, `run()` keeps the error,
and the files named after that one are not visited (`ScanThrows`). The next scan
begins at the first name again. The post's
outcome is the Collector's: `Acknowledged`, `RefusedForGood` (4xx except 408
and 429, remembered by content) or `FailedForNow`. `RecordDelivery` and
`FailRecord` are the receipt's append and sync, `OpenRuntime` is `open()` with
`readDeliveryLog()`.

`ResultPipeline` adds the wire: a request may reach the Collector after its
client timed out (`ObserverTimesOut` leaves it on the wire), find the port
closed, or be answered to nobody. The worker that writes spool files is the
action `ResultSpooled`; a file it has only half written is not JSON, which is one
failed visit and not modelled. `Unreadable` files can never be read;
`SpoolReadFails` is a read that fails once, because the file is gone again or the
host is out of descriptors.

### 2.3 `OfficialJournal`, `OfficialCoordinator`

Slots are numbered in schedule order, times are ticks. `ValidEvent` is
`validateEvent()`, `PlannedSteps` is `planGrantM2OfficialCoordinator()` (its
WAIT actions change nothing and are left out). A pass of the coordinator is
`Reconcile` for each slot whose side effects began without a prepared dispatch,
`MakePlan`, then the plan's steps in schedule order, then `Advance` of whatever
is active. The slot process and `advanceOne()` are straight-line programs: `pc`
walks through their write-once files (`files[s]`) with the side effect between
two files counted in `effects`. `Crash` may happen between any two steps, tears
the file being written or not, and keeps the lock directories; `Restart` is
systemd's. An exception that reaches the main loop is `StopSafely`.

What the observer host has of a slot is the set `remote[s]`: a receipt, a
running worker, a completion, a delivery. `RemoteProgress` moves it at any
time, and every remote read may also answer "absent", because `remoteExists()`
cannot tell SSH failure from absence.

### 2.4 `RpcBudget`

`createRpcBudget()` chains reservations and completions on one promise, the
variable `tail`; `step[c]` says where each call is, `reservation[c]` which row
it holds. `state` is what the budget has in memory, `journal` the last complete
record on disk, `torn` whether a partial record follows it. A call costs 20
compute units at a quota and a window that are multiples of 20, so it counts as
one, and the id of a row is what was spent with it, as in the code.

| Action | Code |
|---|---|
| `Open`, `OpenRefused` | lock, read, restore; a refused journal keeps its lock, `-budget-journal.mjs:28-49` |
| `StartCall`, `Retry` | a reader's `callWhenAvailable()`, and again after its sleep, `grant-m2-rpc-budget.mjs:58-67` |
| `Refuse`, `ReadInvalidClock`, `DenyQuota`, `Delay` | the early returns of `reserve()`, lines 14-27 |
| `Reserve`, `PersistReservation` | the charge in memory, then its record; only then the call, lines 28-40 |
| `EndCall`, `Complete`, `PersistCompletion` | the call's end, chained as an operation of its own, lines 42-53 |
| `FailPersist`, `FindClosed`, `CloseInterrupts` | a write that throws, on a broken disk, a closed journal, or a handle that closes between append and fsync |
| `TimesOut` | the reader's time is over, `capture()` in `observation-worker.ts`; nobody aborts what is queued or being written |
| `Conclude`, `Close`, `Release`, `AbandonJournal` | the end of the worker, `run-grant-m2-observation-worker.mjs:31-36`: the poison check, `close()` or `abandon()` |
| `Crash`, `OperatorUnlocks` | death at any point keeps the lock; an operator removes it |
| `Tick` | time |

The code keeps the time of each row and compares it with the clock. The model
keeps the difference: `rest[i]` is the time row `i` still occupies the window,
set when it is reserved and again when its completion is recorded. `started`
and `age` are history: which calls were made, and how long ago. How long a
delayed caller sleeps is left out (a retry may come at any time), and a clock
that runs backwards is a reading the code refuses, `ReadInvalidClock`.

### 2.5 `ObservationWorker`

One process per assignment: `WorkerOpens` creates the raw log exclusively
(`"wx"`, so a second start finds it and is refused), `PollBegins` to
`ReadersAnswer` is one poll of three readers, `Judge` the quorum over it,
`WritesResult` and `Completes` the two files at the end
(`observation-worker.ts:41-121`, `run-grant-m2-observation-worker.mjs:30-50`).
A reader's answer is a level and an error of the signature's status, a height
before or past the blockhash's lifetime, or nothing; the ledger may move
between two readers of one poll (`span`). `LedgerQuorum` is
`reader-quorum.ts:16-30` with the order of its rules; `WithHistory` the rule
that a transaction once seen cannot expire. `Recomputes` is the other side: the
verdict `grant-m2-official-reconciliation.mjs:150-207` derives from the raw log
the worker left. The raw log keeps each poll's own quorum and sightings, which
is all the recomputation reads of it. `WorkerClockSetBack` is an NTP step;
every time in the worker is `Date.now()`.

### 2.6 `SlotEvidence`

The coordinator's `advanceOne()` at the end of a slot, one action per SSH copy
and per file: `LookForCompletion`, `CopyRemote` (three files, each write-once),
`CopyDeliveryLog`, `ReadCollectorLog` (on the Collector's own disk, while it
appends), `ReconcileSlot`, `PersistFile`, `AppendQualifying`. Meanwhile worker,
delivery runtime and Collector write: a line is begun and ended in two steps
(`BeginLine`, `EndLine`), also lines of other slots. `CoordinatorDies` is
possible between any two steps and inside a write, which then leaves a torn
local file; `Elsewhere` is where a refusal goes.

### 2.7 `RehearsalSlot` and `DryRunScheduler`

A runner is a straight line over exclusive directories and files: sequence
lock, reservation, sequence number, transaction, submission, acknowledgement,
assignment. `DispatchReserves`, `InboxReceives`, `InboxWritesReceipt`,
`ReceiptVerifies`, `DispatchEnds` and `Complete` follow on the two hosts. A
runner may die between any two steps, and a submission may end with unknown
outcome, which writes `reconciliation-required`; an operator may remove the
sequence lock once its holder is gone. Nothing in the code retries.

An invocation of the dry run is `TakeLock`, `BindSchedule` (the first one's
start time binds the directory), `WriteTick` (recompute the journal so far,
decide every slot due, write one record) and `Unlock`; `InvocationDies` leaves
the lock and, inside a write, half a record, and `OperatorUnlocks` takes a dead
holder's lock away.

### 2.8 `ReactiveRouter` and `SnapshotClient`

`ReactiveRouter` is one `route()`: `Emit` reports an event and waits for the
telemetry hook, at most `HookTimeout` of what is left; `Bounded` is the race of
a callback with its timer (`router.ts:283-297`). `Submit` hands the transaction
over, `SubmissionTimesOut` gives it up, and `LedgerMoves` lands it all the
same. An observation is `Conclusive` only with two configured, distinct
readers; a reader of `LyingReaders` may support anything. The ledger is the
truth the properties compare with.

`SnapshotClient` has a publisher whose versions carry classifications,
evidence times and a key's validity, and pollers that overlap: `PollStarts`
takes `now`, `FeedAnswers` the snapshot served then, `PollSettles` judges it
against the state of the moment (`intelligence.ts:251-279`) and `PollFails` is
every failure, which fails open. `DecisionTurnsOff` is the write that
`decision()` makes when it finds the snapshot out of date. `votes` is history:
the classifications of every snapshot that was applied.

### 2.9 `Telemetry` and `TelemetryLog`

`Telemetry` is `trackTransaction()`: each poll issues a status and a height
request to each reader at once, `ReadStatus` and `ReadHeight` happen in any
order with the ledger moving in between, and the results are recorded reader by
reader (`RecordReader`). `WithStatus` and `WithHeight` fold the quorum's
evaluation (`quorum.ts:38-164`), `DerivedState` is the timeline's state. A
transaction that lands between the two requests of two readers is taken for
expired; the code cannot tell, and `VerdictIsTrue` asks of EXPIRED only that the
lifetime is over.

`TelemetryLog` is the file below: `EventRecorded` appends one line,
`ProcessDies` may leave a line cut, which the next append continues, and
`TimelineRead` reads the whole file and derives the timeline of the session
from events of every process that used it.

### 2.10 `HostileProxy` and `AnalysisWindow`

A request is admitted (`Admit`) or refused for audit capacity, concurrency or
method, then waits for its body; `Handle` classifies it, records the decision
and forwards or rejects; `UpstreamAnswers` or `UpstreamFails` ends it. What a
body contains is one of the shapes the classifier tells apart.

`AnalysisWindow` executes the randomized plan group by group; a cell counts
successes, failures and inconclusive units. `Classification` and
`EvidenceStrength` compare percentages exactly, as fractions, where the code
rounds to six digits first.

### 2.11 `LiveMonitor`, `CanarySoak` and `GrantAcceptance`

`LiveMonitor`: `Sample` evaluates the host (its eleven signals are three
conditions), counts consecutive failures and decides whether to tell;
`MessageSent` or `MessageFails`; `WriteState` replaces the state file.
`MonitorDies` in between leaves the old state.

`CanarySoak` is both runners: `CaptureStarts`, `ServiceAnswers` or
`RequestLost`, `Sampled`, `DelayEnds`, `SoakEvaluated`, with `SoakSignalled` at
any time and the wall clock set back. `Blockers` is the evaluation. The
thresholds are constants: 95 % and 99 % of six samples would be all six, so the
instance lowers them until a run may miss samples and still be admitted, as a
day's run may.

`GrantAcceptance` takes each unit of a signed plan through `UnitAssigned`,
`UnitPolled`, `UnitConcluded` and `UnitDelivered` while the operator copies its
files one by one and in any order (`FileCopied`), assembles them (`Assembled`) and
judges (`VerdictGiven`). The raw log and the delivery log grow, so their copies
are what they said then. A raw log copied before its worker was done and the
result copied after is a bundle the assembly takes, since it does not look into
the raw log (`assemble-grant-m1-final-acceptance.mjs:89`), and the gate refuses
(`grant-m1-acceptance.mjs:293-303`), although the observer did nothing wrong:
`RecomputationAgrees` says that the gate always notices, `RefusalHasItsCause`
names it as the one refusal that is not about the observations.

### 2.12 `MCLiveParts` and `MCSafeParts`

Components that share no state are checked side by side: the variable `part`
says which of them a behaviour runs, the others keep their initial state. The
reachable states are the disjoint union of the components' own, so nothing is
multiplied and nothing is lost: every property of a component holds of the
suite exactly if it holds of the component. `MCLiveParts` states the fairness
of its components as well. `EveryRunEnds` is the leads-to of whichever runs.

## 3. Runs

| Run | Question | Result |
|---|---|---|
| `collector` | four results that conflict in pairs, two clients, two pending calls, any number of failures, crashes and restarts | holds, 92 000 states |
| `pipeline_faults` | one observer, two results of one unit, two timeouts and one fault of each other kind, a read of the spool that fails once among them; refinement of `AcceptedLedger` | holds, 518 000 states |
| `pipeline_two` | two observers; one has its result behind a file that cannot be read, the other behind a file that cannot be sent and before one that cannot be read; no failing receipts, no expiring keys; every result settles that no unreadable file stands before | holds under fairness, 134 000 states |
| `receipt_fault` | can a runtime always reopen its delivery log? | violated: finding 1 |
| `expired_retry` | is an accepted result ever refused for good? | violated: finding 2 |
| `window_same_observer` | two slots of one observer, overlapping; one crash or safe-mode exit; refinement of `OfficialWindow`; every slot is accounted for | holds under fairness, 489 000 states |
| `window_missing` | does MISSING mean that nothing was submitted? | violated: finding 3 |
| `window_late_execution` | is a slot always executed within its tolerance? | violated: finding 4 |
| `budget` | two callers of one gate; a crash, something that poisons the budget (a failed write or an invalid clock) and an unlocking operator, in any order | holds, liveness under fairness, 318 000 states |
| `budget_release` | is the lock kept while a reservation needs reconciliation? | violated: finding 5 |
| `live_parts` | snapshot client, router, worker, monitor, tracker, end of a slot: sound, and they come to their end | holds under fairness, 242 000 states |
| `safe_parts` | worker, rehearsal, dry run, campaign, soaks, proxy, analysis, event log, tracker: what they record and judge is so | holds, 1 930 000 states |

### The properties

Some properties are conjunctions, each part named and commented in its module:

| Property | Says |
|---|---|
| `MemoryMatchesDisk` | `LogReplays`, `IndexMatchesLog`, `OneUncertainRecord`: the replay indexes never run ahead of the file, and at most the record of one failed write is in doubt |
| `LogOnlyGrows` | `AppendOnly`, `TornLogFrozen`: no record is ever changed, and nothing is written behind a torn one |
| `ObserversAgree` | `ResponseMatchesPost`, `DeliveryLogReopens`, `AcceptedNeverRefused`: an answer is for the post that waits; the observer's log and refusals agree with the Collector's |
| `EventuallySettled` | a result in the spool is delivered or refused for good, whatever other files of the spool are of no use or refused; not if a torn or poisoned log waits for the operator, or a file named before it can never be read |
| `UnitsCountOnce` | `AtMostOnce`, `QualifyingIsBacked`: one submission, transport and start a slot; QUALIFYING only with an accepted record |
| `CoordinatorGoesOn` | `OneActivePerObserver`, `JournalNeverRefuses` |
| `JournalCoversCalls` | `ChargedBeforeCalled`, `InFlightIsPending`, `JournalRestores` |
| `FeedIsSound`, `FeedGoesOn` | a decision from the feed is current and its hysteresis is the history of votes; a version votes once, and the feed recovers |
| `RouterIsSound` | `ConclusionIsTrue`, `DeadlineKept`, `FallbacksSurvive`, `SubmissionDiscipline` |
| `OperatorIsInformed` | what is stored was told; an outage that lasts is told |
| `EvidenceIsSound` | `VerdictHasItsEvidence`, `EvidenceIsWriteOnce` |
| `EveryRunEnds` | router, worker, tracker and slot come to an end |
| `ObservationIsSound` | `ResultReconciles`, `ReconciledIsTrue`, `OneObservation` |
| `RehearsalIsSound` | `SubmittedOnce`, `SequencesDistinct`, `FilesTellTruth` |
| `ScheduleIsAccounted` | `EachSlotDecidedOnce`, `MissingMeansUnobserved`, nothing after half a record |
| `AcceptanceIsEarned` | `PassIsTrue`, `RecomputationAgrees`, `RefusalHasItsCause` |
| `AdmissionIsEarned` | `LongOutageIsSeen`, `AdmittedKeptItsResults`, `RunsAreJudged` |
| `AuditIsSound` | `AuditBounded`, `AuditTellsTraffic` |
| `ClassificationIsSound` | `InconclusiveNeverFlips`, `SomebodyCarriesTheProgram` |
| `TimelineStandsOnTheLog`, `TimelineIsSound` | a timeline reads its own events and cites them; its terminal states are true, and an expiry is proved |

Deadlock checking is off because the system does stop: a torn log waits for an
operator, an ended window exits, a missed start blocks, a run returns.

### Bounds, and why they are enough

* Collector: conflicts are pairwise, so four results (a pair sharing a key, a
  pair sharing a sequence, one inadmissible) contain every pattern of two;
  two clients with two pending calls give every order of arrival against one
  write in progress. Crashes and failed writes are unbounded.
* Pipeline: faults are bounded per kind by `FaultBudget`. The interesting cases
  need at most two timeouts (the retry of a retry) and one crash or failing
  write on each side; the run `pipeline_faults` combines all of them.
* Coordinator: a slot's tolerance is shorter than its assignment's life
  (120 s and 180 s); the instances keep that order with one and two ticks, or
  two and three. `MaxClock` lies past the last expiry, so every slot reaches
  its end. `MaxStops` bounds abnormal exits; the unit file allows six in five
  minutes (`StartLimitBurst=6`), after which systemd gives up.

* RPC gate: the code lets three calls into a window; the instance lets two of
  three, so that a window can be full, a caller sleep, and a third call break
  the rate. Two ticks of window separate "reserved a tick ago" from "completed a
  tick ago". The quota bounds the number of calls; one crash, one poisoning and
  one removed lock give every restart with reservations pending. The proofs
  have no such bounds.
* Worker: three readers of which one lies, every order of failures and answers,
  a ledger that goes through none, confirmed and finalized (confirmed alone is
  what tells a deadline's CONFIRMED from FINALIZED), a mishap of each kind.
  The instance of `live_parts` has only an unseen transaction: what is asked
  there is that the deadline ends the worker.
* Router: three routes, a deadline of two ticks against callbacks of one, so
  that the deadline falls before, inside and after an attempt; one of the three
  readers lies.
* Snapshot client: three versions are an avoid vote, its confirmation and its
  reversal; two pollers overlap; one disturbance of any kind.
* Rehearsal: two runners and two slots give competition for a slot and for the
  lock; two failures of any kind, so that a runner dies, its lock is removed and
  the other one finds what it left. Dry run: two slots, two invocations, one of
  which may die or be late.
* Slot evidence: three persisted files, two deaths, so that a restart can die
  again.
* Telemetry: one reader lies in `safe_parts`; in `live_parts` two do, because
  ending must not depend on the truth. One outage.
* Proxy: three requests for two places and one audit record: both limits are
  hit in every order. Analysis: two routes and two probes a cell, with the
  minimum of data scaled from 30 to 1 and 60 to 2. `MaxInconclusive` is 50 %,
  because one of two is the least a cell can miss, and `DegradedRate` 39 % to stay
  as far below `HealthyRate` as `WindowAssumption` asks (a rate here is 0, 50 or
  100 %); the other thresholds are the code's.
* Monitor: two failures make it critical, three samples a reminder; three
  troubles, three changes of the host. Soaks: six samples. Acceptance: one unit
  finished when the campaign begins and one under way; the assignment lives for
  one tick and the campaign for two, enough for two polls on either side of a
  copy and a result after the lifetime.

### Fairness

* `FairCollectorSpec`: the event loop runs a call that is ready. Nothing is
  assumed of clients, disk or restarts.
* `FairSpec` of `ResultPipeline`: both processes run when they can, a request
  on the wire reaches the port, and a process that died is restarted, as
  `Restart=on-failure` of `sovereignkit-collector.service` and
  `sovereignkit-observer.service` says. Faults are never forced; they are
  finite because of the budget, which is the "once faults have ceased" of
  `EventuallySettled`.
* `FairSpec` of `OfficialCoordinator`: the process runs when it can, the clock
  advances, systemd restarts the unit (`Restart=on-failure`, `RestartSec=10`).
  Observers are not assumed to do anything: a slot whose observer is silent is
  concluded at its assignment's expiry.
* `FairSpec` of `RpcBudget`: the event loop runs the head of the chain and wakes
  sleepers, time passes, and an RPC returns, fails or is aborted some time
  (`capture()` aborts at its timeout). Readers need not call, the process need
  not end or be started again. `WaitsEnd` excepts a process that restored a
  full window of pending rows: they are never completed, so nobody ever gets in.
* `live_parts`: the application keeps polling and its endpoint answers; the
  router's timers fire and its continuations run, while no callback of the
  application need ever settle; every request of worker and tracker ends,
  by an answer or by its own timeout (`AbortSignal.timeout`), and time passes;
  systemd's timer starts the monitor every minute; the coordinator's loop runs
  and an assignment's validity ends. Deaths, lying readers and lost messages
  are never forced and bounded by their constants.

### Findings

1. `observer-runtime.ts:173`: a receipt that reached the file before its append
   or sync failed is appended a second time with the same `delivery_sequence`
   and `result_id`. The runtime goes on, and its next start refuses the log.
2. `ingestion.ts:39`: the validity interval is checked before duplicates, so
   the retry of an accepted result after the key's end is a 422 that the
   observer remembers as permanent.
3. `grant-m2-official-coordinator.mjs:28`: a slot is MISSING 120 s after its
   due time even if its transaction was submitted and its assignment, valid for
   180 s, is in progress. `docs/grant-m2-official-incident-20260914.md` reports
   a window in which that happened to every unit.
4. `run-grant-m2-official-coordinator.mjs:103`: the slot process checks the
   execution tolerance against the time of the plan.
5. `run-grant-m2-observation-worker.mjs:35`: when a reader times out nobody
   waits for its budgeted call, and the worker can close the journal while the
   call's row is pending. The lock goes, although
   `docs/grant-m2-dispatch-integration.md:41` has in-flight reservations require
   reconciliation.

### Promises the models contradict, without a run of their own

* `HostileProxy!NoForwardPastCapacity`: `docs/controlled-hostile-proxy.md`
  promises to stop forwarding when the audit capacity is used up. The capacity
  is checked on arrival (`server.ts:36-39`), so a request that waits for its
  body is forwarded after others have used it up. `AuditBounded` is the bound
  that does hold: the capacity and two records per concurrent request.
* `Telemetry!ExpirySupportIsNegative`: a test of the quorum
  (`quorum-negative.test.ts`) has heights alone prove nothing. The decision
  counts only pairs of a negative status and a height, but the events an
  EXPIRED entry cites may include the height of a reader whose status request
  failed (`quorum.ts:125-164`).
* `docs/methodology.md:30` fixes "max RPC retries" at 0; the submitter of the
  telemetry package asks for five (`packages/telemetry/src/solana-rpc.ts:32`). Retries of one signed transaction
  by the RPC node change nothing a model here tells apart.

## 4. Proofs

### The Collector

`DurableCollectorProofs` proves, for any sets of clients and results, any
assignment of identities to results and any bound on pending calls:
`CollectorTypeCorrect`, `CollectorAcceptedOnce`, `CollectorLogReplays`,
`CollectorIndexMatchesLog` and `CollectorAcknowledgedIsDurable`. The
assumptions are the module's: `Admissible` is a set of results, and `None` is
not a call.

Neither of the safety invariants is inductive. `LogReplays` survives
`CompleteWrite` only because the call in its write was accepted by indexes that
held exactly the log's results, and a crash during that write (`Lands("whole")`)
adds the record without any further check. The inductive invariant
`CollectorInv` therefore adds to the types:

* while the process runs unpoisoned, `index` is exactly the results of the log
  and `nextSequence` its length;
* the call in `writing` is still ACCEPTED by the verdict over the log: nothing
  entered the indexes since it was assessed;
* a poisoned or stopped process has nothing in its write;
* the complete records replay;
* every ACCEPTED or DUPLICATE answer on its way is for a result of the log.

The argument per action: `Arrive`, `RefusePoisoned`, `AnswerWithoutWrite`,
`HangUp` and `TakeResponse` leave log and indexes alone; `BeginWrite` sets up
the second clause from the first; `CompleteWrite`, and `FailWrite` or
`CrashCollector` with a whole record, extend the replay by one record by the
lemma that appending an accepted record keeps a log replayable; `OpenLog`
re-establishes the first clause from `Replayable`. `AcceptedOnce` follows from
`LogReplays`: a record accepted after all earlier ones shares no identity with
them, because `Existing` falls through its three lookups only if each is empty.

### The RPC gate

`RpcBudgetProofs` proves, for any callers, quota, burst, window and number of
faults (`BudgetAssumption`: a window and a burst of at least one):
`BudgetTypeCorrect`, `BudgetCharged`, `BudgetInFlight`, `BudgetRate` and
`BudgetRestores`.

`RateBound` speaks of calls and the gate only of rows, and a row can leave the
window, be lost with the process's memory, or belong to a call that starts long
after it was reserved. The inductive invariant `BudgetInv` ties them together:

* `Sound`, of the journal and, while the process is there, of memory: rows are
  charged, pending rows are among them, there are at most `Burst`;
* `Covers`, of both: every call that was made is charged, and if it is younger
  than the window its row is still held, pending or with
  `rest + age >= Window`;
* `Owns`: each caller under way holds a row of its own, pending in memory and,
  once its charge is written, in the journal;
* `DownIsIdle`: a process that is not there has no callers.

`Tick` lowers `rest` by what it adds to `age`; `Reserve` drops a row only when
its rest is over, which by `Covers` makes its call old; `MakeCall` starts an
age at 0 with its row pending; `Complete` sets the rest to the whole window. A
crash or a restart replaces memory by the journal, which covers as well. Hence
all young calls have their rows in one journal, which holds at most `Burst`.

### The Collector's disk

`CollectorMemoryMatchesDisk` and `CollectorLogOnlyGrows` use `DiskInv`:
`CollectorInv`, that at most one record lies beyond what memory has numbered,
and that a torn record is only ever behind a process that is down or poisoned.
The last is what keeps `BeginWrite` from writing behind a torn record.

### The pipeline

`ResultPipelineProofs` proves, for any observers, results and fault budget:
`PipelineTypeCorrect`, `PipelineDeliveredIsDurable`,
`PipelineReadyMeansDelivered`, `PipelineAnswersMatch` and the refinement
`PipelineImplementsLedger`. `PipelineInv` is the Collector's invariant, the
types of observers and wire, and:

* `InFlight`: for every observer, what is under way in its name (on the wire,
  in the chain, in its write, answered) is at most one live message and is for
  the file it waits for. A timeout makes the message a dead one; this is why a
  late request never answers the wrong post.
* `Durable`: an ACCEPTED or DUPLICATE answer, a receipt and a delivered entry
  are for a record of the log.

`DeliveredIsDurable` then follows because only an answer writes a receipt and
only a record of the log gets one; the log never shrinks, by the Collector's
own invariant. Readiness needs `ScanCovers` besides: a scan's listing, what it
has visited and what it still has to visit together are the spool at its
start. For the refinement, `AcceptedLedger`'s ledger is the set of the log's
results and its receipts are the delivered ones; each action of the pipeline
is `Accept`, `GiveReceipt` or a stutter.

### The coordinator and its window

`OfficialCoordinatorProofs` proves, for any valid schedule, observers, lifetime
of assignments and number of stops: `CoordinatorTypeCorrect`,
`CoordinatorUnitsCountOnce`, `CoordinatorTerminalIsFinal` and the refinement
`CoordinatorImplementsWindow`. `CoordinatorInv` is needed because none of these
is inductive: that a transaction is not sent twice rests on what the files of
the slot say, and that on where the coordinator stands.

* `InOrder(journal)`: started by its first event only, one event a slot, and
  ended only when every slot has one. `ValidKeepsOrder` shows that
  `validateEvent()` alone is enough for it, whoever appends.
* `PlanInOrder`, `PlanIsFresh`: a plan has one step a slot, each for a slot
  that is open and is not in hand. A plan is made once a pass and used while the
  journal grows, so this is what makes a stale plan harmless.
* `WorkingIsOpen`, `HandKnows`: the slot in hand has no terminal event, and at
  each label the file that was written before it is there and the effect that
  comes after it has not happened.
* `FilesCover(s)`: without its write-once file an effect has not happened; with
  the assignment the submission has, and what the observer host holds came from
  the transport and the worker's start.

`OfficialWindow`'s account of a slot is the status of its one event (`AccountIs`),
its submissions are the attempts, and what it calls accepted is a delivery on
the observer host. Every action is then `StartUnits`, `Submit`, `Accepted`,
`Conclude`, `EndUnits` or a stutter; `Recorded` is the step of an event, and the
only `QUALIFYING` event comes behind the label where the delivery was seen.

`OfficialPassProofs` builds on that invariant to prove `CoordinatorGoesOn`: the
journal never refuses an event the coordinator records, and the active set is
never ambiguous. Both are about a plan that is made at one time and carried out
at others. `PassInv` says why they hold:

* `TimesInOrder`: the time of the plan, every event and the due time of every
  slot that has begun are not after the clock.
* `RecordsAreTimely`: as long as a step that records at the plan's time is left,
  no event is later than that time. It is kept because slots are taken in
  schedule order, which is due order: whatever is `MISSING` was due before
  whatever may still be executed (`MakePlanPass`), so all the events of the plan's
  time come before the first one of the present (`TakePass`).
* `ExecutionsAreFree`, `OneBegun`: of an observer's open slots at most one has
  its reservation, and a slot is planned for execution only if none has. What
  carries this over a crash is that a pass plans nothing while a slot has begun
  and has no assignment (`ExecutableIsFree` uses `~Unreconciled`).

The proof uses no more of the schedule than `ValidSchedule`, and of the clock
that it does not go back.

### Observers and the Collector agree, on two conditions

`ObserversAgree` is false of the code in two ways, findings 1 and 2: a receipt
whose write fails leaves a log that does not reopen, and a key that expires
turns a retry of an accepted result into a refusal. `ResultPipelineProofs`
shows that these are the only two: `PipelineObserversAgree` assumes
`FaultBudget["observerDisk"] = 0` and `FaultBudget["keyExpiry"] = 0` and nothing
else, over all timeouts, lost answers, and deaths of both sides. Its halves are
`PipelineReceiptsReopen` (`ReceiptsInv`: every line has its number, the next
number is the log's length, and a result on its way to its receipt has none
yet) and `PipelineAcceptedNeverRefused` (`RefusalsStand`: a REJECTED answer or a
kept refusal is for a result the log does not hold and cannot take any more,
because it is not admissible or a record with one of its identities is there).

### A poisoned gate

`BudgetPoisonStopsCalls` needs one fact more than `BudgetInv`: `OneTurn`. A
caller that is writing its reservation or its settlement is at the head of the
chain, and a poisoned budget has no such caller; so no reservation's write can
still return after the poison and start a call.

### The observation and the telemetry

`ObservationProofs` proves `ObservationIsSound` for any liars, ledger, validity,
deadline and number of mishaps. `WorkerInv`:

* `RunStory`, `ResultStory`: every poll of the raw log but the last decided
  nothing, by the quorum rules applied to the log up to it; the result is what
  the last poll, or the deadline, makes of the log. This is what the
  reconciliation recomputes.
* `ClockStory`: the times are in order as long as the clock was not set back.
* `LedgerStory`: with fewer than two liars each quorum of the log is true of the
  ledger and stays so. Of two readers that agree one is honest, and the ledger
  only goes forward (`Precedes`), so what was true when it was read is true when
  the result is written.

`ResultReconciles` needs the induction over a log's length mentioned below: the
first poll that decides is the last one.

`TimelineIsSound` is about `Telemetry`, where a status may be lost again by a
fork and a reader answers two requests. `TrackInv` adds `ReadingStory` (what an
honest reader said still fits the ledger, in the sense of `Fits`),
`EstablishedStory` (what two compatible claims established is true) and
`ExpiryStory` (an expiry rests on two readers, `paired`, each of which did not
see the transaction and had a height past its lifetime; it cites two heights).

### The parts that record, judge and account

`SafePartsProofs`, for any values of each part's constants:

* `RehearsalSound`. `RehearsalInv`: `OneHolder` (of the runners between opening
  the sequence journal and closing it there is one, and the lock is there),
  `NumbersOwned` (the journal counts without a gap, and a runner's number
  belongs to its slot), `RunnerFiles` (the files of a slot say how far its runner
  is and whether it has submitted), `SlotFilesInOrder`, `ReceiptsReal`. Clearing
  the lock is sound because it happens only when no runner is left that holds
  it: "A repeated slot or abandoned lock requires reconciliation"
  (`docs/grant-m2-dispatch-integration.md:64`).
* `DryRunAccounted`. `DryRunInv`: each whole record of the journal is what
  `decideTick` makes of the records before it under the one binding, times do
  not go back, and only the last record may be half; an invocation decides under
  that binding. The property is then a fact about one journal
  (`OrderAccounts`). The proof does not use the lock: the model takes a tick's
  recomputation and its exclusive write as one step, which the lock gives it,
  and which the code's `wx` on the next number (`grant-m2-scheduler.mjs:109`)
  gives it as well.
* `AcceptanceEarned`. `UnitStory` says what one unit's raw polls, result and
  receipts have to do with each other and the ledger, `CopyStory` what a copy has
  to do with its file, although units go on while the copies are made: a copied
  result is the result, a copied raw log a beginning of the raw log
  (`EarlierLog`), a copied receipt the receipt. A whole raw log is judged as the
  worker judged it (`RecomputedAlone`); one that lacks a poll ends undecided, or
  with a negative after a sighting, and never passes (`RecomputedPart`).
* `AdmissionEarned`. `OutageStory` and `SpacingStory`: the samples' times
  increase, a sample that was ready was taken at an instant of no outage, and
  while nobody stopped the run or set the wall clock back the log is one that
  can be judged. That no outage of `MaxGap + SoakTimeout` ticks is between two
  ready samples is then arithmetic on an admitted log.
* `AuditSound`. `ProxyRoom`: each request under way keeps room for the records
  it may still add, two while its body is read and one while the upstream has
  it; `ProxyStory` has, for each stage, the records, the forward and the answer.
* `ClassificationSound`. `WindowInv` bounds what a cell counts by what was
  executed. `HealthyStays` does the arithmetic of the inconclusive units and
  needs the thresholds apart by more than `MaxInconclusive`, as 90, 40 and 10
  are (`WindowAssumption`). `BelowTogether` shows that if every peer were below
  the rate their sum would be, so that a peer baseline at the rate has a peer at
  it; that one is not ASYMMETRIC itself (`CarriedBySomebody`).
* `TimelineOnTheLog`. `FileStory`: whole events of the file were written once
  and are true, and whatever is not whole was cut; `SessionStory`: what a
  process recorded is in the file, or the file cannot be read.

`SafePartsTyped` and `LivePartsTyped` put the parts' types together.

### The parts that serve an operator or a wallet

`LivePartsProofs`, for any values of each part's constants:

* `EvidenceSound`. `EvidenceInv`: a receipt, and even the beginning of its line,
  comes after the Collector's record (`DeliveredWasCollected`, which the
  pipeline's `DeliveredIsDurable` is about); a copy says nothing its original
  does not (`CopiesOfOriginals`); and at each step the coordinator has what the
  earlier steps established (`CoordinatorHas`), in particular every evidence file
  before the one it writes, whole.
* `FeedSound`. `AppliedStory`: what is applied is the last vote and was
  verified; `CountersStory`: the two counters of a key are the runs of AVOID and
  HEALTHY at the end of its votes, and the flag what the whole history makes of
  it. Overlapping polls matter because a poll that settles late must not vote
  again: `VersionVotes`.
* `OperatorKnows`, the safety half of what the operator is owed. `ToldByThen`
  says at each step of the process what has been sent.
* `RouterSound`. `RouteClock` (no timer is set behind the deadline), `OrderStory`
  (the order is the configured one, sifted: nothing is lost, nothing added, and
  routes alike keep their order), `CallStory` (each attempt is the order's at its
  place, a route with a call has been visited).

### How some of it had to be proved

The library's induction theorems take an operator as a parameter, which the
installed provers cannot instantiate. Where a proof needs induction it takes the
least natural number, or the smallest set, at which a claim fails
(`LeastNatural`, `LeastSet`); with it the recursive functions `RoutesIn` and
`TotalOver` are shown to exist and to do what their names say. `SelectSeq` and
the folds of the community modules are defined by recursion that the provers
do not see through; the models use such a function where a proof depends
on its result.

Proving changed the models in these places:

* `CanarySoak`: a tick in which the service recovered counted as a tick of the
  outage, so two outages with an instant of service between them looked like
  one, and `LongOutageIsSeen` was false for two troubles. TLC's instance allows
  only one. The tick of a recovery is no longer in `downTicks`, and the outage
  that must be seen is one tick shorter, exactly `MaxGap + SoakTimeout`.
* `ReconciledIsTrue` and the timeline state that fewer than two readers lie:
  two of three can establish anything.
* `WindowAssumption` states how far apart the thresholds have to be.
* `SnapshotClient`'s flags are compared with the history itself (`Earned`),
  not with a fold over it.

### Only model-checked

All liveness: `EventuallySettled`, `WaitsEnd`, `EventuallyAccounted`,
`EveryCallAnswered`, `FeedGoesOn`, `OperatorIsInformed`, `EveryRunEnds`. It needs ENABLED, which is out of the
prover's reach; of the last three the safety parts are proved (`VersionVotes`,
`OperatorKnows`, and the invariants of the parts that end). Every other property
of a passing run is the statement of a theorem, `ObserversAgree` on the two
conditions that its run, `pipeline_two`, has as well.

## 5. Plan

Done: the modules of section 2, and the proofs of section 4, which reach every
invariant and every action property of the passing runs. What is left:

1. The coordinator with two observers joined to their pipeline, instead of the
   facts `remote`, and the same proof for the joined module.
2. `SlotEvidence` shown to implement the step of `OfficialCoordinator` it
   details.
3. The receipt of a result as one theorem from the worker's file to the
   coordinator's terminal event, from the lemmas that now stand in three
   modules.

## 6. Not modelled

* Cryptography, schemas, parsing and formatting: a result, an assignment, a
  snapshot is admissible or not.
* Notifications and daily summaries of the coordinator, and the construction of
  the fourteen-day schedule, which is a constant.
* An allowlist edited between restarts; clocks that run backwards, except where
  a module says so (worker, RPC gate, soaks, snapshot client).
* The byte level of probes and their signing; registry, allowlist, hash and
  host-identity checks of the acceptance; confidence intervals and the layout
  of reports.
* Grant tooling (one-shot verifiers, staging, deployment scripts), host
  provisioning, the on-chain program (one stateless handler), dashboard and
  video: no state between calls, or presentation.
