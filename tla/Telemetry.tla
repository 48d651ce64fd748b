----------------------------- MODULE Telemetry ------------------------------
(***************************************************************************)
(* trackTransaction (packages/telemetry/src/coordinator.ts): submit, then  *)
(* poll three readers until the timeline derived from the recorded events  *)
(* (quorum.ts, timeline.ts) is FINALIZED or EXPIRED or the deadline is     *)
(* reached.  Each reader's status and block height are two requests under  *)
(* way at once: the transaction may move between them.  The event log is   *)
(* kept as the state of the loops that fold it.                            *)
(***************************************************************************)
EXTENDS Naturals, FiniteSets

CONSTANTS
  LyingTelemetry,     \* readers whose answers may be false
  ObservationDeadline,\* in poll intervals
  Levels,             \* the levels a status reports: 0 none, 1 processed,
                      \* 2 confirmed, 3 finalized
  Outages             \* bound: requests of honest readers without an answer

TelemetryReaders == 1 .. 3  \* in the order their results are recorded
TelemetryQuorum == 2

\* trackTransaction refuses every other set of readers and deadline.
ValidCoordinatorOptions ==
  /\ Cardinality(TelemetryReaders) = 3 /\ TelemetryQuorum = 2
  /\ ObservationDeadline \in Nat \ {0}

ASSUME TelemetryAssumption ==
  /\ ValidCoordinatorOptions
  /\ LyingTelemetry \subseteq TelemetryReaders
  /\ {0, 1, 3} \subseteq Levels /\ Levels \subseteq 0 .. 3
  /\ Outages \in Nat

VARIABLES
  trackPc,       \* where trackTransaction stands
  trackElapsed,  \* time since startedAt
  readings,      \* the answers of the poll under way
  evaluation,    \* what the recorded events establish
  recorded,      \* readers of this poll whose results are recorded
  deadlineHit,   \* OBSERVATION_DEADLINE_REACHED is recorded
  outages,       \* what is left of Outages
  negatives,     \* history: readers that saw nothing in a poll where their
                 \* height was past the lifetime
  tx,            \* the transaction on the ledger: level, failed or not
  lifetimeOver,  \* the confirmed height is past lastValidBlockHeight
  forked         \* history: a processed execution was dropped

trackVars == <<trackPc, trackElapsed, readings, evaluation, recorded, deadlineHit,
               outages, negatives, tx, lifetimeOver, forked>>

\* No status, processed, confirmed, finalized.
Statuses == {s \in [level : Levels, failed : BOOLEAN] : s.level = 0 => ~s.failed}
NoStatus == [level |-> 0, failed |-> FALSE]

Unread == [asked |-> TRUE]   \* the request is under way
Unavailable == [asked |-> FALSE]

----------------------------------------------------------------------------
(* The projection: evaluateObservationQuorum and deriveTimeline, event by  *)
(* event in the order of recording.                                        *)

\* The states of a quorum of statuses, by lifecycleRank.
StateRank == [OBSERVED_EXECUTION_SUCCESS |-> 1, OBSERVED_EXECUTION_FAILED |-> 2,
              CONFIRMED |-> 3, FINALIZED |-> 4]
QuorumStates == DOMAIN StateRank

\* Events are numbered in the order of recording; 0 is no event.
EventNumber(poll, n) == Cardinality(TelemetryReaders) * poll + n
NoHeight == [at |-> 0, past |-> FALSE, negative |-> FALSE]

NothingYet ==
  [latest |-> [n \in TelemetryReaders |-> NoStatus],  \* latestStatusByReader
   at |-> [s \in QuorumStates |-> 0],     \* the event that established a state
   everSeen |-> FALSE,                    \* hasAnyLedgerObservation
   heights |-> [n \in TelemetryReaders |-> NoHeight],  \* readers' latest heights
   paired |-> {},                         \* latest paired heights past the lifetime
   expired |-> FALSE,                     \* findExpirationEvent found its event
   support |-> {}]                        \* source events of the EXPIRED entry

Seen(latest, failed) == {n \in TelemetryReaders : latest[n].level > 0 /\ latest[n].failed = failed}

\* Failures win over successes; no side, no confirmation.
Winning(latest) ==
  IF Cardinality(Seen(latest, TRUE)) >= TelemetryQuorum THEN Seen(latest, TRUE)
  ELSE IF Cardinality(Seen(latest, FALSE)) >= TelemetryQuorum THEN Seen(latest, FALSE)
  ELSE {}

Reached(latest, level) == {n \in Winning(latest) : latest[n].level >= level}

\* Faulty variant: the strongest claim counts, not the claims of a quorum.
StatusSnapshotByStrongest(latest) ==
  {s \in QuorumStates :
     \/ s = "OBSERVED_EXECUTION_SUCCESS" /\ Cardinality(Seen(latest, FALSE)) >= TelemetryQuorum
     \/ s = "OBSERVED_EXECUTION_FAILED" /\ Cardinality(Seen(latest, TRUE)) >= TelemetryQuorum
     \/ s = "CONFIRMED" /\ Reached(latest, 2) # {}
     \/ s = "FINALIZED" /\ Reached(latest, 3) # {}}

\* The states two compatible latest claims establish now.
StatusSnapshot(latest) ==
  {s \in QuorumStates :
     \/ s = "OBSERVED_EXECUTION_SUCCESS" /\ Cardinality(Seen(latest, FALSE)) >= TelemetryQuorum
     \/ s = "OBSERVED_EXECUTION_FAILED" /\ Cardinality(Seen(latest, TRUE)) >= TelemetryQuorum
     \/ s = "CONFIRMED" /\ Cardinality(Reached(latest, 2)) >= TelemetryQuorum
     \/ s = "FINALIZED" /\ Cardinality(Reached(latest, 3)) >= TelemetryQuorum}

\* A status event: the first event that establishes a state is kept.
WithStatus(e, n, status, at) ==
  LET latest == [e.latest EXCEPT ![n] = status]
  IN  [e EXCEPT !.latest = latest,
                !.everSeen = e.everSeen \/ status.level > 0,
                !.at = [s \in QuorumStates |->
                          IF e.at[s] = 0 /\ s \in StatusSnapshot(latest) THEN at ELSE e.at[s]]]

\* Faulty variant: a height counts although the reader's status is unknown.
PairedNegativeAlways(status) == TRUE

\* hasPairedNegative: the same poll's status was read, and was null.
PairedNegative(status) == status = NoStatus

\* entryFromSupport: the first two of the latest heights past the lifetime,
\* whether paired or not.
FirstPast(heights) ==
  LET past == {n \in TelemetryReaders : heights[n].past}
      earlier(n) == {m \in past : heights[m].at < heights[n].at}
  IN  {heights[n] : n \in {m \in past : Cardinality(earlier(m)) < TelemetryQuorum}}

\* A height event; the EXPIRED entry cites what FirstPast says then.
WithHeight(e, n, past, status, at) ==
  LET heights == [e.heights EXCEPT ![n] = [at |-> at, past |-> past, negative |-> status = NoStatus]]
      paired == IF ~PairedNegative(status) THEN e.paired
                ELSE IF past THEN e.paired \union {n} ELSE e.paired \ {n}
      found == ~e.expired /\ PairedNegative(status) /\ Cardinality(paired) >= TelemetryQuorum
  IN  [e EXCEPT !.heights = heights, !.paired = paired, !.expired = e.expired \/ found,
                !.support = IF found THEN FirstPast(heights) ELSE e.support]

\* One reader's two results of a poll, the status recorded first.
WithReader(e, n, result, at) ==
  LET afterStatus == IF result.status = Unavailable THEN e ELSE WithStatus(e, n, result.status, at)
  IN  IF result.height = Unavailable THEN afterStatus
      ELSE WithHeight(afterStatus, n, result.height.past, result.status, at)

\* The last entry of the lifecycle, by event and rank: a failure replaces a
\* success, a ledger observation retracts EXPIRED, the deadline adds
\* INCONCLUSIVE.
DerivedState(e, atDeadline) ==
  LET established == {s \in QuorumStates : e.at[s] > 0}
      entries == IF "OBSERVED_EXECUTION_FAILED" \in established
                 THEN established \ {"OBSERVED_EXECUTION_SUCCESS"} ELSE established
      after(s, r) == e.at[s] > e.at[r] \/ (e.at[s] = e.at[r] /\ StateRank[s] > StateRank[r])
  IN  IF e.expired /\ ~e.everSeen THEN "EXPIRED"
      ELSE IF atDeadline /\ entries \intersect {"CONFIRMED", "FINALIZED"} = {} THEN "OBSERVATION_INCONCLUSIVE"
      ELSE IF entries = {} THEN "OBSERVATION_PENDING"
      ELSE CHOOSE s \in entries : \A r \in entries \ {s} : after(s, r)

Timeline == DerivedState(evaluation, deadlineHit)

----------------------------------------------------------------------------
(* The tracker.                                                            *)

Asked == [status |-> Unread, height |-> Unread]

TrackInit ==
  /\ trackPc = "idle" /\ trackElapsed = 0
  /\ readings = [n \in TelemetryReaders |-> Asked]
  /\ evaluation = NothingYet /\ recorded = 0 /\ deadlineHit = FALSE
  /\ outages = Outages /\ negatives = {}
  /\ tx = NoStatus /\ lifetimeOver = FALSE /\ forked = FALSE

\* CREATED and SUBMISSION_ATTEMPTED are recorded, the submitter is called; a
\* rejection known not to have been forwarded ends the tracking.
TrackSubmits ==
  /\ trackPc = "idle"
  /\ trackPc' \in {"polling", "rejected"}
  /\ UNCHANGED <<trackElapsed, readings, evaluation, recorded, deadlineHit, outages,
                 negatives, tx, lifetimeOver, forked>>

Polling(n) == trackPc = "polling" /\ n \in TelemetryReaders \ LyingTelemetry

\* The two requests of an honest reader, answered at their own instants.
ReadStatus(n) ==
  /\ Polling(n) /\ readings[n].status = Unread
  /\ readings' = [readings EXCEPT ![n].status = tx]
  /\ UNCHANGED <<trackPc, trackElapsed, evaluation, recorded, deadlineHit, outages, negatives,
                 tx, lifetimeOver, forked>>

ReadHeight(n) ==
  /\ Polling(n) /\ readings[n].height = Unread
  /\ readings' = [readings EXCEPT ![n].height = [past |-> lifetimeOver]]
  /\ UNCHANGED <<trackPc, trackElapsed, evaluation, recorded, deadlineHit, outages, negatives,
                 tx, lifetimeOver, forked>>

\* capture: a request fails or its timer fires.
RequestFails(n) ==
  /\ Polling(n) /\ outages > 0 /\ outages' = outages - 1
  /\ \/ readings[n].status = Unread /\ readings' = [readings EXCEPT ![n].status = Unavailable]
     \/ readings[n].height = Unread /\ readings' = [readings EXCEPT ![n].height = Unavailable]
  /\ UNCHANGED <<trackPc, trackElapsed, evaluation, recorded, deadlineHit, negatives,
                 tx, lifetimeOver, forked>>

\* A lying reader claims finality or nothing, the most it can, and a height
\* past the lifetime.
Lies == [status : {s \in Statuses : s.level \in {0, 3}}, height : {[past |-> TRUE]}]

\* Faulty variant: a poll waits for an answer from every reader.
ReaderSettlesOnAnswers ==
  /\ trackPc = "polling"
  /\ \A n \in TelemetryReaders \ LyingTelemetry :
       {readings[n].status, readings[n].height} \intersect {Unread, Unavailable} = {}
  /\ trackPc' = "recording"
  /\ UNCHANGED <<trackElapsed, readings, evaluation, recorded, deadlineHit, outages, negatives,
                 tx, lifetimeOver, forked>>

\* All requests have settled.
ReaderSettles ==
  /\ trackPc = "polling"
  /\ \A n \in TelemetryReaders \ LyingTelemetry :
       readings[n].status # Unread /\ readings[n].height # Unread
  /\ trackPc' = "recording"
  /\ UNCHANGED <<trackElapsed, readings, evaluation, recorded, deadlineHit, outages, negatives,
                 tx, lifetimeOver, forked>>

\* The results are recorded in reader order.
RecordReader(n) ==
  /\ trackPc = "recording" /\ recorded = n - 1
  /\ recorded' = n
  /\ \E result \in (IF n \in LyingTelemetry THEN Lies ELSE {readings[n]}) :
       /\ evaluation' = WithReader(evaluation, n, result, EventNumber(trackElapsed, n))
       /\ negatives' = IF result = [status |-> NoStatus, height |-> [past |-> TRUE]]
                       THEN negatives \union {n} ELSE negatives
  /\ readings' = [readings EXCEPT ![n] = Asked]
  /\ UNCHANGED <<trackPc, trackElapsed, deadlineHit, outages, tx, lifetimeOver, forked>>

\* The timeline decides, then the deadline.
EndPoll ==
  /\ trackPc = "recording" /\ recorded = Cardinality(TelemetryReaders)
  /\ recorded' = 0
  /\ LET ended == Timeline \in {"FINALIZED", "EXPIRED"}
         late == trackElapsed >= ObservationDeadline
     IN  /\ trackPc' = IF ended \/ late THEN "returned" ELSE "sleeping"
         /\ deadlineHit' = (~ended /\ late)
  /\ UNCHANGED <<trackElapsed, readings, evaluation, outages, negatives, tx, lifetimeOver, forked>>

\* sleep(pollIntervalMs), the only time that counts here.
TrackSleeps ==
  /\ trackPc = "sleeping"
  /\ trackPc' = "polling" /\ trackElapsed' = trackElapsed + 1
  /\ UNCHANGED <<readings, evaluation, recorded, deadlineHit, outages, negatives,
                 tx, lifetimeOver, forked>>

\* The ledger: execution, confirmation, finality, the end of the lifetime, and
\* a fork that drops what was only processed.
ChainMoves ==
  /\ trackPc = "polling"
  /\ \/ /\ tx.level = 0 /\ ~lifetimeOver
        /\ \E failed \in BOOLEAN : tx' = [level |-> 1, failed |-> failed]
        /\ UNCHANGED <<lifetimeOver, forked>>
     \/ /\ tx.level \in {1, 2}
        /\ \E level \in Levels : level > tx.level /\ tx' = [tx EXCEPT !.level = level]
        /\ UNCHANGED <<lifetimeOver, forked>>
     \/ /\ tx.level = 1 /\ ~forked
        /\ tx' = NoStatus /\ forked' = TRUE
        /\ UNCHANGED lifetimeOver
     \/ /\ ~lifetimeOver /\ tx.level # 1
        /\ lifetimeOver' = TRUE
        /\ UNCHANGED <<tx, forked>>
  /\ UNCHANGED <<trackPc, trackElapsed, readings, evaluation, recorded, deadlineHit,
                 outages, negatives>>

TrackNext ==
  \/ TrackSubmits \/ ReaderSettles \/ EndPoll \/ TrackSleeps \/ ChainMoves
  \/ \E n \in TelemetryReaders :
       ReadStatus(n) \/ ReadHeight(n) \/ RequestFails(n) \/ RecordReader(n)

TrackSpec == TrackInit /\ [][TrackNext]_trackVars

\* A request is answered or its timer fires; the loop goes on.
TrackRuns ==
  \/ TrackSubmits \/ ReaderSettles \/ EndPoll \/ TrackSleeps
  \/ \E n \in TelemetryReaders : ReadStatus(n) \/ ReadHeight(n) \/ RecordReader(n)

TrackFairness == WF_trackVars(TrackRuns)

----------------------------------------------------------------------------
(* Properties.                                                             *)

\* Every variable keeps its type.
TrackTypeOK ==
  /\ trackPc \in {"idle", "polling", "recording", "sleeping", "returned", "rejected"}
  /\ recorded \in 0 .. Cardinality(TelemetryReaders)
  /\ trackElapsed \in 0 .. (ObservationDeadline + 1)
  /\ evaluation.latest \in [TelemetryReaders -> Statuses]
  /\ evaluation.paired \subseteq TelemetryReaders /\ negatives \subseteq TelemetryReaders
  /\ Cardinality(evaluation.support) \in {0, TelemetryQuorum}
  /\ tx \in Statuses /\ outages \in 0 .. Outages
  /\ {deadlineHit, lifetimeOver, forked} \subseteq BOOLEAN

\* With at most one lying reader the verdict is the ledger's: FINALIZED and
\* CONFIRMED are, EXPIRED is past the lifetime, and the execution outcome is
\* the one executed unless a fork dropped an execution the readers saw.
VerdictIsTrue ==
  Cardinality(LyingTelemetry) < TelemetryQuorum =>
    /\ Timeline = "FINALIZED" => tx.level = 3
    /\ Timeline = "CONFIRMED" => tx.level >= 2
    /\ Timeline = "EXPIRED" => lifetimeOver
    /\ \A failed \in BOOLEAN :
         LET state == IF failed THEN "OBSERVED_EXECUTION_FAILED" ELSE "OBSERVED_EXECUTION_SUCCESS"
         IN  evaluation.at[state] > 0 /\ ~forked
               => tx.level > 0 /\ tx.failed = failed

\* Neither time nor missing answers expire a transaction: EXPIRED rests on two
\* readers that saw nothing in the poll that showed them past the lifetime, on
\* no reader that ever saw anything, and never comes from the deadline.
ExpiryNeedsNegatives ==
  Timeline = "EXPIRED" =>
    /\ Cardinality(negatives) >= TelemetryQuorum
    /\ ~evaluation.everSeen /\ ~deadlineHit

\* Tracking ends, whatever the readers answer, in the poll that reaches the
\* deadline at the latest.
TrackingEnds ==
  trackPc = "polling" ~> trackPc = "returned" /\ trackElapsed <= ObservationDeadline

\* What the timeline says of a transaction is true, and an expiry is proved.
TimelineIsSound == VerdictIsTrue /\ ExpiryNeedsNegatives

\* What the tests of the quorum say of a height whose status was not read:
\* "heights alone cannot prove successful negative status reads"
\* (packages/telemetry/src/quorum-negative.test.ts).  It does not hold of the
\* events the EXPIRED entry cites: one outage is enough to have a height of an
\* unpaired reader among them, although the decision itself counts pairs only.
ExpirySupportIsNegative ==
  Timeline = "EXPIRED" =>
    \A height \in evaluation.support : height.negative
=============================================================================
