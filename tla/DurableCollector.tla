-------------------------- MODULE DurableCollector --------------------------
(***************************************************************************)
(* The Collector process: packages/collector/src/durable-collector.ts with *)
(* the replay indexes of packages/probes/src/ingestion.ts and the status   *)
(* codes of packages/collector/src/http.ts.                                *)
(*                                                                         *)
(* Calls of ingest() are chained on #tail, so one call at a time runs      *)
(* #ingestExclusive.  A call that is to be ACCEPTED appends a record to    *)
(* the accepted log and fsyncs it BEFORE the in-memory replay indexes      *)
(* change; a failed write poisons the process until it is restarted, and   *)
(* a restart rebuilds the indexes by replaying the log.                    *)
(*                                                                         *)
(* The environment of this module is every sequence of calls by any set of *)
(* clients; ResultPipeline puts the observer runtimes in its place.        *)
(***************************************************************************)
EXTENDS Naturals, Sequences, SequencesExt

CONSTANTS
  Clients,           \* who posts results
  Results,           \* signed results; equal results are equal byte for byte
  ResultId,          \* [Results -> id]   result_id
  IdempotencyKey,    \* [Results -> key]  idempotency_key
  ObserverSequence,  \* [Results -> key]  observer x experiment hash x sequence
  Admissible,        \* results whose schema, allowlist entry and signature pass
  None,              \* no call is being written; an answer about no result
  MaxPending         \* bound: calls chained on #tail at once

ASSUME AdmissibleAssumption == Admissible \subseteq Results
ASSUME NoneAssumption ==
  None \notin [client : Clients, result : Results, inWindow : BOOLEAN, live : BOOLEAN]

VARIABLES
  acceptedLog,       \* the accepted log on disk: its complete records
  partialRecord,     \* the file ends in a torn record
  running,           \* the process is up and its log is open
  index,             \* #ingestor: results in the replay indexes
  nextSequence,      \* #nextSequence
  fatalWriteError,   \* #fatalWriteError is set: the write path is poisoned
  tail,              \* #tail: calls waiting for their turn, oldest first
  writing,           \* the call inside its append + fsync, or None
  response           \* the HTTP answer on its way to each client

collectorVars == <<acceptedLog, partialRecord, running, index, nextSequence,
                   fatalWriteError, tail, writing, response>>

Call == [client : Clients, result : Results, inWindow : BOOLEAN, live : BOOLEAN]
Record == [collector_sequence : Nat, result : Results, inWindow : BOOLEAN]

\* Outcomes a client can see: the three ingestion outcomes (201, 200, 422),
\* and an HTTP 500.  A connection may also be refused or reset (Reset).
Outcomes == {"ACCEPTED", "DUPLICATE", "REJECTED", "ERROR"}
Answer == [outcome : Outcomes, result : Results]
NoAnswer == [outcome |-> "NONE", result |-> None]
Reset == [outcome |-> "RESET", result |-> None]

\* What a write that did not complete may leave in the file.
Landings == {"nothing", "partial", "whole"}

LogResults == {acceptedLog[i].result : i \in 1..Len(acceptedLog)}

-----------------------------------------------------------------------------
(***************************************************************************)
(* Assessment.  seen is the content of the replay indexes.                 *)
(***************************************************************************)

\* Faulty variant: only result_id is looked up.
ExistingByResultId(seen, r) == {a \in seen : ResultId[a] = ResultId[r]}

\* result_id is looked up first, then idempotency_key, then observer_sequence.
Existing(seen, r) ==
  LET byResultId         == {a \in seen : ResultId[a] = ResultId[r]}
      byIdempotencyKey   == {a \in seen : IdempotencyKey[a] = IdempotencyKey[r]}
      byObserverSequence == {a \in seen : ObserverSequence[a] = ObserverSequence[r]}
  IN IF byResultId # {} THEN byResultId
     ELSE IF byIdempotencyKey # {} THEN byIdempotencyKey
     ELSE byObserverSequence

\* The schema, the shape and the signature of a result are in order: one set
\* stands for all of these checks.
Allowed(r) == r \in Admissible

\* inWindow: the key was in its validity interval when ingest() was called.
Verdict(seen, r, inWindow) ==
  CASE ~Allowed(r) \/ ~inWindow -> "REJECTED"
    [] OTHER ->
         LET existing == Existing(seen, r)
         IN CASE existing = {}  -> "ACCEPTED"
              [] r \in existing -> "DUPLICATE"
              [] OTHER          -> "REJECTED"

\* parseRecord(): a record says at which line it is.
InPlace(log, i) == log[i].collector_sequence = i - 1

\* open(): every record has its place in the sequence and is ACCEPTED again
\* by the indexes the earlier records built.
Replayable(log) ==
  \A i \in 1..Len(log) :
     /\ InPlace(log, i)
     /\ Verdict({log[j].result : j \in 1..(i-1)}, log[i].result, log[i].inWindow)
          = "ACCEPTED"

-----------------------------------------------------------------------------
CollectorInit ==
  /\ acceptedLog = <<>>
  /\ partialRecord = FALSE
  /\ running = TRUE
  /\ index = {}
  /\ nextSequence = 0
  /\ fatalWriteError = FALSE
  /\ tail = <<>>
  /\ writing = None
  /\ response = [c \in Clients |-> NoAnswer]

\* A client that has hung up never sees the answer.
Respond(call, outcome) ==
  response' = IF call.live
              THEN [response EXCEPT ![call.client] =
                      [outcome |-> outcome, result |-> call.result]]
              ELSE response

\* Faulty variant: records are numbered one behind.
RecordNumberedBehind(call) ==
  [collector_sequence |-> nextSequence - 1, result |-> call.result,
   inWindow |-> call.inWindow]

RecordOf(call) == [collector_sequence |-> nextSequence, result |-> call.result,
                   inWindow |-> call.inWindow]

\* The disk after a write that did not complete.
Lands(landing, call) ==
  /\ acceptedLog' = IF landing = "whole" THEN Append(acceptedLog, RecordOf(call))
                                         ELSE acceptedLog
  /\ partialRecord' = (partialRecord \/ landing = "partial")

\* A request was read and ingest() called: the call waits for its turn.  Its
\* collector time, and so inWindow, is fixed here and not when the turn comes.
Arrive(call) ==
  /\ running
  /\ Len(tail) < MaxPending
  /\ tail' = Append(tail, call)
  /\ UNCHANGED <<acceptedLog, partialRecord, running, index, nextSequence,
                 fatalWriteError, writing, response>>

\* Faulty variant: the refused call is never taken off the chain.
RefusePoisonedKeepsTurn ==
  /\ running /\ fatalWriteError /\ writing = None /\ tail # <<>>
  /\ Respond(Head(tail), "ERROR")
  /\ UNCHANGED <<acceptedLog, partialRecord, running, index, nextSequence,
                 fatalWriteError, tail, writing>>

\* #ingestExclusive throws on a poisoned write path: HTTP 500.
RefusePoisoned ==
  /\ running /\ fatalWriteError /\ writing = None /\ tail # <<>>
  /\ tail' = Tail(tail)
  /\ Respond(Head(tail), "ERROR")
  /\ UNCHANGED <<acceptedLog, partialRecord, running, index, nextSequence,
                 fatalWriteError, writing>>

\* The assessment ends the call without a write: DUPLICATE or REJECTED.
AnswerWithoutWrite ==
  /\ running /\ ~fatalWriteError /\ writing = None /\ tail # <<>>
  /\ LET call == Head(tail)
         verdict == Verdict(index, call.result, call.inWindow)
     IN /\ verdict # "ACCEPTED"
        /\ Respond(call, verdict)
  /\ tail' = Tail(tail)
  /\ UNCHANGED <<acceptedLog, partialRecord, running, index, nextSequence,
                 fatalWriteError, writing>>

\* Faulty variant: the indexes and the client learn of the result before the
\* disk does.
BeginWriteEarly ==
  /\ running /\ ~fatalWriteError /\ writing = None /\ tail # <<>>
  /\ Verdict(index, Head(tail).result, Head(tail).inWindow) = "ACCEPTED"
  /\ index' = index \cup {Head(tail).result}
  /\ Respond(Head(tail), "ACCEPTED")
  /\ writing' = Head(tail)
  /\ tail' = Tail(tail)
  /\ UNCHANGED <<acceptedLog, partialRecord, running, nextSequence, fatalWriteError>>

\* assess() accepts: the call awaits appendFile and sync, and keeps its turn.
BeginWrite ==
  /\ running /\ ~fatalWriteError /\ writing = None /\ tail # <<>>
  /\ Verdict(index, Head(tail).result, Head(tail).inWindow) = "ACCEPTED"
  /\ writing' = Head(tail)
  /\ tail' = Tail(tail)
  /\ UNCHANGED <<acceptedLog, partialRecord, running, index, nextSequence,
                 fatalWriteError, response>>

\* The record is durable: it is assessed again, enters the indexes, and the
\* answer is sent.  A record the indexes refuse poisons the process.
CompleteWrite ==
  /\ running /\ writing # None
  /\ acceptedLog' = Append(acceptedLog, RecordOf(writing))
  /\ LET admitted == Verdict(index, writing.result, writing.inWindow) = "ACCEPTED"
     IN /\ index' = IF admitted THEN index \cup {writing.result} ELSE index
        /\ nextSequence' = IF admitted THEN nextSequence + 1 ELSE nextSequence
        /\ fatalWriteError' = ~admitted
        /\ Respond(writing, IF admitted THEN "ACCEPTED" ELSE "ERROR")
  /\ writing' = None
  /\ UNCHANGED <<partialRecord, running, tail>>

\* Faulty variant: a failed write does not poison the process.
FailWriteUnpoisoned(landing) ==
  /\ running /\ writing # None
  /\ Lands(landing, writing)
  /\ Respond(writing, "ERROR")
  /\ writing' = None
  /\ UNCHANGED <<running, index, nextSequence, fatalWriteError, tail>>

\* appendFile or sync throws: the process is poisoned whatever reached the file.
FailWrite(landing) ==
  /\ running /\ writing # None
  /\ Lands(landing, writing)
  /\ fatalWriteError' = TRUE
  /\ Respond(writing, "ERROR")
  /\ writing' = None
  /\ UNCHANGED <<running, index, nextSequence, tail>>

\* Clients whose connection is open on this call.
Waiting(c) ==
  \/ \E i \in 1..Len(tail) : tail[i].client = c /\ tail[i].live
  \/ writing # None /\ writing.client = c /\ writing.live

\* The process dies: memory is lost, a write in progress may have landed, and
\* every open connection is reset.
CrashCollector(landing) ==
  /\ running
  /\ IF writing = None
     THEN landing = "nothing" /\ UNCHANGED <<acceptedLog, partialRecord>>
     ELSE Lands(landing, writing)
  /\ running' = FALSE
  /\ index' = {}
  /\ nextSequence' = 0
  /\ fatalWriteError' = FALSE
  /\ tail' = <<>>
  /\ writing' = None
  /\ response' = [c \in Clients |-> IF Waiting(c) THEN Reset
                                                  ELSE response[c]]

\* Faulty variant: a torn record is repaired by cutting the file back to the
\* record before the last.
OpenLogRepairing ==
  /\ ~running
  /\ acceptedLog' = IF partialRecord /\ acceptedLog # <<>> THEN Front(acceptedLog)
                                                         ELSE acceptedLog
  /\ partialRecord' = FALSE
  /\ running' = TRUE
  /\ index' = {acceptedLog'[i].result : i \in 1..Len(acceptedLog')}
  /\ nextSequence' = Len(acceptedLog')
  /\ UNCHANGED <<fatalWriteError, tail, writing, response>>

\* readExistingLog(): the file ends with a whole record.
Untorn == ~partialRecord

\* open() after a restart.  It refuses a torn record and a log that does not
\* replay, and repairs neither.
OpenLog ==
  /\ ~running /\ Untorn /\ Replayable(acceptedLog)
  /\ running' = TRUE
  /\ index' = LogResults
  /\ nextSequence' = Len(acceptedLog)
  /\ UNCHANGED <<acceptedLog, partialRecord, fatalWriteError, tail, writing,
                 response>>

\* The client's timeout aborts its request; a call that is already chained
\* still runs, and nobody hears its answer.
HangUp(c) ==
  /\ tail' = [i \in 1..Len(tail) |->
                IF tail[i].client = c THEN [tail[i] EXCEPT !.live = FALSE]
                                      ELSE tail[i]]
  /\ writing' = IF writing # None /\ writing.client = c
                THEN [writing EXCEPT !.live = FALSE] ELSE writing
  /\ response' = [response EXCEPT ![c] = NoAnswer]
  /\ UNCHANGED <<acceptedLog, partialRecord, running, index, nextSequence,
                 fatalWriteError>>

\* The client takes its answer off the connection.
TakeResponse(c) ==
  /\ response[c] # NoAnswer
  /\ response' = [response EXCEPT ![c] = NoAnswer]
  /\ UNCHANGED <<acceptedLog, partialRecord, running, index, nextSequence,
                 fatalWriteError, tail, writing>>

-----------------------------------------------------------------------------
(***************************************************************************)
(* The collector under every environment.  A client is a connection: it    *)
(* posts again once it has its answer or has hung up.                      *)
(***************************************************************************)
Post(c) ==
  /\ ~Waiting(c) /\ response[c] = NoAnswer
  /\ \E r \in Results, w \in BOOLEAN :
        Arrive([client |-> c, result |-> r, inWindow |-> w, live |-> TRUE])

Abandon(c) == Waiting(c) /\ HangUp(c)

CollectorStep == RefusePoisoned \/ AnswerWithoutWrite \/ BeginWrite \/ CompleteWrite

CollectorNext ==
  \/ CollectorStep
  \/ OpenLog
  \/ \E c \in Clients : Post(c) \/ Abandon(c) \/ TakeResponse(c)
  \/ \E landing \in Landings : FailWrite(landing) \/ CrashCollector(landing)

CollectorSpec == CollectorInit /\ [][CollectorNext]_collectorVars

\* The event loop runs what is ready.  Nothing is assumed of clients, of the
\* disk or of restarts.
FairCollectorSpec == CollectorSpec /\ WF_collectorVars(CollectorStep)

-----------------------------------------------------------------------------
(***************************************************************************)
(* Properties.                                                             *)
(***************************************************************************)

\* Type correctness of the collector's state.
CollectorTypeOK ==
  /\ acceptedLog \in Seq(Record)
  /\ partialRecord \in BOOLEAN
  /\ running \in BOOLEAN
  /\ index \in SUBSET Results
  /\ nextSequence \in Nat
  /\ fatalWriteError \in BOOLEAN
  /\ tail \in Seq(Call)
  /\ writing \in Call \cup {None}
  /\ response \in [Clients -> Answer \cup {NoAnswer, Reset}]

SharesKey(r, s) ==
  \/ ResultId[r] = ResultId[s]
  \/ IdempotencyKey[r] = IdempotencyKey[s]
  \/ ObserverSequence[r] = ObserverSequence[s]

\* However often a result is retried, and whatever fails, crashes or is
\* replayed in between, the accepted log never holds two records that share a
\* result_id, an idempotency key or an observer sequence.
AcceptedOnce ==
  \A i, j \in 1..Len(acceptedLog) :
     i # j => ~SharesKey(acceptedLog[i].result, acceptedLog[j].result)

\* Whatever was cut off by a crash or a failed write, the complete records of
\* the log replay: the only thing that can keep open() from succeeding is a
\* torn final record.
LogReplays == Replayable(acceptedLog)

\* Memory never runs ahead of the disk (sprint-6-hostile-audit.md, H3): what
\* the indexes suppress as a duplicate is in the log, and a process that is
\* not poisoned has indexed every record and numbers the next one after them.
IndexMatchesLog ==
  /\ index \subseteq LogResults
  /\ running /\ ~fatalWriteError =>
       /\ index = LogResults
       /\ nextSequence = Len(acceptedLog)

\* A client is told ACCEPTED or DUPLICATE only of a result that is durable.
AcknowledgedIsDurable ==
  \A c \in Clients :
     response[c].outcome \in {"ACCEPTED", "DUPLICATE"} =>
        response[c].result \in LogResults

\* A failed write leaves at most one record the indexes do not know, the
\* uncertain one, and only a poisoned process can have it: no later call is
\* numbered or assessed against indexes that lack a durable record.
OneUncertainRecord ==
  running =>
    /\ Len(acceptedLog) <= nextSequence + 1
    /\ Len(acceptedLog) = nextSequence + 1 => fatalWriteError

\* Memory and disk after any failure: the log replays, the indexes agree with
\* it, and at most the one record of a failed write is in doubt.
MemoryMatchesDisk == LogReplays /\ IndexMatchesLog /\ OneUncertainRecord

\* No record is ever removed, rewritten or reordered, not even by recovery.
AppendOnly == [][IsPrefix(acceptedLog, acceptedLog')]_acceptedLog

\* Nothing is written behind a torn record: the file is left as the failure
\* left it for the operator to inspect.
TornLogFrozen ==
  [][partialRecord => partialRecord' /\ UNCHANGED acceptedLog]_collectorVars

\* Through every step, crashes and restarts included, the log only grows, and
\* not behind a torn record.
LogOnlyGrows == AppendOnly /\ TornLogFrozen

\* A failed or poisoned write does not break the chain of calls: every client
\* that keeps waiting gets an answer (possibly a reset).
EveryCallAnswered == \A c \in Clients : Waiting(c) ~> ~Waiting(c)
=============================================================================
