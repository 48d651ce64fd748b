---------------------------- MODULE TelemetryLog ----------------------------
(***************************************************************************)
(* The event log of the telemetry package (event-store.ts, recorder.ts,    *)
(* session.ts): processes follow one another on one JSONL file, each with  *)
(* a session of its own, possibly for an attempt an earlier process left   *)
(* unfinished.  A process killed inside an append leaves a part of a line  *)
(* that the next append continues; every poll reads the whole file back    *)
(* and derives the timeline from it (timeline.ts).                         *)
(***************************************************************************)
EXTENDS Naturals, Sequences, FiniteSets

CONSTANTS
  Attempts,   \* attempt identities
  Processes,  \* bound: processes that use the file, one after another
  Polls       \* bound: polls of a session

LogReaders == 1 .. 2   \* both are needed: the quorum is two

ASSUME LogAssumption == Processes \in Nat /\ Polls \in Nat

VARIABLES
  lines,      \* the lines of the file: an event, or Garbled
  unfinished, \* the last line has no newline yet
  process,    \* the process now or last on the file
  session,    \* its attempt, or NoSession
  sequence,   \* TelemetryRecorder.#sequence
  own,        \* history: the events whose append it saw resolved
  timeline,   \* what session.timeline() said last
  executed,   \* the transaction is finalized on the ledger
  cut,        \* history: a process died with a part of a line written
  refused     \* history: the process met an answer it could not record

logVars == <<lines, unfinished, process, session, sequence, own, timeline, executed, cut, refused>>

NoSession == "none"
Garbled == [type |-> "garbled"]

----------------------------------------------------------------------------
(* The timeline.                                                           *)

\* Faulty variant: readByAttempt leaves out the lines it cannot parse.
ReadableTolerant(file) == TRUE

\* readByAttempt parses every line of the file, whoever wrote it.
ReadableFile(file) == \A i \in DOMAIN file : file[i] # Garbled

EventsOf(file, attempt) ==
  {file[i] : i \in {j \in DOMAIN file : file[j] # Garbled /\ file[j].attempt = attempt}}

\* compareEvents: by sequence, then by event id, which is random.
Before(e, f) ==
  \/ e.sequence < f.sequence
  \/ e.sequence = f.sequence /\ e.id < f.id
  \/ e.sequence = f.sequence /\ e.id = f.id /\ e.process < f.process

\* Events with one observationId and different data drop each other.
Undisputed(events) ==
  LET statuses == {e \in events : e.type = "status"}
      same(e, f) == e.poll = f.poll /\ e.reader = f.reader
  IN  {e \in statuses : \A f \in statuses : same(e, f) =>
                           e.final = f.final /\ e.context = f.context}

\* The latest status of each reader up to an event.
LatestUpTo(statuses, last) ==
  LET earlier == {e \in statuses : e = last \/ Before(e, last)}
  IN  {e \in earlier : ~\E f \in earlier : f.reader = e.reader /\ Before(e, f)}

\* The event that establishes FINALIZED, if any, and the two it rests on.
FinalizedAt(statuses) ==
  {e \in statuses : Cardinality({f \in LatestUpTo(statuses, e) : f.final}) = Cardinality(LogReaders)}

SupportOf(statuses) ==
  LET first == {e \in FinalizedAt(statuses) : ~\E f \in FinalizedAt(statuses) : Before(f, e)}
  IN  UNION {{f \in LatestUpTo(statuses, e) : f.final} : e \in first}

\* session.timeline(): throws on a file it cannot read, and without CREATED.
DeriveTimeline(file, attempt) ==
  LET events == EventsOf(file, attempt)
  IN  IF ~ReadableFile(file) \/ ~\E e \in events : e.type = "created"
      THEN [outcome |-> "threw"]
      ELSE [outcome |-> IF FinalizedAt(Undisputed(events)) = {} THEN "pending" ELSE "FINALIZED",
            events |-> events, support |-> SupportOf(Undisputed(events))]

----------------------------------------------------------------------------
(* The process and its file.                                               *)

LogInit ==
  /\ lines = <<>> /\ unfinished = FALSE
  /\ process = 0 /\ session = NoSession /\ sequence = 0 /\ own = {}
  /\ timeline = [outcome |-> "none"] /\ executed = FALSE /\ cut = FALSE /\ refused = FALSE

\* A process starts a session: its recorder counts from zero.
SessionStarts(attempt) ==
  /\ session = NoSession /\ process < Processes
  /\ process' = process + 1 /\ session' = attempt
  /\ sequence' = 0 /\ own' = {} /\ refused' = FALSE
  /\ timeline' = [outcome |-> "none"]
  /\ UNCHANGED <<lines, unfinished, executed, cut>>

\* What the session records next: CREATED, then a status of each reader, poll
\* after poll.  The ledger's context slot may have moved on since an earlier
\* process saw it.
NextEvents ==
  IF sequence = 0
  THEN {[type |-> "created", attempt |-> session, process |-> process, sequence |-> 0, id |-> id] :
          id \in {0, 1}}
  ELSE {[type |-> "status", attempt |-> session, process |-> process, sequence |-> sequence,
         id |-> 0, poll |-> (sequence - 1) \div Cardinality(LogReaders),
         reader |-> 1 + ((sequence - 1) % Cardinality(LogReaders)),
         final |-> executed, context |-> context] : context \in {0, process}}

MayRecord == session # NoSession /\ sequence <= Polls * Cardinality(LogReaders)

\* A poll whose results are recorded is judged before the next.
PollRecorded == sequence > 0 /\ (sequence - 1) % Cardinality(LogReaders) = 0
AwaitsTimeline == PollRecorded /\ sequence > 1 /\ timeline.outcome = "none"

\* appendFile: what is appended to an unfinished line is no line of its own.
WithText(file, text) ==
  IF unfinished THEN [file EXCEPT ![Len(file)] = Garbled] ELSE Append(file, text)

\* #append resolves: the whole line is in the file.
EventRecorded ==
  /\ MayRecord /\ ~AwaitsTimeline
  /\ \E e \in NextEvents : lines' = WithText(lines, e) /\ own' = own \union {e}
  /\ unfinished' = FALSE /\ sequence' = sequence + 1
  /\ timeline' = [outcome |-> "none"]
  /\ UNCHANGED <<process, session, executed, cut, refused>>

\* A reader's answer that is no measurement event: append rejects before it
\* touches the file, and with it the tracking.
EventRefused ==
  /\ MayRecord /\ ~AwaitsTimeline /\ sequence > 0
  /\ refused' = TRUE /\ session' = NoSession /\ sequence' = sequence + 1
  /\ UNCHANGED <<lines, unfinished, process, own, timeline, executed, cut>>

\* The process is killed: between two appends, or inside one with nothing,
\* half a line, or all of it but the newline in the file.
ProcessDies ==
  /\ session # NoSession /\ session' = NoSession
  /\ \/ UNCHANGED <<lines, unfinished, cut>>
     \/ /\ MayRecord /\ ~AwaitsTimeline
        /\ \E text \in {Garbled} \union NextEvents : lines' = WithText(lines, text)
        /\ unfinished' = TRUE /\ cut' = TRUE
  /\ UNCHANGED <<process, sequence, own, timeline, executed, refused>>

\* session.timeline() after each poll.  A throw and a FINALIZED end the
\* tracking.
TimelineRead ==
  /\ session # NoSession /\ AwaitsTimeline
  /\ timeline' = DeriveTimeline(lines, session)
  /\ session' = IF timeline'.outcome = "pending" /\ sequence <= Polls * Cardinality(LogReaders)
                THEN session ELSE NoSession
  /\ UNCHANGED <<lines, unfinished, process, sequence, own, executed, cut, refused>>

LedgerFinalizes ==
  /\ ~executed /\ executed' = TRUE
  /\ UNCHANGED <<lines, unfinished, process, session, sequence, own, timeline, cut, refused>>

LogNext ==
  \/ \E attempt \in Attempts : SessionStarts(attempt)
  \/ EventRecorded \/ EventRefused \/ ProcessDies \/ TimelineRead \/ LedgerFinalizes

LogSpec == LogInit /\ [][LogNext]_logVars

----------------------------------------------------------------------------
(* Properties.                                                             *)

\* Every variable keeps its type.
LogTypeOK ==
  /\ process \in 0 .. Processes /\ session \in Attempts \union {NoSession}
  /\ sequence \in 0 .. (Polls * Cardinality(LogReaders) + 1)
  /\ timeline.outcome \in {"none", "threw", "pending", "FINALIZED"}
  /\ {unfinished, executed, cut, refused} \subseteq BOOLEAN
  /\ Len(lines) <= Processes * (Polls * Cardinality(LogReaders) + 1)

\* A timeline shows everything its session recorded, or is not derived at all.
OwnEventsAreRead ==
  timeline.outcome \in {"pending", "FINALIZED"} => own \subseteq timeline.events

\* Only a process that died with a part of a line written makes the file
\* unreadable.
ThrowsOnlyAfterACut == timeline.outcome = "threw" => cut

\* FINALIZED is true of the ledger, and cites one undisputed event of each
\* reader, whatever the order the events of two processes are merged in.
FinalityIsCited ==
  timeline.outcome = "FINALIZED" =>
    /\ executed
    /\ Cardinality(timeline.support) = Cardinality(LogReaders)
    /\ {e.reader : e \in timeline.support} = LogReaders
    /\ timeline.support \subseteq Undisputed(timeline.events)

\* What a timeline may be derived from.
TimelineStandsOnTheLog == OwnEventsAreRead /\ ThrowsOnlyAfterACut /\ FinalityIsCited
=============================================================================
