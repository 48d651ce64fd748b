----------------------- MODULE DurableCollectorProofs -----------------------
(***************************************************************************)
(* Proofs about DurableCollector, for any clients, results and faults.     *)
(***************************************************************************)
EXTENDS DurableCollector, SequenceTheorems, TLAPS

\* Every call being written was assessed against indexes that agree with the
\* log, and holds its turn: nothing can change them before it completes.
WritingAdmitted ==
  writing # None =>
    /\ running /\ ~fatalWriteError
    /\ Verdict(index, writing.result, writing.inWindow) = "ACCEPTED"

\* A process that is down has no memory and no calls.
DownIsEmpty ==
  ~running => index = {} /\ tail = <<>> /\ writing = None /\ ~fatalWriteError

CollectorInv ==
  /\ CollectorTypeOK
  /\ LogReplays
  /\ IndexMatchesLog
  /\ AcknowledgedIsDurable
  /\ WritingAdmitted
  /\ DownIsEmpty

-----------------------------------------------------------------------------
\* An appended record leaves the others in place.
LEMMA AppendedRecord ==
  ASSUME NEW log \in Seq(Record), NEW rec \in Record
  PROVE  /\ Append(log, rec) \in Seq(Record)
         /\ Len(Append(log, rec)) = Len(log) + 1
         /\ \A i \in 1..Len(log) : Append(log, rec)[i] = log[i]
         /\ Append(log, rec)[Len(log) + 1] = rec
  OBVIOUS

\* A verdict of ACCEPTED says that nothing indexed shares a key.
LEMMA AcceptedSharesNothing ==
  ASSUME NEW seen, NEW r, NEW w, Verdict(seen, r, w) = "ACCEPTED"
  PROVE  \A s \in seen : ~SharesKey(s, r)
  <1>1. Existing(seen, r) = {}
    BY DEF Verdict, Allowed
  <1>2. QED
    BY <1>1 DEF Existing, SharesKey

\* A log that replays holds no two records that share a key.
LEMMA ReplayedOnce ==
  ASSUME NEW log \in Seq(Record), Replayable(log)
  PROVE  \A i, j \in 1..Len(log) :
            i # j => ~SharesKey(log[i].result, log[j].result)
  <1>1. ASSUME NEW i \in 1..Len(log), NEW j \in 1..Len(log), i < j
        PROVE  ~SharesKey(log[i].result, log[j].result)
    <2> DEFINE seen == {log[k].result : k \in 1..(j-1)}
    <2>1. Verdict(seen, log[j].result, log[j].inWindow) = "ACCEPTED"
      BY DEF Replayable, InPlace
    <2>2. i \in 1..(j-1)
      BY <1>1
    <2>3. log[i].result \in seen
      BY <2>2
    <2> QED
      BY <2>1, <2>3, AcceptedSharesNothing
  <1>2. ASSUME NEW i \in 1..Len(log), NEW j \in 1..Len(log), i # j
        PROVE  ~SharesKey(log[i].result, log[j].result)
    <2>1. i < j \/ j < i
      BY <1>2
    <2> QED
      BY <1>1, <2>1 DEF SharesKey
  <1> QED
    BY <1>2

\* A record that the whole log's results admit, numbered after them, extends a
\* log that replays to one that replays.
LEMMA ReplayExtends ==
  ASSUME NEW log \in Seq(Record), NEW rec \in Record, Replayable(log),
         rec.collector_sequence = Len(log),
         Verdict({log[j].result : j \in 1..Len(log)}, rec.result, rec.inWindow)
           = "ACCEPTED"
  PROVE  Replayable(Append(log, rec))
  <1> DEFINE new == Append(log, rec)
  <1>1. ASSUME NEW i \in 1..Len(new)
        PROVE  /\ new[i].collector_sequence = i - 1
               /\ Verdict({new[j].result : j \in 1..(i-1)}, new[i].result,
                          new[i].inWindow) = "ACCEPTED"
    <2>1. CASE i \in 1..Len(log)
      <3>1. {new[j].result : j \in 1..(i-1)} = {log[j].result : j \in 1..(i-1)}
        BY <2>1, AppendedRecord
      <3>2. new[i] = log[i]
        BY <2>1, AppendedRecord
      <3> QED
        BY <3>1, <3>2, <2>1 DEF Replayable, InPlace
    <2>2. CASE i = Len(log) + 1
      <3>1. {new[j].result : j \in 1..(i-1)} = {log[j].result : j \in 1..Len(log)}
        BY <2>2, AppendedRecord
      <3>2. new[i] = rec
        BY <2>2, AppendedRecord
      <3>3. rec.collector_sequence = i - 1
        BY <2>2
      <3> HIDE DEF new
      <3> QED
        BY <3>1, <3>2, <3>3
    <2>3. i \in 1..Len(log) \/ i = Len(log) + 1
      BY AppendedRecord
    <2> HIDE DEF new
    <2> QED
      BY <2>1, <2>2, <2>3
  <1> QED
    BY <1>1 DEF Replayable, InPlace

-----------------------------------------------------------------------------
\* The fields of a call and of the record written for it.
LEMMA RecordOfCall ==
  ASSUME CollectorTypeOK, NEW call \in Call
  PROVE  /\ RecordOf(call) \in Record
         /\ RecordOf(call).collector_sequence = nextSequence
         /\ RecordOf(call).result = call.result
         /\ RecordOf(call).inWindow = call.inWindow
         /\ call.client \in Clients
         /\ call.live \in BOOLEAN
  BY DEF CollectorTypeOK, Record, RecordOf, Call

\* Writing the record of the admitted call keeps the log replayable and adds
\* exactly its result.
LEMMA WriteKeepsReplay ==
  ASSUME CollectorInv, writing # None,
         acceptedLog' = Append(acceptedLog, RecordOf(writing))
  PROVE  /\ acceptedLog' \in Seq(Record)
         /\ Replayable(acceptedLog')
         /\ Len(acceptedLog') = Len(acceptedLog) + 1
         /\ LogResults' = LogResults \cup {writing.result}
  <1>1. writing \in Call
    BY DEF CollectorInv, CollectorTypeOK
  <1>2. index = LogResults /\ nextSequence = Len(acceptedLog)
    BY DEF CollectorInv, WritingAdmitted, IndexMatchesLog
  <1>3. acceptedLog \in Seq(Record) /\ RecordOf(writing) \in Record
    BY <1>1, RecordOfCall DEF CollectorInv, CollectorTypeOK
  <1>4. Replayable(acceptedLog')
    <2>1. Verdict({acceptedLog[j].result : j \in 1..Len(acceptedLog)},
                  writing.result, writing.inWindow) = "ACCEPTED"
      BY <1>2 DEF CollectorInv, WritingAdmitted, LogResults
    <2> QED
      BY <1>1, <1>2, <1>3, <2>1, RecordOfCall, ReplayExtends
         DEF CollectorInv, LogReplays
  <1>5. LogResults' = LogResults \cup {writing.result}
    <2> DEFINE n == Len(acceptedLog)
    <2>1. /\ Len(acceptedLog') = n + 1
          /\ \A i \in 1..n : acceptedLog'[i] = acceptedLog[i]
          /\ acceptedLog'[n + 1].result = writing.result
      BY <1>1, <1>3, AppendedRecord, RecordOfCall DEF CollectorInv
    <2>2. n \in Nat
      BY <1>3
    <2>3. 1..(n + 1) = (1..n) \cup {n + 1}
      BY <2>2
    <2> QED
      BY <2>1, <2>3 DEF LogResults
  <1> QED
    BY <1>3, <1>4, <1>5, AppendedRecord

-----------------------------------------------------------------------------
(***************************************************************************)
(* One lemma per action: it preserves CollectorInv.                        *)
(***************************************************************************)

\* The part of the invariant that follows from an unchanged log and memory.
LEMMA SameLog ==
  ASSUME CollectorInv, UNCHANGED <<acceptedLog, running, index, nextSequence,
                                   fatalWriteError>>
  PROVE  LogReplays' /\ IndexMatchesLog' /\ LogResults' = LogResults
  <1>1. LogResults' = LogResults
    BY DEF LogResults
  <1> QED
    BY <1>1 DEF CollectorInv, LogReplays, IndexMatchesLog

\* The answer to a call keeps the answers well-typed and truthful.
LEMMA RespondKeeps ==
  ASSUME CollectorInv, NEW call \in Call, NEW outcome \in Outcomes,
         Respond(call, outcome), LogResults \subseteq LogResults',
         outcome \in {"ACCEPTED", "DUPLICATE"} => call.result \in LogResults'
  PROVE  /\ response' \in [Clients -> Answer \cup {NoAnswer, Reset}]
         /\ AcknowledgedIsDurable'
  <1>1. response \in [Clients -> Answer \cup {NoAnswer, Reset}]
    BY DEF CollectorInv, CollectorTypeOK
  <1>2. [outcome |-> outcome, result |-> call.result] \in Answer
    BY DEF Call, Answer
  <1>3. response' \in [Clients -> Answer \cup {NoAnswer, Reset}]
    BY <1>1, <1>2 DEF Respond, Call
  <1>4. ASSUME NEW c \in Clients,
               response'[c].outcome \in {"ACCEPTED", "DUPLICATE"}
        PROVE  response'[c].result \in LogResults'
    <2>1. \/ response'[c] = response[c]
          \/ response'[c] = [outcome |-> outcome, result |-> call.result]
      BY <1>1 DEF Respond, Call
    <2>2. CASE response'[c] = response[c]
      BY <1>4, <2>2 DEF CollectorInv, AcknowledgedIsDurable
    <2>3. CASE response'[c] = [outcome |-> outcome, result |-> call.result]
      BY <1>4, <2>3
    <2> QED
      BY <2>1, <2>2, <2>3
  <1> QED
    BY <1>3, <1>4 DEF AcknowledgedIsDurable

\* A verdict other than ACCEPTED is an outcome, and DUPLICATE names an
\* indexed result.
LEMMA Verdicts ==
  ASSUME NEW seen, NEW r, NEW w
  PROVE  /\ Verdict(seen, r, w) \in {"ACCEPTED", "DUPLICATE", "REJECTED"}
         /\ Verdict(seen, r, w) = "DUPLICATE" => r \in seen
  BY DEF Verdict, Allowed, Existing

LEMMA ArriveKeeps ==
  ASSUME CollectorInv, NEW call \in Call, Arrive(call)
  PROVE  CollectorInv'
  <1>1. CollectorTypeOK'
    BY DEF CollectorInv, CollectorTypeOK, Arrive
  <1>2. LogReplays' /\ IndexMatchesLog' /\ LogResults' = LogResults
    BY SameLog DEF Arrive
  <1>3. AcknowledgedIsDurable' /\ WritingAdmitted' /\ DownIsEmpty'
    BY <1>2 DEF CollectorInv, Arrive, AcknowledgedIsDurable, WritingAdmitted, DownIsEmpty
  <1> QED
    BY <1>1, <1>2, <1>3 DEF CollectorInv

LEMMA RefusePoisonedKeeps ==
  ASSUME CollectorInv, RefusePoisoned
  PROVE  CollectorInv'
  <1>1. Head(tail) \in Call /\ Tail(tail) \in Seq(Call)
    BY DEF CollectorInv, CollectorTypeOK, RefusePoisoned
  <1>2. LogReplays' /\ IndexMatchesLog' /\ LogResults' = LogResults
    BY SameLog DEF RefusePoisoned
  <1>3. /\ response' \in [Clients -> Answer \cup {NoAnswer, Reset}]
        /\ AcknowledgedIsDurable'
    BY <1>1, <1>2, RespondKeeps DEF RefusePoisoned, Outcomes
  <1>4. CollectorTypeOK'
    BY <1>1, <1>3 DEF CollectorInv, CollectorTypeOK, RefusePoisoned
  <1>5. WritingAdmitted' /\ DownIsEmpty'
    BY DEF CollectorInv, WritingAdmitted, DownIsEmpty, RefusePoisoned
  <1> QED
    BY <1>2, <1>3, <1>4, <1>5 DEF CollectorInv

LEMMA AnswerWithoutWriteKeeps ==
  ASSUME CollectorInv, AnswerWithoutWrite
  PROVE  CollectorInv'
  <1> DEFINE call == Head(tail)
             verdict == Verdict(index, call.result, call.inWindow)
  <1>1. call \in Call /\ Tail(tail) \in Seq(Call)
    BY DEF CollectorInv, CollectorTypeOK, AnswerWithoutWrite
  <1>2. LogReplays' /\ IndexMatchesLog' /\ LogResults' = LogResults
    BY SameLog DEF AnswerWithoutWrite
  <1>3. /\ verdict \in {"DUPLICATE", "REJECTED"}
        /\ verdict = "DUPLICATE" => call.result \in LogResults
    BY Verdicts DEF AnswerWithoutWrite, CollectorInv, IndexMatchesLog
  <1>4. /\ response' \in [Clients -> Answer \cup {NoAnswer, Reset}]
        /\ AcknowledgedIsDurable'
    <2>1. Respond(call, verdict)
      BY DEF AnswerWithoutWrite
    <2>2. verdict \in Outcomes
      BY <1>3 DEF Outcomes
    <2> HIDE DEF call, verdict
    <2> QED
      BY <1>1, <1>2, <1>3, <2>1, <2>2, RespondKeeps
  <1>5. CollectorTypeOK'
    BY <1>1, <1>4 DEF CollectorInv, CollectorTypeOK, AnswerWithoutWrite
  <1>6. WritingAdmitted' /\ DownIsEmpty'
    BY DEF CollectorInv, WritingAdmitted, DownIsEmpty, AnswerWithoutWrite
  <1> QED
    BY <1>2, <1>4, <1>5, <1>6 DEF CollectorInv

LEMMA BeginWriteKeeps ==
  ASSUME CollectorInv, BeginWrite
  PROVE  CollectorInv'
  <1>1. Head(tail) \in Call /\ Tail(tail) \in Seq(Call)
    BY DEF CollectorInv, CollectorTypeOK, BeginWrite
  <1>2. LogReplays' /\ IndexMatchesLog' /\ LogResults' = LogResults
    BY SameLog DEF BeginWrite
  <1>3. CollectorTypeOK'
    BY <1>1 DEF CollectorInv, CollectorTypeOK, BeginWrite
  <1>4. AcknowledgedIsDurable' /\ DownIsEmpty'
    BY <1>2 DEF CollectorInv, AcknowledgedIsDurable, DownIsEmpty, BeginWrite
  <1>5. WritingAdmitted'
    BY DEF WritingAdmitted, BeginWrite
  <1> QED
    BY <1>2, <1>3, <1>4, <1>5 DEF CollectorInv

LEMMA CompleteWriteKeeps ==
  ASSUME CollectorInv, CompleteWrite
  PROVE  CollectorInv'
  <1>1. writing \in Call /\ writing # None
    BY DEF CollectorInv, CollectorTypeOK, CompleteWrite
  <1>2. /\ acceptedLog' \in Seq(Record)
        /\ Replayable(acceptedLog')
        /\ Len(acceptedLog') = Len(acceptedLog) + 1
        /\ LogResults' = LogResults \cup {writing.result}
    BY <1>1, WriteKeepsReplay DEF CompleteWrite
  <1>3. /\ index' = index \cup {writing.result}
        /\ nextSequence' = nextSequence + 1
        /\ fatalWriteError' = FALSE
        /\ Respond(writing, "ACCEPTED")
        /\ writing' = None
        /\ UNCHANGED <<partialRecord, running, tail>>
    BY <1>1 DEF CollectorInv, WritingAdmitted, CompleteWrite
  <1>4. /\ response' \in [Clients -> Answer \cup {NoAnswer, Reset}]
        /\ AcknowledgedIsDurable'
    BY <1>1, <1>2, <1>3, RespondKeeps DEF Outcomes
  <1>5. CollectorTypeOK'
    <2>1. writing.result \in Results
      BY <1>1 DEF Call
    <2>2. index' \in SUBSET Results /\ nextSequence' \in Nat
      BY <1>3, <2>1 DEF CollectorInv, CollectorTypeOK
    <2> QED
      BY <1>2, <1>3, <1>4, <2>2 DEF CollectorInv, CollectorTypeOK
  <1>6. IndexMatchesLog'
    BY <1>1, <1>2, <1>3 DEF CollectorInv, IndexMatchesLog, WritingAdmitted
  <1>7. WritingAdmitted' /\ DownIsEmpty' /\ LogReplays'
    BY <1>1, <1>2, <1>3 DEF CollectorInv, WritingAdmitted, DownIsEmpty, LogReplays
  <1> QED
    BY <1>4, <1>5, <1>6, <1>7 DEF CollectorInv

\* However an incomplete write lands, the log's complete records replay, and
\* no earlier record is lost.
LEMMA LandsKeeps ==
  ASSUME CollectorInv, writing # None, NEW landing, Lands(landing, writing)
  PROVE  /\ acceptedLog' \in Seq(Record)
         /\ partialRecord' \in BOOLEAN
         /\ LogReplays'
         /\ LogResults \subseteq LogResults'
  <1>1. CASE landing = "whole"
    BY <1>1, WriteKeepsReplay DEF Lands, LogReplays, CollectorInv, CollectorTypeOK
  <1>2. CASE landing # "whole"
    <2>1. UNCHANGED acceptedLog
      BY <1>2 DEF Lands
    <2> QED
      BY <2>1 DEF Lands, LogReplays, CollectorInv, CollectorTypeOK, LogResults
  <1> QED
    BY <1>1, <1>2

LEMMA FailWriteKeeps ==
  ASSUME CollectorInv, NEW landing, FailWrite(landing)
  PROVE  CollectorInv'
  <1>1. writing \in Call /\ writing # None
    BY DEF CollectorInv, CollectorTypeOK, FailWrite
  <1>2. /\ acceptedLog' \in Seq(Record)
        /\ partialRecord' \in BOOLEAN
        /\ LogReplays'
        /\ LogResults \subseteq LogResults'
    BY <1>1, LandsKeeps DEF FailWrite
  <1>3. /\ response' \in [Clients -> Answer \cup {NoAnswer, Reset}]
        /\ AcknowledgedIsDurable'
    BY <1>1, <1>2, RespondKeeps DEF FailWrite, Outcomes
  <1>4. CollectorTypeOK'
    BY <1>2, <1>3 DEF CollectorInv, CollectorTypeOK, FailWrite
  <1>5. IndexMatchesLog' /\ WritingAdmitted' /\ DownIsEmpty'
    BY <1>2 DEF CollectorInv, IndexMatchesLog, WritingAdmitted, DownIsEmpty, FailWrite
  <1> QED
    BY <1>2, <1>3, <1>4, <1>5 DEF CollectorInv

LEMMA CrashCollectorKeeps ==
  ASSUME CollectorInv, NEW landing, CrashCollector(landing)
  PROVE  CollectorInv'
  <1>1. /\ acceptedLog' \in Seq(Record)
        /\ partialRecord' \in BOOLEAN
        /\ LogReplays'
        /\ LogResults \subseteq LogResults'
    <2>1. CASE writing = None
      BY <2>1 DEF CrashCollector, CollectorInv, CollectorTypeOK, LogReplays, LogResults
    <2>2. CASE writing # None
      BY <2>2, LandsKeeps DEF CrashCollector
    <2> QED
      BY <2>1, <2>2
  <1>2. response' \in [Clients -> Answer \cup {NoAnswer, Reset}]
    BY DEF CrashCollector, CollectorInv, CollectorTypeOK
  <1>3. AcknowledgedIsDurable'
    BY <1>1 DEF CrashCollector, CollectorInv, CollectorTypeOK, AcknowledgedIsDurable, Reset
  <1>4. CollectorTypeOK'
    <2>1. tail' \in Seq(Call)
      BY EmptySeq DEF CrashCollector
    <2> QED
      BY <1>1, <1>2, <2>1 DEF CrashCollector, CollectorTypeOK
  <1>5. IndexMatchesLog' /\ WritingAdmitted' /\ DownIsEmpty'
    BY DEF CrashCollector, IndexMatchesLog, WritingAdmitted, DownIsEmpty
  <1> QED
    BY <1>1, <1>3, <1>4, <1>5 DEF CollectorInv

LEMMA OpenLogKeeps ==
  ASSUME CollectorInv, OpenLog
  PROVE  CollectorInv'
  <1>1. LogResults' = LogResults /\ LogResults \subseteq Results
    <2>1. \A i \in 1..Len(acceptedLog) : acceptedLog[i].result \in Results
      <3>1. acceptedLog \in Seq(Record)
        BY DEF CollectorInv, CollectorTypeOK
      <3>2. \A rec \in Record : rec.result \in Results
        BY DEF Record
      <3> QED
        BY <3>1, <3>2, ElementOfSeq
    <2>2. acceptedLog' = acceptedLog
      BY DEF OpenLog
    <2> QED
      BY <2>1, <2>2 DEF LogResults
  <1>2. CollectorTypeOK'
    BY <1>1 DEF OpenLog, CollectorInv, CollectorTypeOK
  <1>3. LogReplays' /\ IndexMatchesLog' /\ AcknowledgedIsDurable'
    BY <1>1 DEF OpenLog, CollectorInv, LogReplays, IndexMatchesLog, AcknowledgedIsDurable
  <1>4. WritingAdmitted' /\ DownIsEmpty'
    BY DEF OpenLog, CollectorInv, WritingAdmitted, DownIsEmpty
  <1> QED
    BY <1>2, <1>3, <1>4 DEF CollectorInv

LEMMA HangUpKeeps ==
  ASSUME CollectorInv, NEW c \in Clients, HangUp(c)
  PROVE  CollectorInv'
  <1>1. LogReplays' /\ IndexMatchesLog' /\ LogResults' = LogResults
    BY SameLog DEF HangUp
  <1>2. ASSUME NEW call \in Call
        PROVE  /\ [call EXCEPT !.live = FALSE] \in Call
               /\ [call EXCEPT !.live = FALSE].result = call.result
               /\ [call EXCEPT !.live = FALSE].inWindow = call.inWindow
    BY DEF Call
  <1>3. tail' \in Seq(Call)
    <2>1. Len(tail) \in Nat /\ \A i \in 1..Len(tail) : tail[i] \in Call
      BY DEF CollectorInv, CollectorTypeOK
    <2>2. tail' \in [1..Len(tail) -> Call]
      BY <2>1, <1>2 DEF HangUp
    <2> QED
      BY <2>1, <2>2, IsASeq
  <1>4. /\ writing' \in Call \cup {None}
        /\ writing' # None =>
             /\ writing # None
             /\ writing'.result = writing.result
             /\ writing'.inWindow = writing.inWindow
    BY <1>2 DEF HangUp, CollectorInv, CollectorTypeOK
  <1>5. writing = None => writing' = None
    BY DEF HangUp
  <1>6. /\ response' \in [Clients -> Answer \cup {NoAnswer, Reset}]
        /\ AcknowledgedIsDurable'
    BY <1>1 DEF HangUp, CollectorInv, CollectorTypeOK, AcknowledgedIsDurable, NoAnswer
  <1>7. CollectorTypeOK'
    BY <1>3, <1>4, <1>6 DEF HangUp, CollectorInv, CollectorTypeOK
  <1>8. WritingAdmitted'
    BY <1>4 DEF HangUp, CollectorInv, WritingAdmitted
  <1>9. DownIsEmpty'
    <2>1. tail = <<>> => tail' = <<>>
      BY <1>3 DEF HangUp, CollectorInv, CollectorTypeOK
    <2> QED
      BY <2>1, <1>5 DEF HangUp, CollectorInv, DownIsEmpty
  <1> QED
    BY <1>1, <1>6, <1>7, <1>8, <1>9 DEF CollectorInv

LEMMA TakeResponseKeeps ==
  ASSUME CollectorInv, NEW c \in Clients, TakeResponse(c)
  PROVE  CollectorInv'
  <1>1. LogReplays' /\ IndexMatchesLog' /\ LogResults' = LogResults
    BY SameLog DEF TakeResponse
  <1>2. CollectorTypeOK'
    BY DEF TakeResponse, CollectorInv, CollectorTypeOK
  <1>3. AcknowledgedIsDurable'
    BY <1>1 DEF TakeResponse, CollectorInv, CollectorTypeOK, AcknowledgedIsDurable, NoAnswer
  <1>4. WritingAdmitted' /\ DownIsEmpty'
    BY DEF TakeResponse, CollectorInv, WritingAdmitted, DownIsEmpty
  <1> QED
    BY <1>1, <1>2, <1>3, <1>4 DEF CollectorInv

LEMMA CollectorInitInv == CollectorInit => CollectorInv
  <1> SUFFICES ASSUME CollectorInit PROVE CollectorInv
    OBVIOUS
  <1> USE DEF CollectorInit
  <1>1. CollectorTypeOK
    BY EmptySeq DEF CollectorTypeOK
  <1>2. LogReplays /\ IndexMatchesLog /\ AcknowledgedIsDurable
    BY DEF LogReplays, Replayable, InPlace, IndexMatchesLog, LogResults,
           AcknowledgedIsDurable, NoAnswer
  <1>3. WritingAdmitted /\ DownIsEmpty
    BY DEF WritingAdmitted, DownIsEmpty
  <1> QED
    BY <1>1, <1>2, <1>3 DEF CollectorInv

LEMMA CollectorStepKeeps ==
  ASSUME CollectorInv, CollectorStep
  PROVE  CollectorInv'
  BY RefusePoisonedKeeps, AnswerWithoutWriteKeeps, BeginWriteKeeps,
     CompleteWriteKeeps DEF CollectorStep

-----------------------------------------------------------------------------
\* CollectorInv is an invariant of the collector under every environment.
THEOREM CollectorInvariant == CollectorSpec => []CollectorInv
<1>1. CollectorInv /\ [CollectorNext]_collectorVars => CollectorInv'
  <2> SUFFICES ASSUME CollectorInv, [CollectorNext]_collectorVars
               PROVE  CollectorInv'
    OBVIOUS
  <2>1. CASE CollectorStep
    BY <2>1, CollectorStepKeeps
  <2>2. CASE OpenLog
    BY <2>2, OpenLogKeeps
  <2>3. CASE \E c \in Clients : Post(c) \/ Abandon(c) \/ TakeResponse(c)
    <3>1. PICK c \in Clients : Post(c) \/ Abandon(c) \/ TakeResponse(c)
      BY <2>3
    <3>2. CASE Post(c)
      <4>1. PICK r \in Results, w \in BOOLEAN :
               Arrive([client |-> c, result |-> r, inWindow |-> w, live |-> TRUE])
        BY <3>2 DEF Post
      <4>2. [client |-> c, result |-> r, inWindow |-> w, live |-> TRUE] \in Call
        BY DEF Call
      <4> QED
        BY <4>1, <4>2, ArriveKeeps
    <3>3. CASE Abandon(c)
      BY <3>3, HangUpKeeps DEF Abandon
    <3>4. CASE TakeResponse(c)
      BY <3>4, TakeResponseKeeps
    <3> QED
      BY <3>1, <3>2, <3>3, <3>4
  <2>4. CASE \E landing \in Landings : FailWrite(landing) \/ CrashCollector(landing)
    BY <2>4, FailWriteKeeps, CrashCollectorKeeps
  <2>5. CASE UNCHANGED collectorVars
    <3> USE <2>5 DEF collectorVars
    <3>1. LogReplays' /\ IndexMatchesLog' /\ LogResults' = LogResults
      BY SameLog
    <3>2. CollectorTypeOK' /\ AcknowledgedIsDurable'
      BY <3>1 DEF CollectorInv, CollectorTypeOK, AcknowledgedIsDurable
    <3>3. WritingAdmitted' /\ DownIsEmpty'
      BY DEF CollectorInv, WritingAdmitted, DownIsEmpty
    <3> QED
      BY <3>1, <3>2, <3>3 DEF CollectorInv
  <2> QED
    BY <2>1, <2>2, <2>3, <2>4, <2>5 DEF CollectorNext
<1> QED
  BY <1>1, CollectorInitInv, PTL DEF CollectorSpec

\* The accepted log holds each unit of evidence at most once, whatever clients
\* post, processes crash or writes fail.
THEOREM CollectorAcceptedOnce == CollectorSpec => []AcceptedOnce
<1>1. CollectorInv => AcceptedOnce
  BY ReplayedOnce DEF CollectorInv, CollectorTypeOK, LogReplays, AcceptedOnce
<1> QED
  BY <1>1, CollectorInvariant, PTL

\* A log without a torn record always reopens.
THEOREM CollectorLogReplays == CollectorSpec => []LogReplays
<1>1. CollectorInv => LogReplays
  BY DEF CollectorInv
<1> QED
  BY <1>1, CollectorInvariant, PTL

\* The replay indexes never run ahead of the durable log.
THEOREM CollectorIndexMatchesLog == CollectorSpec => []IndexMatchesLog
<1>1. CollectorInv => IndexMatchesLog
  BY DEF CollectorInv
<1> QED
  BY <1>1, CollectorInvariant, PTL

\* An ACCEPTED or DUPLICATE answer is only given for a durable result.
THEOREM CollectorAcknowledgedIsDurable == CollectorSpec => []AcknowledgedIsDurable
<1>1. CollectorInv => AcknowledgedIsDurable
  BY DEF CollectorInv
<1> QED
  BY <1>1, CollectorInvariant, PTL

\* Type correctness.
THEOREM CollectorTypeCorrect == CollectorSpec => []CollectorTypeOK
<1>1. CollectorInv => CollectorTypeOK
  BY DEF CollectorInv
<1> QED
  BY <1>1, CollectorInvariant, PTL

-----------------------------------------------------------------------------
(***************************************************************************)
(* The disk.  What a failure leaves in doubt is settled by two more        *)
(* conjuncts, inductive relative to CollectorInv.                          *)
(***************************************************************************)

\* A torn record is only ever behind a process that is down or poisoned.
TornIsPoisoned == partialRecord => ~running \/ fatalWriteError

DiskInv == CollectorInv /\ OneUncertainRecord /\ TornIsPoisoned

\* A process that writes has numbered every record of the log.
LEMMA WritingIsNumbered ==
  ASSUME CollectorInv, writing # None
  PROVE  /\ writing \in Call /\ running /\ ~fatalWriteError
         /\ nextSequence = Len(acceptedLog)
         /\ Verdict(index, writing.result, writing.inWindow) = "ACCEPTED"
  BY DEF CollectorInv, CollectorTypeOK, WritingAdmitted, IndexMatchesLog

\* A write that fails leaves at most its own record in doubt, and poisons.
LEMMA FailWriteDisk ==
  ASSUME DiskInv, NEW landing, FailWrite(landing)
  PROVE  OneUncertainRecord' /\ TornIsPoisoned'
  <1>1. CollectorInv /\ writing # None
    BY DEF DiskInv, FailWrite
  <1>2. writing \in Call /\ nextSequence = Len(acceptedLog)
    BY <1>1, WritingIsNumbered
  <1>3. acceptedLog \in Seq(Record) /\ RecordOf(writing) \in Record
    BY <1>1, <1>2, RecordOfCall DEF CollectorInv, CollectorTypeOK
  <1>4. Len(acceptedLog') <= Len(acceptedLog) + 1
    <2>1. acceptedLog' = acceptedLog \/ acceptedLog' = Append(acceptedLog, RecordOf(writing))
      BY DEF FailWrite, Lands
    <2> QED
      BY <2>1, <1>3, AppendedRecord
  <1> QED
    BY <1>2, <1>4 DEF FailWrite, OneUncertainRecord, TornIsPoisoned

\* Every other step leaves log, number and poison alone, or leaves a process
\* that is down, or one whose indexes agree with the log.
LEMMA DiskStep ==
  ASSUME DiskInv, CollectorInv', [CollectorNext]_collectorVars
  PROVE  OneUncertainRecord' /\ TornIsPoisoned'
  <1>1. CASE UNCHANGED <<acceptedLog, partialRecord, running, nextSequence, fatalWriteError>>
    BY <1>1 DEF DiskInv, OneUncertainRecord, TornIsPoisoned
  <1>2. CASE CompleteWrite
    <2>1. CollectorInv /\ writing # None
      BY <1>2 DEF DiskInv, CompleteWrite
    <2>2. running' /\ ~fatalWriteError' /\ partialRecord' = partialRecord
      BY <1>2, <2>1, WritingIsNumbered DEF CompleteWrite
    <2>3. ~partialRecord
      BY <2>1, WritingIsNumbered DEF DiskInv, TornIsPoisoned
    <2>4. nextSequence' = Len(acceptedLog') /\ nextSequence' \in Nat
      BY <2>2 DEF CollectorInv, CollectorTypeOK, IndexMatchesLog
    <2> QED
      BY <2>2, <2>3, <2>4 DEF OneUncertainRecord, TornIsPoisoned
  <1>3. CASE OpenLog
    <2>1. running' /\ ~fatalWriteError' /\ ~partialRecord'
      BY <1>3 DEF OpenLog, Untorn, DiskInv, CollectorInv, DownIsEmpty
    <2>2. nextSequence' = Len(acceptedLog') /\ nextSequence' \in Nat
      BY <2>1 DEF CollectorInv, CollectorTypeOK, IndexMatchesLog
    <2> QED
      BY <2>1, <2>2 DEF OneUncertainRecord, TornIsPoisoned
  <1>4. CASE \E landing \in Landings : FailWrite(landing)
    BY <1>4, FailWriteDisk
  <1>5. CASE \E landing \in Landings : CrashCollector(landing)
    BY <1>5 DEF CrashCollector, OneUncertainRecord, TornIsPoisoned
  <1>6. CASE \E c \in Clients : Post(c) \/ Abandon(c) \/ TakeResponse(c)
    BY <1>1, <1>6 DEF Post, Arrive, Abandon, HangUp, TakeResponse
  <1>7. CASE RefusePoisoned \/ AnswerWithoutWrite \/ BeginWrite
    BY <1>1, <1>7 DEF RefusePoisoned, AnswerWithoutWrite, BeginWrite
  <1> QED
    BY <1>1, <1>2, <1>3, <1>4, <1>5, <1>6, <1>7
       DEF CollectorNext, CollectorStep, collectorVars

LEMMA DiskInvariant == CollectorSpec => []DiskInv
<1>1. CollectorInit => OneUncertainRecord /\ TornIsPoisoned
  BY DEF CollectorInit, OneUncertainRecord, TornIsPoisoned
<1>2. DiskInv /\ CollectorInv' /\ [CollectorNext]_collectorVars => DiskInv'
  BY DiskStep DEF DiskInv
<1>3. CollectorInit /\ CollectorInv => DiskInv
  BY <1>1 DEF DiskInv
<1> QED
  BY <1>2, <1>3, CollectorInvariant, PTL DEF CollectorSpec

\* Memory and disk agree up to the one record of a failed write.
THEOREM CollectorMemoryMatchesDisk == CollectorSpec => []MemoryMatchesDisk
<1>1. DiskInv => MemoryMatchesDisk
  BY DEF DiskInv, CollectorInv, MemoryMatchesDisk
<1> QED
  BY <1>1, DiskInvariant, PTL

\* A step appends to the log or leaves it, and leaves a torn log as it is.
LEMMA LogStep ==
  ASSUME DiskInv, [CollectorNext]_collectorVars
  PROVE  /\ IsPrefix(acceptedLog, acceptedLog')
         /\ partialRecord => partialRecord' /\ UNCHANGED acceptedLog
  <1>1. acceptedLog \in Seq(Record)
    BY DEF DiskInv, CollectorInv, CollectorTypeOK
  <1>2. \/ UNCHANGED acceptedLog
        \/ writing # None /\ acceptedLog' = Append(acceptedLog, RecordOf(writing))
    BY DEF CollectorNext, CollectorStep, CompleteWrite, FailWrite, CrashCollector,
           Lands, Post, Arrive, Abandon, HangUp, TakeResponse, OpenLog,
           RefusePoisoned, AnswerWithoutWrite, BeginWrite, collectorVars
  <1>3. partialRecord => writing = None
    BY WritingIsNumbered DEF DiskInv, TornIsPoisoned
  <1>4. partialRecord => partialRecord'
    BY DEF CollectorNext, CollectorStep, CompleteWrite, FailWrite, CrashCollector,
           Lands, Post, Arrive, Abandon, HangUp, TakeResponse, OpenLog,
           RefusePoisoned, AnswerWithoutWrite, BeginWrite, collectorVars
  <1>5. IsPrefix(acceptedLog, acceptedLog')
    <2>1. CASE UNCHANGED acceptedLog
      BY <1>1, <2>1 DEF IsPrefix
    <2>2. CASE writing # None /\ acceptedLog' = Append(acceptedLog, RecordOf(writing))
      <3>1. RecordOf(writing) \in Record
        BY <2>2, WritingIsNumbered, RecordOfCall DEF DiskInv, CollectorInv
      <3>2. /\ Len(acceptedLog') = Len(acceptedLog) + 1
            /\ \A i \in 1..Len(acceptedLog) : acceptedLog'[i] = acceptedLog[i]
        BY <1>1, <2>2, <3>1, AppendedRecord
      <3>3. acceptedLog' \in Seq(Record) /\ Len(acceptedLog) \in Nat
        BY <1>1, <2>2, <3>1
      <3> QED
        BY <1>1, <3>2, <3>3 DEF IsPrefix
    <2> QED
      BY <1>2, <2>1, <2>2
  <1> QED
    BY <1>2, <1>3, <1>4, <1>5

\* The log only grows, through crashes and restarts, and not behind a torn
\* record.
THEOREM CollectorLogOnlyGrows == CollectorSpec => LogOnlyGrows
<1>1. DiskInv /\ [CollectorNext]_collectorVars
        => [IsPrefix(acceptedLog, acceptedLog')]_acceptedLog
  BY LogStep
<1>2. DiskInv /\ [CollectorNext]_collectorVars
        => [partialRecord => partialRecord' /\ UNCHANGED acceptedLog]_collectorVars
  BY LogStep
<1> QED
  BY <1>1, <1>2, DiskInvariant, PTL DEF CollectorSpec, LogOnlyGrows, AppendOnly, TornLogFrozen
=============================================================================
