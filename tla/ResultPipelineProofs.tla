------------------------ MODULE ResultPipelineProofs ------------------------
(***************************************************************************)
(* Proofs about ResultPipeline: observer runtimes and Collector together,  *)
(* for any observers, results, faults and bounds.  The collector's side is *)
(* CollectorInv, whose lemmas hold in every environment.                   *)
(***************************************************************************)
EXTENDS ResultPipeline, DurableCollectorProofs

ObserverTypes ==
  /\ spool \in SUBSET SpoolFiles
  /\ phase \in [Observers -> Phases]
  /\ todo \in [Observers -> SUBSET SpoolFiles]
  /\ current \in [Observers -> SUBSET SpoolFiles]
  /\ delivered \in [Observers -> SUBSET SpoolFiles]
  /\ failedContent \in [Observers -> SUBSET SpoolFiles]
  /\ cycleError \in [Observers -> BOOLEAN]
  /\ lastError \in [Observers -> BOOLEAN]
  /\ listing \in [Observers -> SUBSET SpoolFiles]
  /\ deliveryLog \in [Observers -> Seq(Line)]
  /\ partialDelivery \in [Observers -> BOOLEAN]
  /\ nextDeliverySequence \in [Observers -> Nat]

NetworkTypes ==
  /\ wire \in SUBSET Request
  /\ keyExpired \in SUBSET Observers
  /\ budget \in [FaultKinds -> Nat]

\* Runtime o waits for the answer to its post of result r.
Posting(o, r) == phase[o] = "posting" /\ current[o] = {r}

\* The call that is being written is o's, and o waits for it.
InWrite(o) == writing # None /\ writing.client = o /\ writing.live

LiveCall(i, o) == tail[i].client = o /\ tail[i].live

\* A runtime waits for one thing: its request on the wire, its call in the
\* Collector's chain, the write of that call, or the answer, and it is about
\* the result the runtime is posting.
OnWire(o) ==
  \A m \in wire : m.client = o /\ m.live =>
    Posting(o, m.result) /\ ~Waiting(o) /\ response[o] = NoAnswer

Chained(o) ==
  \A i \in 1..Len(tail) : LiveCall(i, o) =>
    /\ Posting(o, tail[i].result) /\ ~InWrite(o) /\ response[o] = NoAnswer
    /\ \A j \in 1..Len(tail) : LiveCall(j, o) => i = j

Written(o) == InWrite(o) => Posting(o, writing.result) /\ response[o] = NoAnswer

Answered(o) ==
  response[o] # NoAnswer =>
    /\ phase[o] = "posting"
    /\ response[o].outcome # "RESET" => current[o] = {response[o].result}

FlightOf(o) == OnWire(o) /\ Chained(o) /\ Written(o) /\ Answered(o)

InFlight == \A o \in Observers : FlightOf(o)

\* What an observer takes for delivered, or is about to, is durable.
Durable ==
  \A o \in Observers :
    /\ delivered[o] \subseteq LogResults
    /\ RecordedFiles(o) \subseteq LogResults
    /\ phase[o] = "recording" => current[o] \subseteq LogResults

PipelineInv == CollectorInv /\ ObserverTypes /\ NetworkTypes /\ InFlight /\ Durable

-----------------------------------------------------------------------------
(***************************************************************************)
(* The collector's steps in the pipeline.                                  *)
(***************************************************************************)

\* The head and the rest of a chain of calls.
LEMMA HeadAndTail ==
  ASSUME NEW calls \in Seq(Call), calls # <<>>
  PROVE  /\ Head(calls) = calls[1] /\ calls[1] \in Call /\ 1 \in 1..Len(calls)
         /\ Tail(calls) \in Seq(Call) /\ Len(Tail(calls)) = Len(calls) - 1
         /\ \A i \in 1..Len(Tail(calls)) : Tail(calls)[i] = calls[i + 1] /\ i + 1 \in 1..Len(calls)
  OBVIOUS

\* Any step of the collector's process or its disk.
CollectorActs ==
  \/ CollectorStep \/ OpenLog
  \/ \E landing \in Landings : FailWrite(landing) \/ CrashCollector(landing)
  \/ \E call \in Call : Arrive(call)
  \/ \E c \in Clients : HangUp(c) \/ TakeResponse(c)

\* It keeps CollectorInv and the records of the log, and adds at most the
\* record being written.
LEMMA CollectorActsKeep ==
  ASSUME CollectorInv, CollectorActs
  PROVE  /\ CollectorInv' /\ LogResults \subseteq LogResults'
         /\ \/ UNCHANGED acceptedLog
            \/ writing # None /\ acceptedLog' = Append(acceptedLog, RecordOf(writing))
  <1>1. CollectorInv'
    BY CollectorStepKeeps, OpenLogKeeps, FailWriteKeeps, CrashCollectorKeeps, ArriveKeeps,
       HangUpKeeps, TakeResponseKeeps DEF CollectorActs
  <1>2. \/ UNCHANGED acceptedLog
        \/ writing # None /\ acceptedLog' = Append(acceptedLog, RecordOf(writing))
    BY DEF CollectorActs, CollectorStep, RefusePoisoned, AnswerWithoutWrite, BeginWrite,
           CompleteWrite, FailWrite, CrashCollector, Lands, OpenLog, Arrive, HangUp, TakeResponse
  <1>3. LogResults \subseteq LogResults'
    <2>1. CASE UNCHANGED acceptedLog
      BY <2>1 DEF LogResults
    <2>2. CASE writing # None /\ acceptedLog' = Append(acceptedLog, RecordOf(writing))
      BY <2>2, WriteKeepsReplay
    <2> QED
      BY <1>2, <2>1, <2>2
  <1> QED
    BY <1>1, <1>2, <1>3

\* A longer log keeps durable what was.
LEMMA DurableKept ==
  ASSUME Durable, LogResults \subseteq LogResults', UNCHANGED observerVars
  PROVE  Durable'
  BY DEF Durable, observerVars, RecordedFiles

\* The chain's first call is answered.
LEMMA HeadAnswered ==
  ASSUME PipelineInv, tail # <<>>, tail' = Tail(tail), NEW outcome,
         Respond(Head(tail), outcome), UNCHANGED <<writing, wire, phase, current>>
  PROVE  InFlight'
  <1> DEFINE call == tail[1]
  <1>1. /\ tail \in Seq(Call) /\ response \in [Clients -> Answer \cup {NoAnswer, Reset}]
    BY DEF PipelineInv, CollectorInv, CollectorTypeOK
  <1>2. /\ Head(tail) = call /\ call \in Call /\ 1 \in 1..Len(tail)
        /\ \A i \in 1..Len(tail') : tail'[i] = tail[i + 1] /\ i + 1 \in 1..Len(tail)
    BY <1>1, HeadAndTail
  <1>3. \A i \in 1..Len(tail') : i + 1 # 1 /\ i \in Nat
    OBVIOUS
  <1>4. ASSUME NEW o \in Observers, call.live => call.client # o
        PROVE  response'[o] = response[o]
    BY <1>1, <1>2, <1>4 DEF Respond, Call
  <1>5. ASSUME NEW o \in Observers, call.live, call.client = o
        PROVE  response'[o] = [outcome |-> outcome, result |-> call.result]
    BY <1>1, <1>2, <1>5 DEF Respond, Call
  <1>6. ASSUME NEW o \in Observers PROVE Waiting(o)' => Waiting(o)
    BY <1>2 DEF Waiting
  <1>7. ASSUME NEW o \in Observers
        PROVE  /\ \A i \in 1..Len(tail') : LiveCall(i, o)' => LiveCall(i + 1, o)
               /\ InWrite(o)' <=> InWrite(o)
               /\ \A r : Posting(o, r)' <=> Posting(o, r)
    BY <1>2 DEF LiveCall, InWrite, Posting
  <1>8. ASSUME NEW o \in Observers, call.live, call.client = o
        PROVE  /\ Posting(o, call.result) /\ ~InWrite(o) /\ Waiting(o)
               /\ \A j \in 1..Len(tail) : LiveCall(j, o) => j = 1
    BY <1>2, <1>8 DEF PipelineInv, InFlight, FlightOf, Chained, LiveCall, Waiting
  <1>9. ASSUME NEW o \in Observers, call.live => call.client # o
        PROVE  FlightOf(o)'
    <2>1. FlightOf(o) /\ response'[o] = response[o]
      BY <1>4, <1>9 DEF PipelineInv, InFlight
    <2>2. OnWire(o)'
      BY <2>1, <1>6, <1>7 DEF FlightOf, OnWire
    <2>3. Chained(o)'
      <3>1. \A i \in 1..Len(tail') : LiveCall(i, o)' => tail'[i].result = tail[i + 1].result
        BY <1>2
      <3> QED
        BY <2>1, <1>2, <1>3, <1>7, <3>1 DEF FlightOf, Chained
    <2> QED
      BY <2>1, <2>2, <2>3, <1>7 DEF FlightOf, Written, Answered, Posting
  <1>10. ASSUME NEW o \in Observers, call.live, call.client = o
         PROVE  FlightOf(o)'
    <2>1. OnWire(o)'
      BY <1>8, <1>10 DEF PipelineInv, InFlight, FlightOf, OnWire
    <2>2. \A i \in 1..Len(tail') : ~LiveCall(i, o)'
      BY <1>2, <1>3, <1>7, <1>8, <1>10
    <2> QED
      BY <1>5, <1>7, <1>8, <1>10, <2>1, <2>2
         DEF FlightOf, Chained, Written, Answered, Posting
  <1> QED
    BY <1>9, <1>10 DEF InFlight

\* The call being written is answered.
LEMMA WriteAnswered ==
  ASSUME PipelineInv, writing # None, writing' = None, NEW outcome,
         Respond(writing, outcome), UNCHANGED <<tail, wire, phase, current>>
  PROVE  InFlight'
  <1>1. /\ writing \in Call /\ response \in [Clients -> Answer \cup {NoAnswer, Reset}]
    BY DEF PipelineInv, CollectorInv, CollectorTypeOK
  <1>2. SUFFICES ASSUME NEW o \in Observers PROVE FlightOf(o)'
    BY DEF InFlight
  <1>3. /\ FlightOf(o) /\ ~InWrite(o)'
        /\ Waiting(o)' => Waiting(o)
        /\ \A i : LiveCall(i, o)' <=> LiveCall(i, o)
        /\ \A r : Posting(o, r)' <=> Posting(o, r)
    BY DEF PipelineInv, InFlight, InWrite, Waiting, LiveCall, Posting
  <1>4. CASE InWrite(o)
    <2>1. response'[o] = [outcome |-> outcome, result |-> writing.result]
      BY <1>1, <1>4, PipelineAssumption DEF Respond, InWrite, Call
    <2>2. Posting(o, writing.result) /\ Waiting(o)
      BY <1>3, <1>4 DEF FlightOf, Written, InWrite, Waiting
    <2>3. OnWire(o)'
      BY <1>3, <2>2 DEF FlightOf, OnWire
    <2>4. Chained(o)'
      BY <1>3, <1>4 DEF FlightOf, Chained
    <2> QED
      BY <1>3, <2>1, <2>2, <2>3, <2>4 DEF FlightOf, Written, Answered, Posting
  <1>5. CASE ~InWrite(o)
    <2>1. response'[o] = response[o]
      BY <1>1, <1>5, PipelineAssumption DEF Respond, InWrite, Call
    <2> QED
      BY <1>3, <1>5, <2>1 DEF FlightOf, OnWire, Chained, Written, Answered, Posting
  <1> QED
    BY <1>4, <1>5

\* The chain's first call is being written.
LEMMA HeadWritten ==
  ASSUME PipelineInv, writing = None, tail # <<>>, writing' = Head(tail), tail' = Tail(tail),
         UNCHANGED <<wire, response, phase, current>>
  PROVE  InFlight'
  <1>1. /\ Head(tail) = tail[1] /\ tail[1] \in Call /\ 1 \in 1..Len(tail)
        /\ \A i \in 1..Len(tail') : tail'[i] = tail[i + 1] /\ i + 1 \in 1..Len(tail)
    BY HeadAndTail DEF PipelineInv, CollectorInv, CollectorTypeOK
  <1>2. SUFFICES ASSUME NEW o \in Observers PROVE FlightOf(o)'
    BY DEF InFlight
  <1>3. /\ FlightOf(o) /\ ~InWrite(o)
        /\ \A i \in 1..Len(tail') : LiveCall(i, o)' => LiveCall(i + 1, o)
        /\ \A r : Posting(o, r)' <=> Posting(o, r)
        /\ InWrite(o)' => LiveCall(1, o)
    BY <1>1 DEF PipelineInv, InFlight, InWrite, LiveCall, Posting
  <1>4. Waiting(o)' => Waiting(o)
    BY <1>1 DEF Waiting
  <1>5. \A i \in 1..Len(tail') : i + 1 # 1 /\ i \in Nat
    OBVIOUS
  <1>6. OnWire(o)'
    BY <1>3, <1>4 DEF FlightOf, OnWire
  <1>7. Chained(o)'
    <2>1. \A i \in 1..Len(tail') : LiveCall(i, o)' => ~LiveCall(1, o) /\ tail'[i].result = tail[i + 1].result
      BY <1>1, <1>3, <1>5 DEF FlightOf, Chained
    <2> QED
      BY <1>1, <1>3, <1>5, <2>1 DEF FlightOf, Chained
  <1>8. Written(o)'
    BY <1>1, <1>3 DEF FlightOf, Chained, Written
  <1> QED
    BY <1>3, <1>6, <1>7, <1>8 DEF FlightOf, Answered, Posting

\* A request leaves the wire for the chain.
LEMMA RequestChained ==
  ASSUME PipelineInv, NEW m \in wire, NEW w,
         tail' = Append(tail, [client |-> m.client, result |-> m.result,
                               inWindow |-> w, live |-> m.live]),
         wire' = wire \ {m}, UNCHANGED <<writing, response, phase, current>>
  PROVE  InFlight'
  <1> DEFINE call == [client |-> m.client, result |-> m.result, inWindow |-> w, live |-> m.live]
             n == Len(tail) + 1
  <1>1. /\ tail \in Seq(Call) /\ wire \subseteq Request
    BY DEF PipelineInv, CollectorInv, CollectorTypeOK, NetworkTypes
  <1>2. /\ Len(tail') = n /\ tail'[n] = call /\ n \in 1..Len(tail')
        /\ \A i \in 1..Len(tail') : i # n => i \in 1..Len(tail) /\ tail'[i] = tail[i]
    BY <1>1
  <1>3. SUFFICES ASSUME NEW o \in Observers PROVE FlightOf(o)'
    BY DEF InFlight
  <1>4. /\ FlightOf(o) /\ (InWrite(o)' <=> InWrite(o))
        /\ \A i \in 1..Len(tail') : i # n => (LiveCall(i, o)' <=> LiveCall(i, o))
        /\ \A i \in 1..Len(tail') : i = n => (LiveCall(i, o)' <=> m.client = o /\ m.live)
        /\ \A r : Posting(o, r)' <=> Posting(o, r)
    <2>1. \A i \in 1..Len(tail') : i # n => (LiveCall(i, o)' <=> LiveCall(i, o))
      BY <1>2 DEF LiveCall
    <2>2. \A i \in 1..Len(tail') : i = n => (LiveCall(i, o)' <=> m.client = o /\ m.live)
      BY <1>2 DEF LiveCall
    <2> QED
      BY <2>1, <2>2 DEF PipelineInv, InFlight, InWrite, Posting
  <1>5. CASE m.client = o /\ m.live
    <2>1. Posting(o, m.result) /\ ~Waiting(o) /\ response[o] = NoAnswer
      BY <1>4, <1>5 DEF FlightOf, OnWire
    <2>2. ~InWrite(o) /\ \A i \in 1..Len(tail) : ~LiveCall(i, o)
      BY <2>1 DEF Waiting, InWrite, LiveCall
    <2>3. \A k \in wire' : ~(k.client = o /\ k.live)
      <3>1. ASSUME NEW k \in wire, k.client = o, k.live PROVE k = m
        <4>1. Posting(o, k.result)
          BY <1>4, <3>1 DEF FlightOf, OnWire
        <4>2. k.result = m.result
          BY <2>1, <4>1 DEF Posting
        <4>3. k.live = m.live
          BY <1>1, <1>5, <3>1 DEF Request
        <4> QED
          BY <1>1, <1>5, <3>1, <4>2, <4>3 DEF Request
      <3> QED
        BY <3>1
    <2>4. Chained(o)'
      BY <1>2, <1>4, <2>1, <2>2 DEF Chained
    <2> QED
      BY <1>4, <2>1, <2>2, <2>3, <2>4 DEF FlightOf, OnWire, Written, Answered
  <1>6. CASE ~(m.client = o /\ m.live)
    <2>1. Waiting(o)' => Waiting(o)
      BY <1>2, <1>6 DEF Waiting
    <2>2. Chained(o)'
      <3>1. \A i \in 1..Len(tail') : LiveCall(i, o)' =>
              /\ i \in 1..Len(tail) /\ LiveCall(i, o) /\ tail'[i].result = tail[i].result
        BY <1>2, <1>4, <1>6
      <3> QED
        BY <1>4, <3>1 DEF FlightOf, Chained
    <2> QED
      BY <1>4, <2>1, <2>2 DEF FlightOf, OnWire, Written, Answered, Posting
  <1> QED
    BY <1>5, <1>6

\* The Collector dies: everyone who waited is reset.
LEMMA EveryoneReset ==
  ASSUME PipelineInv, tail' = <<>>, writing' = None,
         response' = [c \in Clients |-> IF Waiting(c) THEN Reset ELSE response[c]],
         UNCHANGED <<wire, phase, current>>
  PROVE  InFlight'
  <1>1. SUFFICES ASSUME NEW o \in Observers PROVE FlightOf(o)'
    BY DEF InFlight
  <1>2. /\ FlightOf(o) /\ ~InWrite(o)' /\ ~Waiting(o)' /\ Chained(o)' /\ Written(o)'
        /\ \A r : Posting(o, r)' <=> Posting(o, r)
        /\ response'[o] = IF Waiting(o) THEN Reset ELSE response[o]
    BY PipelineAssumption
       DEF PipelineInv, InFlight, InWrite, Waiting, LiveCall, Posting, Chained, Written
  <1>3. OnWire(o)'
    BY <1>2 DEF FlightOf, OnWire
  <1>4. Waiting(o) => phase[o] = "posting"
    BY <1>2 DEF Waiting, FlightOf, Chained, Written, LiveCall, InWrite, Posting
  <1>5. Answered(o)'
    BY <1>2, <1>4 DEF FlightOf, Answered, Reset
  <1> QED
    BY <1>2, <1>3, <1>5 DEF FlightOf

\* A request meets a closed port.
LEMMA RequestReset ==
  ASSUME PipelineInv, NEW m \in wire, ~running, wire' = wire \ {m},
         response' = IF m.live THEN [response EXCEPT ![m.client] = Reset] ELSE response,
         UNCHANGED <<tail, writing, phase, current>>
  PROVE  InFlight'
  <1>1. /\ tail = <<>> /\ writing = None /\ wire \subseteq Request
        /\ response \in [Clients -> Answer \cup {NoAnswer, Reset}]
    BY DEF PipelineInv, CollectorInv, CollectorTypeOK, NetworkTypes, DownIsEmpty
  <1>2. SUFFICES ASSUME NEW o \in Observers PROVE FlightOf(o)'
    BY DEF InFlight
  <1>3. /\ FlightOf(o) /\ Chained(o)' /\ Written(o)' /\ (Waiting(o)' <=> Waiting(o))
        /\ \A r : Posting(o, r)' <=> Posting(o, r)
    BY <1>1 DEF PipelineInv, InFlight, InWrite, Waiting, LiveCall, Posting, Chained, Written
  <1>4. CASE m.client = o /\ m.live
    <2>1. Posting(o, m.result) /\ response'[o] = Reset
      BY <1>1, <1>3, <1>4, PipelineAssumption DEF FlightOf, OnWire
    <2>2. \A k \in wire' : ~(k.client = o /\ k.live)
      <3>1. ASSUME NEW k \in wire, k.client = o, k.live PROVE k = m
        <4>1. Posting(o, k.result)
          BY <1>3, <3>1 DEF FlightOf, OnWire
        <4>2. k.result = m.result /\ k.live = m.live
          BY <1>1, <1>4, <2>1, <3>1, <4>1 DEF Posting, Request
        <4> QED
          BY <1>1, <1>4, <3>1, <4>2 DEF Request
      <3> QED
        BY <3>1
    <2> QED
      BY <1>3, <2>1, <2>2 DEF FlightOf, OnWire, Answered, Posting, Reset
  <1>5. CASE ~(m.client = o /\ m.live)
    <2>1. response'[o] = response[o]
      BY <1>1, <1>5
    <2> QED
      BY <1>3, <2>1 DEF FlightOf, OnWire, Answered, Posting
  <1> QED
    BY <1>4, <1>5

\* What a runtime waits for, while it does not post: nothing.
LEMMA NotPosting ==
  ASSUME PipelineInv, NEW o \in Observers, phase[o] # "posting"
  PROVE  /\ \A m \in wire : ~(m.client = o /\ m.live)
         /\ \A i \in 1..Len(tail) : ~LiveCall(i, o)
         /\ ~InWrite(o) /\ ~Waiting(o) /\ response[o] = NoAnswer
  <1>1. FlightOf(o)
    BY DEF PipelineInv, InFlight
  <1>2. (\A i \in 1..Len(tail) : ~LiveCall(i, o)) /\ ~InWrite(o)
    BY <1>1 DEF FlightOf, Chained, Written, Posting
  <1> QED
    BY <1>1, <1>2 DEF FlightOf, OnWire, Answered, Posting, Waiting, LiveCall, InWrite

\* Runtimes go about what does not concern the post they wait for.
LEMMA PostsUndisturbed ==
  ASSUME PipelineInv, UNCHANGED <<tail, writing, response, wire>>,
         \A o \in Observers : phase[o] = "posting" =>
            phase'[o] = "posting" /\ current'[o] = current[o]
  PROVE  InFlight'
  <1>1. SUFFICES ASSUME NEW o \in Observers PROVE FlightOf(o)'
    BY DEF InFlight
  <1>2. /\ FlightOf(o) /\ (InWrite(o)' <=> InWrite(o)) /\ (Waiting(o)' <=> Waiting(o))
        /\ \A i : LiveCall(i, o)' <=> LiveCall(i, o)
        /\ \A r : Posting(o, r) => Posting(o, r)'
    BY DEF PipelineInv, InFlight, InWrite, Waiting, LiveCall, Posting
  <1>3. OnWire(o)' /\ Written(o)' /\ Answered(o)'
    BY <1>2 DEF FlightOf, OnWire, Written, Answered
  <1>4. Chained(o)'
    BY <1>2 DEF FlightOf, Chained
  <1> QED
    BY <1>3, <1>4 DEF FlightOf

\* A runtime posts a result.
LEMMA ResultPosted ==
  ASSUME PipelineInv, NEW o \in Observers, NEW f, phase[o] = "scanning",
         wire' = wire \cup {[client |-> o, result |-> f, live |-> TRUE]},
         phase' = [phase EXCEPT ![o] = "posting"], current' = [current EXCEPT ![o] = {f}],
         UNCHANGED <<tail, writing, response>>
  PROVE  InFlight'
  <1>1. phase \in [Observers -> Phases] /\ current \in [Observers -> SUBSET SpoolFiles]
    BY DEF PipelineInv, ObserverTypes
  <1>2. SUFFICES ASSUME NEW p \in Observers PROVE FlightOf(p)'
    BY DEF InFlight
  <1>3. /\ FlightOf(p) /\ (InWrite(p)' <=> InWrite(p)) /\ (Waiting(p)' <=> Waiting(p))
        /\ \A i : LiveCall(i, p)' <=> LiveCall(i, p)
    BY DEF PipelineInv, InFlight, InWrite, Waiting, LiveCall
  <1>4. CASE p = o
    <2>1. /\ \A m \in wire : ~(m.client = o /\ m.live)
          /\ \A i \in 1..Len(tail) : ~LiveCall(i, o)
          /\ ~InWrite(o) /\ ~Waiting(o) /\ response[o] = NoAnswer
      BY NotPosting
    <2>2. Posting(o, f)'
      BY <1>1 DEF Posting
    <2>3. OnWire(o)' /\ Chained(o)'
      BY <1>3, <1>4, <2>1, <2>2 DEF OnWire, Chained
    <2> QED
      BY <1>3, <1>4, <2>1, <2>3 DEF FlightOf, Written, Answered
  <1>5. CASE p # o
    <2>1. \A r : Posting(p, r)' <=> Posting(p, r)
      BY <1>1, <1>5 DEF Posting
    <2>2. Chained(p)'
      BY <1>3, <2>1 DEF FlightOf, Chained
    <2> QED
      BY <1>1, <1>3, <1>5, <2>1, <2>2 DEF FlightOf, OnWire, Written, Answered
  <1> QED
    BY <1>4, <1>5

\* A runtime takes its answer and no longer waits.
LEMMA AnswerTaken ==
  ASSUME PipelineInv, NEW o \in Observers, response[o] # NoAnswer,
         response' = [response EXCEPT ![o] = NoAnswer],
         \A p \in Observers : p # o => phase'[p] = phase[p] /\ current'[p] = current[p],
         UNCHANGED <<tail, writing, wire>>
  PROVE  InFlight'
  <1>1. response \in [Clients -> Answer \cup {NoAnswer, Reset}]
    BY DEF PipelineInv, CollectorInv, CollectorTypeOK
  <1>2. SUFFICES ASSUME NEW p \in Observers PROVE FlightOf(p)'
    BY DEF InFlight
  <1>3. /\ FlightOf(p) /\ (InWrite(p)' <=> InWrite(p)) /\ (Waiting(p)' <=> Waiting(p))
        /\ \A i : LiveCall(i, p)' <=> LiveCall(i, p)
    BY DEF PipelineInv, InFlight, InWrite, Waiting, LiveCall
  <1>4. CASE p = o
    <2>1. /\ \A m \in wire : ~(m.client = o /\ m.live)
          /\ \A i \in 1..Len(tail) : ~LiveCall(i, o)
          /\ ~InWrite(o)
      BY <1>3, <1>4 DEF FlightOf, OnWire, Chained, Written
    <2>2. response'[o] = NoAnswer
      BY <1>1, PipelineAssumption
    <2> QED
      BY <1>3, <1>4, <2>1, <2>2 DEF FlightOf, OnWire, Chained, Written, Answered
  <1>5. CASE p # o
    <2>1. /\ response'[p] = response[p]
          /\ \A r : Posting(p, r)' <=> Posting(p, r)
      BY <1>1, <1>5 DEF Posting
    <2>2. Chained(p)'
      BY <1>3, <2>1 DEF FlightOf, Chained
    <2> QED
      BY <1>3, <1>5, <2>1, <2>2 DEF FlightOf, OnWire, Written, Answered
  <1> QED
    BY <1>4, <1>5

\* A runtime hangs up: its requests and calls go on without it.
LEMMA HungUp ==
  ASSUME PipelineInv, NEW o \in Observers, HangUp(o), wire' = Orphaned(o),
         \A p \in Observers : p # o => phase'[p] = phase[p] /\ current'[p] = current[p]
  PROVE  InFlight'
  <1>1. /\ response \in [Clients -> Answer \cup {NoAnswer, Reset}] /\ tail \in Seq(Call)
        /\ writing \in Call \cup {None} /\ wire \subseteq Request
    BY DEF PipelineInv, CollectorInv, CollectorTypeOK, NetworkTypes
  <1>2. SUFFICES ASSUME NEW p \in Observers PROVE FlightOf(p)'
    BY DEF InFlight
  <1>3. ASSUME NEW call \in Call \cup Request
        PROVE  LET hung == [call EXCEPT !.live = FALSE]
               IN /\ hung.client = call.client /\ hung.result = call.result
                  /\ ~hung.live
    BY DEF Call, Request
  <1>4. /\ Len(tail') = Len(tail)
        /\ \A i \in 1..Len(tail) :
             /\ tail'[i].client = tail[i].client /\ tail'[i].result = tail[i].result
             /\ tail[i].client = o => ~tail'[i].live
             /\ tail[i].client # o => tail'[i] = tail[i]
    BY <1>1, <1>3 DEF HangUp
  <1>5. /\ InWrite(p)' => p # o /\ writing' = writing
        /\ p # o => (InWrite(p)' <=> InWrite(p))
    <2>1. CASE writing # None /\ writing.client = o
      <3>1. writing' = [writing EXCEPT !.live = FALSE] /\ writing \in Call
        BY <1>1, <2>1 DEF HangUp
      <3>2. writing'.client = o /\ ~writing'.live
        BY <1>3, <2>1, <3>1
      <3> QED
        BY <2>1, <3>2 DEF InWrite
    <2>2. CASE ~(writing # None /\ writing.client = o)
      <3>1. writing' = writing
        BY <2>2 DEF HangUp
      <3> QED
        BY <2>2, <3>1 DEF InWrite
    <2> QED
      BY <2>1, <2>2
  <1>6. \A m \in wire' : m.client = p /\ m.live => m \in wire /\ p # o
    <2>1. ASSUME NEW k \in wire PROVE LET hung == [k EXCEPT !.live = FALSE]
                                     IN hung.client = k.client /\ ~hung.live
      BY <1>1, <1>3
    <2> QED
      BY <2>1 DEF Orphaned
  <1>7. FlightOf(p)
    BY DEF PipelineInv, InFlight
  <1>8. CASE p = o
    <2>1. response'[p] = NoAnswer
      BY <1>1, <1>8, PipelineAssumption DEF HangUp
    <2>2. OnWire(p)' /\ Written(p)' /\ Answered(p)'
      BY <1>5, <1>6, <1>8, <2>1 DEF OnWire, Written, Answered
    <2>3. Chained(p)'
      BY <1>4, <1>8 DEF Chained, LiveCall
    <2> QED
      BY <2>2, <2>3 DEF FlightOf
  <1>9. CASE p # o
    <2>1. /\ response'[p] = response[p]
          /\ \A r : Posting(p, r)' <=> Posting(p, r)
      BY <1>1, <1>9 DEF Posting, HangUp
    <2>2. \A i \in 1..Len(tail') : LiveCall(i, p)' => LiveCall(i, p) /\ i \in 1..Len(tail)
      BY <1>4, <1>9 DEF LiveCall
    <2>3. Waiting(p)' => Waiting(p)
      BY <1>5, <1>9, <2>2 DEF Waiting, LiveCall, InWrite
    <2>4. OnWire(p)'
      BY <1>6, <1>7, <2>1, <2>3 DEF FlightOf, OnWire
    <2>5. Chained(p)'
      BY <1>4, <1>5, <1>7, <1>9, <2>1, <2>2 DEF FlightOf, Chained
    <2>6. Written(p)' /\ Answered(p)'
      BY <1>5, <1>7, <1>9, <2>1 DEF FlightOf, Written, Answered
    <2> QED
      BY <2>4, <2>5, <2>6 DEF FlightOf
  <1> QED
    BY <1>8, <1>9

-----------------------------------------------------------------------------
(***************************************************************************)
(* The runtimes' steps.                                                    *)
(***************************************************************************)

\* The append of a line records its file, or nothing.
LEMMA LineAppended ==
  ASSUME ObserverTypes, NEW o \in Observers, NEW f \in SpoolFiles, NEW landing,
         AppendLine(o, f, landing)
  PROVE  /\ deliveryLog' \in [Observers -> Seq(Line)]
         /\ partialDelivery' \in [Observers -> BOOLEAN]
         /\ \A p \in Observers :
              \/ RecordedFiles(p)' = RecordedFiles(p)
              \/ p = o /\ landing = "whole" /\ RecordedFiles(p)' = RecordedFiles(p) \cup {f}
         /\ landing = "whole" => RecordedFiles(o)' = RecordedFiles(o) \cup {f}
  <1> DEFINE line == [delivery_sequence |-> nextDeliverySequence[o],
                      file |-> f, json |-> ~partialDelivery[o]]
  <1>1. /\ deliveryLog \in [Observers -> Seq(Line)] /\ partialDelivery \in [Observers -> BOOLEAN]
        /\ line \in Line /\ line.file = f
    BY DEF ObserverTypes, Line
  <1>2. partialDelivery' \in [Observers -> BOOLEAN]
    <2>1. ((landing = "partial") \/ (partialDelivery[o] /\ landing # "whole")) \in BOOLEAN
      OBVIOUS
    <2> QED
      BY <1>1, <2>1 DEF AppendLine
  <1>3. CASE landing # "whole"
    BY <1>1, <1>2, <1>3 DEF AppendLine, RecordedFiles
  <1>4. CASE landing = "whole"
    <2>1. deliveryLog' = [deliveryLog EXCEPT ![o] = Append(@, line)]
      BY <1>4 DEF AppendLine
    <2> HIDE DEF line
    <2>2. Append(deliveryLog[o], line) \in Seq(Line) /\ deliveryLog[o] \in Seq(Line)
      BY <1>1
    <2>3. deliveryLog' \in [Observers -> Seq(Line)]
      BY <1>1, <2>1, <2>2
    <2>4. ASSUME NEW p \in Observers, p # o PROVE RecordedFiles(p)' = RecordedFiles(p)
      BY <1>1, <2>1, <2>4 DEF RecordedFiles
    <2>5. RecordedFiles(o)' = RecordedFiles(o) \cup {f}
      <3>1. deliveryLog'[o] = Append(deliveryLog[o], line)
        BY <1>1, <2>1
      <3>2. /\ Len(deliveryLog'[o]) = Len(deliveryLog[o]) + 1
            /\ \A i \in 1..Len(deliveryLog[o]) : deliveryLog'[o][i] = deliveryLog[o][i]
            /\ deliveryLog'[o][Len(deliveryLog[o]) + 1] = line
            /\ Len(deliveryLog[o]) \in Nat
        <4>1. ASSUME NEW log \in Seq(Line), NEW l \in Line
              PROVE  /\ Len(Append(log, l)) = Len(log) + 1 /\ Len(log) \in Nat
                     /\ \A i \in 1..Len(log) : Append(log, l)[i] = log[i]
                     /\ Append(log, l)[Len(log) + 1] = l
          OBVIOUS
        <4> QED
          BY <1>1, <2>2, <3>1, <4>1
      <3>3. \A i \in 1..Len(deliveryLog'[o]) :
               i \in 1..Len(deliveryLog[o]) \/ i = Len(deliveryLog[o]) + 1
        BY <3>2
      <3>4. ASSUME NEW i \in 1..Len(deliveryLog[o])
            PROVE  i \in 1..Len(deliveryLog'[o])
        BY <3>2
      <3>5. Len(deliveryLog[o]) + 1 \in 1..Len(deliveryLog'[o])
        BY <3>2
      <3>6. RecordedFiles(o)' \subseteq RecordedFiles(o) \cup {f}
        BY <1>1, <3>2, <3>3 DEF RecordedFiles
      <3>7. RecordedFiles(o) \subseteq RecordedFiles(o)'
        BY <3>2, <3>4 DEF RecordedFiles
      <3>8. f \in RecordedFiles(o)'
        BY <1>1, <3>2, <3>5 DEF RecordedFiles
      <3> QED
        BY <3>6, <3>7, <3>8
    <2> QED
      BY <1>2, <1>4, <2>3, <2>4, <2>5
  <1> QED
    BY <1>3, <1>4

\* Steps that record nothing and hold nothing new for delivered.
LEMMA NothingRecorded ==
  ASSUME Durable, UNCHANGED <<acceptedLog, delivered, deliveryLog>>,
         \A o \in Observers : phase'[o] = "recording" =>
            phase[o] = "recording" /\ current'[o] = current[o]
  PROVE  Durable'
  BY DEF Durable, LogResults, RecordedFiles

\* A scan step but the record of a delivery.
LEMMA ScanKeeps ==
  ASSUME ObserverTypes, NEW o \in Observers,
         \/ StartScan(o) \/ EndScan(o)
         \/ \E f : ScanThrows(o, f)
         \/ \E f \in SpoolFiles : SkipDelivered(o, f) \/ SkipFailed(o, f) \/ PostResult(o, f)
  PROVE  /\ ObserverTypes'
         /\ UNCHANGED <<delivered, deliveryLog>>
         /\ \A p \in Observers :
              /\ phase'[p] = "recording" => phase[p] = "recording" /\ current'[p] = current[p]
              /\ phase[p] = "posting" => phase'[p] = "posting" /\ current'[p] = current[p]
  <1>1. CASE StartScan(o)
    <2>1. Filed(o) \in SUBSET SpoolFiles
      BY DEF ObserverTypes, Filed
    <2> QED
      BY <1>1, <2>1 DEF StartScan, ObserverTypes, Phases, diskVars
  <1>2. CASE EndScan(o)
    BY <1>2 DEF EndScan, ObserverTypes, Phases, diskVars
  <1>3. CASE \E f \in SpoolFiles : SkipDelivered(o, f)
    BY <1>3 DEF SkipDelivered, Visit, NextEntry, ObserverTypes, diskVars, scanVars
  <1>4. CASE \E f \in SpoolFiles : SkipFailed(o, f)
    BY <1>4 DEF SkipFailed, Visit, NextEntry, ObserverTypes, diskVars, scanVars
  <1>5. CASE \E f \in SpoolFiles : PostResult(o, f)
    BY <1>5 DEF PostResult, Visit, NextEntry, ObserverTypes, Phases, diskVars, scanVars
  <1>6. CASE \E f : ScanThrows(o, f)
    BY <1>6 DEF ScanThrows, NextEntry, ObserverTypes, Phases, diskVars
  <1> QED
    BY <1>1, <1>2, <1>3, <1>4, <1>5, <1>6

\* A post that ends without an acknowledgement.
LEMMA VisitFails ==
  ASSUME ObserverTypes, NEW o \in Observers, RefusedForGood(o) \/ FailedForNow(o)
  PROVE  /\ ObserverTypes'
         /\ UNCHANGED <<delivered, deliveryLog>>
         /\ \A p \in Observers :
              /\ phase'[p] = "recording" => phase[p] = "recording" /\ current'[p] = current[p]
              /\ p # o => phase'[p] = phase[p] /\ current'[p] = current[p]
  <1>1. CASE RefusedForGood(o)
    BY <1>1 DEF RefusedForGood, FailVisit, ObserverTypes, Phases, diskVars, scanVars
  <1>2. CASE FailedForNow(o)
    BY <1>2 DEF FailedForNow, FailVisit, ObserverTypes, Phases, diskVars, scanVars
  <1> QED
    BY <1>1, <1>2

\* The delivery is recorded: what is recorded was durable.
LEMMA DeliveryRecorded ==
  ASSUME ObserverTypes, Durable, NEW o \in Observers, UNCHANGED acceptedLog,
         RecordDelivery(o) \/ \E landing \in AppendLandings : FailRecord(o, landing)
  PROVE  /\ ObserverTypes' /\ Durable'
         /\ phase[o] = "recording"
         /\ \A p \in Observers : p # o => phase'[p] = phase[p] /\ current'[p] = current[p]
  <1>1. PICK f \in current[o] : \E landing : AppendLine(o, f, landing)
    BY DEF RecordDelivery, FailRecord
  <1>2. /\ phase[o] = "recording" /\ f \in SpoolFiles
        /\ current[o] \in SUBSET SpoolFiles /\ current[o] \subseteq LogResults
    BY DEF RecordDelivery, FailRecord, ObserverTypes, Durable
  <1>3. /\ deliveryLog' \in [Observers -> Seq(Line)]
        /\ partialDelivery' \in [Observers -> BOOLEAN]
        /\ \A p \in Observers : RecordedFiles(p)' \subseteq RecordedFiles(p) \cup (IF p = o THEN {f} ELSE {})
    BY <1>1, <1>2, LineAppended
  <1>4. /\ ObserverTypes'
        /\ \A p \in Observers :
             /\ p # o => phase'[p] = phase[p] /\ current'[p] = current[p]
             /\ delivered'[p] \subseteq delivered[p] \cup (IF p = o THEN current[o] ELSE {})
        /\ phase'[o] # "recording"
    <2>1. CASE RecordDelivery(o)
      BY <1>2, <1>3, <2>1 DEF RecordDelivery, ObserverTypes, Phases, scanVars
    <2>2. CASE \E l \in AppendLandings : FailRecord(o, l)
      BY <1>2, <1>3, <2>2 DEF FailRecord, FailVisit, ObserverTypes, Phases, scanVars
    <2> QED
      BY <2>1, <2>2
  <1>5. Durable'
    <2>1. LogResults' = LogResults
      BY DEF LogResults
    <2> QED
      BY <1>2, <1>3, <1>4, <2>1 DEF Durable
  <1> QED
    BY <1>2, <1>4, <1>5

\* A runtime dies, perhaps while it records a delivery.
LEMMA RuntimeCrashes ==
  ASSUME ObserverTypes, Durable, NEW o \in Observers, UNCHANGED acceptedLog,
         NEW landing \in AppendLandings, CrashObserver(o, landing)
  PROVE  /\ ObserverTypes' /\ Durable'
         /\ \A p \in Observers : p # o => phase'[p] = phase[p] /\ current'[p] = current[p]
  <1>1. /\ deliveryLog' \in [Observers -> Seq(Line)]
        /\ partialDelivery' \in [Observers -> BOOLEAN]
        /\ \A p \in Observers : RecordedFiles(p)' \subseteq LogResults
    <2>1. CASE phase[o] = "recording"
      <3>1. PICK f \in current[o] : AppendLine(o, f, landing)
        BY <2>1 DEF CrashObserver
      <3>2. f \in SpoolFiles /\ f \in LogResults
        BY <2>1 DEF ObserverTypes, Durable
      <3> QED
        BY <3>1, <3>2, LineAppended DEF Durable
    <2>2. CASE phase[o] # "recording"
      BY <2>2 DEF CrashObserver, ObserverTypes, diskVars, Durable, RecordedFiles
    <2> QED
      BY <2>1, <2>2
  <1>2. /\ ObserverTypes'
        /\ \A p \in Observers :
             /\ p # o => phase'[p] = phase[p] /\ current'[p] = current[p]
             /\ delivered'[p] \subseteq delivered[p]
        /\ phase'[o] # "recording"
    BY <1>1 DEF CrashObserver, ObserverTypes, Phases
  <1>3. Durable'
    <2>1. LogResults' = LogResults
      BY DEF LogResults
    <2> QED
      BY <1>1, <1>2, <2>1 DEF Durable
  <1> QED
    BY <1>2, <1>3

\* A runtime is restarted: its delivery log tells it what is delivered.
LEMMA RuntimeReopens ==
  ASSUME ObserverTypes, Durable, NEW o \in Observers, UNCHANGED acceptedLog, OpenRuntime(o)
  PROVE  /\ ObserverTypes' /\ Durable'
         /\ \A p \in Observers : phase[p] = "posting" =>
              phase'[p] = "posting" /\ current'[p] = current[p]
  <1>1. Len(deliveryLog[o]) \in Nat /\ RecordedFiles(o) \in SUBSET SpoolFiles
    <2>1. deliveryLog[o] \in Seq(Line)
      BY DEF ObserverTypes
    <2>2. \A log \in Seq(Line) : Len(log) \in Nat /\ \A i \in 1..Len(log) : log[i] \in Line
      OBVIOUS
    <2>3. \A line \in Line : line.file \in SpoolFiles
      BY DEF Line
    <2> QED
      BY <2>1, <2>2, <2>3 DEF RecordedFiles
  <1>2. ObserverTypes'
    BY <1>1 DEF OpenRuntime, ObserverTypes, Phases, diskVars
  <1>3. LogResults' = LogResults /\ \A p \in Observers : RecordedFiles(p)' = RecordedFiles(p)
    BY DEF LogResults, OpenRuntime, RecordedFiles, diskVars
  <1>4. Durable'
    BY <1>3 DEF Durable, OpenRuntime, ObserverTypes
  <1> QED
    BY <1>2, <1>4 DEF OpenRuntime, ObserverTypes

-----------------------------------------------------------------------------
(***************************************************************************)
(* Every step of the pipeline keeps PipelineInv.                           *)
(***************************************************************************)

\* The collector's process is left alone.
LEMMA CollectorLeftAlone ==
  ASSUME CollectorInv, UNCHANGED collectorVars
  PROVE  CollectorInv' /\ LogResults' = LogResults
  BY DEF CollectorInv, CollectorTypeOK, LogReplays, IndexMatchesLog, LogResults,
         AcknowledgedIsDurable, WritingAdmitted, DownIsEmpty, collectorVars

LEMMA BudgetSpent ==
  ASSUME NetworkTypes, NEW kind \in FaultKinds, Spend(kind)
  PROVE  budget' \in [FaultKinds -> Nat]
  BY DEF NetworkTypes, Spend

\* The collector's own steps.
LEMMA CollectorSideKeeps ==
  ASSUME PipelineInv,
         \/ CollectorWorks \/ CollectorReopens
         \/ \E landing \in Landings : CollectorWriteFails(landing) \/ CollectorCrashes(landing)
  PROVE  PipelineInv'
  <1>1. CollectorActs /\ UNCHANGED <<observerVars, wire, keyExpired>>
    BY DEF CollectorActs, CollectorWorks, CollectorReopens, CollectorWriteFails,
           CollectorCrashes, networkVars
  <1>2. CollectorInv' /\ Durable'
    BY <1>1, CollectorActsKeep, DurableKept DEF PipelineInv
  <1>3. budget' \in [FaultKinds -> Nat]
    BY BudgetSpent DEF CollectorWorks, CollectorReopens, CollectorWriteFails,
       CollectorCrashes, networkVars, FaultKinds, PipelineInv, NetworkTypes
  <1>4. ObserverTypes' /\ NetworkTypes'
    BY <1>1, <1>3 DEF PipelineInv, ObserverTypes, NetworkTypes, observerVars
  <1>5. UNCHANGED <<phase, current, wire>>
    BY <1>1 DEF observerVars
  <1>6. InFlight'
    <2>1. CASE RefusePoisoned
      BY <1>5, <2>1, HeadAnswered DEF RefusePoisoned
    <2>2. CASE AnswerWithoutWrite
      <3>1. tail # <<>> /\ tail' = Tail(tail) /\ UNCHANGED writing
        BY <2>2 DEF AnswerWithoutWrite
      <3>2. \E outcome : Respond(Head(tail), outcome)
        BY <2>2 DEF AnswerWithoutWrite
      <3> QED
        BY <1>5, <3>1, <3>2, HeadAnswered
    <2>3. CASE BeginWrite
      BY <1>5, <2>3, HeadWritten DEF BeginWrite
    <2>4. CASE CompleteWrite \/ \E landing \in Landings : FailWrite(landing)
      <3>1. /\ writing # None /\ writing' = None /\ UNCHANGED tail
            /\ \E outcome : Respond(writing, outcome)
        BY <2>4 DEF CompleteWrite, FailWrite
      <3> QED
        BY <1>5, <3>1, WriteAnswered
    <2>5. CASE OpenLog
      BY <1>5, <2>5, PostsUndisturbed DEF OpenLog
    <2>6. CASE \E landing \in Landings : CrashCollector(landing)
      BY <1>5, <2>6, EveryoneReset DEF CrashCollector
    <2> QED
      BY <2>1, <2>2, <2>3, <2>4, <2>5, <2>6
         DEF CollectorWorks, CollectorReopens, CollectorWriteFails, CollectorCrashes,
             CollectorStep
  <1> QED
    BY <1>2, <1>4, <1>6 DEF PipelineInv

\* A request arrives, or is refused by the port.
LEMMA RequestKeeps ==
  ASSUME PipelineInv, NEW m \in wire, RequestArrives(m) \/ RequestRefused(m)
  PROVE  PipelineInv'
  <1>1. m \in Request /\ Clients = Observers /\ SpoolFiles = Results
    BY PipelineAssumption DEF PipelineInv, NetworkTypes
  <1>2. /\ wire' = wire \ {m} /\ UNCHANGED <<observerVars, keyExpired, budget>>
        /\ UNCHANGED <<phase, current>>
    BY DEF RequestArrives, RequestRefused, observerVars
  <1>3. ObserverTypes' /\ NetworkTypes'
    BY <1>2 DEF PipelineInv, ObserverTypes, NetworkTypes, observerVars
  <1>4. CASE RequestArrives(m)
    <2> DEFINE call == [client |-> m.client, result |-> m.result,
                        inWindow |-> m.client \notin keyExpired, live |-> m.live]
    <2>1. call \in Call /\ Arrive(call)
      BY <1>1, <1>4 DEF Call, Request, RequestArrives
    <2>2. CollectorInv' /\ Durable'
      <3>1. CollectorActs
        BY <2>1 DEF CollectorActs
      <3> QED
        BY <1>2, <3>1, CollectorActsKeep, DurableKept DEF PipelineInv
    <2>3. InFlight'
      <3>1. tail' = Append(tail, call) /\ UNCHANGED <<writing, response>>
        BY <2>1 DEF Arrive
      <3> QED
        BY <1>2, <3>1, RequestChained
    <2> QED
      BY <1>3, <2>2, <2>3 DEF PipelineInv
  <1>5. CASE RequestRefused(m)
    <2>1. /\ ~running
          /\ response' = IF m.live THEN [response EXCEPT ![m.client] = Reset] ELSE response
          /\ UNCHANGED <<acceptedLog, partialRecord, running, index, nextSequence,
                         fatalWriteError, tail, writing>>
      BY <1>5 DEF RequestRefused
    <2>2. CollectorInv'
      <3>1. LogReplays' /\ IndexMatchesLog' /\ LogResults' = LogResults
        BY <2>1, SameLog DEF PipelineInv
      <3>2. /\ response' \in [Clients -> Answer \cup {NoAnswer, Reset}]
            /\ \A c \in Clients : response'[c] = response[c] \/ response'[c] = Reset
        BY <1>1, <2>1 DEF PipelineInv, CollectorInv, CollectorTypeOK, Request
      <3>3. CollectorTypeOK'
        BY <2>1, <3>2 DEF PipelineInv, CollectorInv, CollectorTypeOK
      <3>4. AcknowledgedIsDurable'
        BY <3>1, <3>2 DEF PipelineInv, CollectorInv, AcknowledgedIsDurable, Reset
      <3>5. WritingAdmitted' /\ DownIsEmpty'
        BY <2>1 DEF PipelineInv, CollectorInv, WritingAdmitted, DownIsEmpty
      <3> QED
        BY <3>1, <3>3, <3>4, <3>5 DEF CollectorInv
    <2>3. Durable'
      BY <1>2, <2>1, DurableKept DEF PipelineInv, LogResults
    <2>4. InFlight'
      BY <1>2, <2>1, RequestReset
    <2> QED
      BY <1>3, <2>2, <2>3, <2>4 DEF PipelineInv
  <1> QED
    BY <1>4, <1>5

\* Scan steps, posts, restarts and failed records, and what is written to a
\* spool: the collector is left alone.
LEMMA RuntimeSideKeeps ==
  ASSUME PipelineInv, NEW o \in Observers,
         \/ ObserverScans(o) \/ ObserverReopens(o) \/ SpoolReadFails(o)
         \/ \E f \in SpoolFiles : ObserverPosts(o, f)
         \/ \E landing \in AppendLandings : ObserverWriteFails(o, landing)
  PROVE  PipelineInv'
  <1>1. UNCHANGED <<collectorVars, keyExpired>>
    BY DEF ObserverScans, ObserverReopens, ObserverPosts, ObserverWriteFails, SpoolReadFails,
       networkVars
  <1>2. /\ CollectorInv' /\ LogResults' = LogResults /\ UNCHANGED acceptedLog
        /\ UNCHANGED <<tail, writing, response>>
    BY <1>1, CollectorLeftAlone DEF PipelineInv, collectorVars
  <1>3. ObserverTypes /\ Durable /\ NetworkTypes
    BY DEF PipelineInv
  <1>4. CASE \E f \in SpoolFiles : ObserverPosts(o, f)
    <2>1. PICK f \in SpoolFiles : ObserverPosts(o, f)
      BY <1>4
    <2>2. /\ PostResult(o, f) /\ UNCHANGED budget
          /\ wire' = wire \cup {[client |-> o, result |-> f, live |-> TRUE]}
      BY <2>1 DEF ObserverPosts
    <2>3. ObserverTypes' /\ Durable'
      BY <1>2, <1>3, <2>2, ScanKeeps, NothingRecorded
    <2>4. NetworkTypes'
      <3>1. [client |-> o, result |-> f, live |-> TRUE] \in Request
        BY PipelineAssumption DEF Request
      <3> QED
        BY <1>1, <1>3, <2>2, <3>1 DEF NetworkTypes
    <2>5. InFlight'
      BY <1>2, <2>2, ResultPosted DEF PostResult, Visit, NextEntry
    <2> QED
      BY <1>2, <2>3, <2>4, <2>5 DEF PipelineInv
  <1>5. CASE (ObserverScans(o) /\ ~RecordDelivery(o)) \/ SpoolReadFails(o)
    <2>1. UNCHANGED wire /\ budget' \in [FaultKinds -> Nat]
      BY <1>3, <1>5, BudgetSpent
         DEF ObserverScans, SpoolReadFails, networkVars, FaultKinds, NetworkTypes
    <2>2. \/ StartScan(o) \/ EndScan(o)
          \/ \E f : ScanThrows(o, f)
          \/ \E f \in SpoolFiles : SkipDelivered(o, f) \/ SkipFailed(o, f)
      BY <1>5 DEF ObserverScans, SpoolReadFails
    <2>3. ObserverTypes' /\ Durable'
      BY <1>2, <1>3, <2>2, ScanKeeps, NothingRecorded
    <2>4. NetworkTypes' /\ InFlight'
      BY <1>1, <1>2, <1>3, <2>1, <2>2, ScanKeeps, PostsUndisturbed DEF NetworkTypes
    <2> QED
      BY <1>2, <2>3, <2>4 DEF PipelineInv
  <1>6. CASE \/ ObserverScans(o) /\ RecordDelivery(o)
             \/ \E landing \in AppendLandings : ObserverWriteFails(o, landing)
    <2>1. RecordDelivery(o) \/ \E landing \in AppendLandings : FailRecord(o, landing)
      BY <1>6 DEF ObserverWriteFails
    <2>2. UNCHANGED wire /\ budget' \in [FaultKinds -> Nat]
      BY <1>3, <1>6, BudgetSpent
         DEF ObserverScans, ObserverWriteFails, networkVars, FaultKinds, NetworkTypes
    <2>3. /\ ObserverTypes' /\ Durable' /\ phase[o] = "recording"
          /\ \A p \in Observers : p # o => phase'[p] = phase[p] /\ current'[p] = current[p]
      BY <1>2, <1>3, <2>1, DeliveryRecorded
    <2>4. NetworkTypes' /\ InFlight'
      BY <1>1, <1>2, <1>3, <2>2, <2>3, PostsUndisturbed DEF NetworkTypes
    <2> QED
      BY <1>2, <2>3, <2>4 DEF PipelineInv
  <1>7. CASE ObserverReopens(o)
    <2>1. OpenRuntime(o) /\ UNCHANGED <<wire, budget>>
      BY <1>7 DEF ObserverReopens, networkVars
    <2>2. /\ ObserverTypes' /\ Durable'
          /\ \A p \in Observers : phase[p] = "posting" =>
               phase'[p] = "posting" /\ current'[p] = current[p]
      BY <1>2, <1>3, <2>1, RuntimeReopens
    <2>3. NetworkTypes' /\ InFlight'
      BY <1>1, <1>2, <1>3, <2>1, <2>2, PostsUndisturbed DEF NetworkTypes
    <2> QED
      BY <1>2, <2>2, <2>3 DEF PipelineInv
  <1> QED
    BY <1>4, <1>5, <1>6, <1>7

\* The answer is read.  What is acknowledged is durable, and is the result the
\* runtime posted.
LEMMA ReadKeeps ==
  ASSUME PipelineInv, NEW o \in Observers, ObserverReads(o)
  PROVE  PipelineInv'
  <1>1. /\ TakeResponse(o) /\ UNCHANGED <<wire, keyExpired, budget>>
        /\ o \in Clients
    BY PipelineAssumption DEF ObserverReads, networkVars
  <1>2. CollectorInv' /\ UNCHANGED <<acceptedLog, tail, writing>> /\ NetworkTypes'
    BY <1>1, TakeResponseKeeps DEF TakeResponse, PipelineInv, NetworkTypes
  <1>3. ObserverTypes /\ Durable
    BY DEF PipelineInv
  <1>4. /\ ObserverTypes' /\ Durable'
        /\ \A p \in Observers : p # o => phase'[p] = phase[p] /\ current'[p] = current[p]
    <2>1. CASE response[o].outcome \in {"ACCEPTED", "DUPLICATE"}
      <3>1. Acknowledged(o)
        BY <2>1 DEF ObserverReads
      <3>2. response[o] # NoAnswer /\ response[o].outcome # "RESET"
        BY <2>1 DEF NoAnswer
      <3>3. response[o].result \in LogResults
        BY <1>1, <2>1 DEF PipelineInv, CollectorInv, AcknowledgedIsDurable
      <3>4. current[o] \subseteq LogResults
        BY <3>2, <3>3 DEF PipelineInv, InFlight, FlightOf, Answered
      <3>5. LogResults' = LogResults
        BY <1>2 DEF LogResults
      <3>6. /\ ObserverTypes'
            /\ UNCHANGED <<delivered, deliveryLog, current>>
            /\ \A p \in Observers : p # o => phase'[p] = phase[p]
        BY <1>3, <3>1 DEF Acknowledged, ObserverTypes, Phases, diskVars, scanVars
      <3> QED
        BY <1>3, <3>4, <3>5, <3>6 DEF Durable, RecordedFiles
    <2>2. CASE response[o].outcome \notin {"ACCEPTED", "DUPLICATE"}
      <3>1. RefusedForGood(o) \/ FailedForNow(o)
        BY <2>2 DEF ObserverReads
      <3> QED
        BY <1>2, <1>3, <3>1, VisitFails, NothingRecorded
    <2> QED
      BY <2>1, <2>2
  <1>5. InFlight'
    BY <1>1, <1>2, <1>4, AnswerTaken DEF TakeResponse
  <1> QED
    BY <1>2, <1>4, <1>5 DEF PipelineInv

\* A runtime stops waiting: its timeout fires, or it dies.
LEMMA HangUpSideKeeps ==
  ASSUME PipelineInv, NEW o \in Observers,
         ObserverTimesOut(o) \/ \E landing \in AppendLandings : ObserverCrashes(o, landing)
  PROVE  PipelineInv'
  <1>1. /\ HangUp(o) /\ wire' = Orphaned(o) /\ UNCHANGED keyExpired /\ o \in Clients
        /\ UNCHANGED acceptedLog
    BY PipelineAssumption DEF ObserverTimesOut, ObserverCrashes, HangUp
  <1>2. CollectorInv' /\ ObserverTypes /\ Durable
    BY <1>1, HangUpKeeps DEF PipelineInv
  <1>3. NetworkTypes'
    <2>1. budget' \in [FaultKinds -> Nat]
      BY BudgetSpent DEF ObserverTimesOut, ObserverCrashes, FaultKinds, PipelineInv
    <2>2. ASSUME NEW m \in Request PROVE [m EXCEPT !.live = FALSE] \in Request
      BY DEF Request
    <2>3. wire' \subseteq Request
      BY <1>1, <2>2 DEF PipelineInv, NetworkTypes, Orphaned
    <2> QED
      BY <1>1, <2>1, <2>3 DEF PipelineInv, NetworkTypes
  <1>4. /\ ObserverTypes' /\ Durable'
        /\ \A p \in Observers : p # o => phase'[p] = phase[p] /\ current'[p] = current[p]
    <2>1. CASE ObserverTimesOut(o)
      BY <1>1, <1>2, <2>1, VisitFails, NothingRecorded DEF ObserverTimesOut
    <2>2. CASE \E landing \in AppendLandings : ObserverCrashes(o, landing)
      BY <1>1, <1>2, <2>2, RuntimeCrashes DEF ObserverCrashes
    <2> QED
      BY <2>1, <2>2
  <1>5. InFlight'
    BY <1>1, <1>4, HungUp
  <1> QED
    BY <1>2, <1>3, <1>4, <1>5 DEF PipelineInv

\* A result is spooled, a key expires, or nothing happens.
LEMMA RestKeeps ==
  ASSUME PipelineInv,
         \/ \E f \in SpoolFiles : ResultSpooled(f)
         \/ \E o \in Observers : KeyExpires(o)
         \/ UNCHANGED vars
  PROVE  PipelineInv'
  <1>1. /\ UNCHANGED <<collectorVars, wire>>
        /\ UNCHANGED <<phase, todo, current, delivered, failedContent, cycleError, lastError,
                       listing, deliveryLog, partialDelivery, nextDeliverySequence>>
    BY DEF ResultSpooled, WriteSpoolFile, KeyExpires, observerVars, networkVars, vars
  <1>2. CollectorInv' /\ UNCHANGED <<acceptedLog, tail, writing, response>>
    BY <1>1, CollectorLeftAlone DEF PipelineInv, collectorVars
  <1>3. spool' \in SUBSET SpoolFiles
    BY DEF PipelineInv, ObserverTypes, ResultSpooled, WriteSpoolFile, KeyExpires,
           observerVars, vars
  <1>4. keyExpired' \in SUBSET Observers /\ budget' \in [FaultKinds -> Nat]
    BY BudgetSpent DEF PipelineInv, NetworkTypes, ResultSpooled, KeyExpires, FaultKinds,
       networkVars, vars
  <1>5. ObserverTypes' /\ NetworkTypes'
    BY <1>1, <1>3, <1>4 DEF PipelineInv, ObserverTypes, NetworkTypes
  <1>6. Durable'
    BY <1>1, <1>2, NothingRecorded DEF PipelineInv
  <1>7. InFlight'
    BY <1>1, <1>2, PostsUndisturbed
  <1> QED
    BY <1>2, <1>5, <1>6, <1>7 DEF PipelineInv

LEMMA PipelineStepKeeps ==
  ASSUME PipelineInv, [Next]_vars
  PROVE  PipelineInv'
  BY CollectorSideKeeps, RequestKeeps, RuntimeSideKeeps, ReadKeeps, HangUpSideKeeps, RestKeeps
     DEF Next, ObserverWorks

LEMMA PipelineInitInv == Init => PipelineInv
  <1> SUFFICES ASSUME Init PROVE PipelineInv
    OBVIOUS
  <1>1. CollectorInv
    BY CollectorInitInv DEF Init
  <1>2. ObserverTypes /\ NetworkTypes
    BY PipelineAssumption, SpoolAssumption, EmptySeq
       DEF Init, ObserverInit, ObserverTypes, NetworkTypes, Phases
  <1>3. InFlight
    BY PipelineAssumption
       DEF Init, ObserverInit, CollectorInit, InFlight, FlightOf, OnWire, Chained, Written,
           Answered, InWrite
  <1>4. Durable
    BY DEF Init, ObserverInit, Durable, RecordedFiles
  <1> QED
    BY <1>1, <1>2, <1>3, <1>4 DEF PipelineInv

-----------------------------------------------------------------------------
\* PipelineInv is an invariant of the pipeline.
THEOREM PipelineInvariant == Spec => []PipelineInv
<1>1. PipelineInv /\ [Next]_vars => PipelineInv'
  BY PipelineStepKeeps
<1> QED
  BY <1>1, PipelineInitInv, PTL DEF Spec

\* Every variable of the pipeline keeps its type.
THEOREM PipelineTypeCorrect == Spec => []TypeOK
<1>1. PipelineInv => TypeOK
  BY DEF PipelineInv, CollectorInv, ObserverTypes, NetworkTypes, TypeOK
<1> QED
  BY <1>1, PipelineInvariant, PTL

\* What an observer takes for delivered, in memory or in its delivery log, the
\* Collector's log durably holds, whatever crashes, is lost or comes late.
THEOREM PipelineDeliveredIsDurable == Spec => []DeliveredIsDurable
<1>1. PipelineInv => DeliveredIsDurable
  BY DEF PipelineInv, Durable, DeliveredIsDurable
<1> QED
  BY <1>1, PipelineInvariant, PTL

\* A late answer never meets a later post: what a runtime reads is about the
\* result it is posting.
THEOREM PipelineAnswersMatch == Spec => []ResponseMatchesPost
<1>1. PipelineInv => ResponseMatchesPost
  BY DEF PipelineInv, InFlight, FlightOf, Answered, ResponseMatchesPost
<1> QED
  BY <1>1, PipelineInvariant, PTL

\* However many observers share the Collector, its log holds no unit of
\* evidence twice.
THEOREM PipelineAcceptedOnce == Spec => []AcceptedOnce
<1>1. PipelineInv => AcceptedOnce
  BY ReplayedOnce DEF PipelineInv, CollectorInv, CollectorTypeOK, LogReplays, AcceptedOnce
<1> QED
  BY <1>1, PipelineInvariant, PTL

-----------------------------------------------------------------------------
(***************************************************************************)
(* Readiness.  While a scan meets no error, what it listed is delivered,   *)
(* still to be visited, or the entry in hand.                              *)
(***************************************************************************)
ScanCovered(o) ==
  /\ phase[o] \notin {"posting", "recording"} => current[o] = {}
  /\ phase[o] \in {"scanning", "posting", "recording"} /\ ~cycleError[o] =>
       listing[o] \subseteq delivered[o] \cup todo[o] \cup current[o]

ScanCovers == \A o \in Observers : ScanCovered(o)

\* Whatever a runtime does keeps its scan covered.
LEMMA RuntimeScanCovers ==
  ASSUME ObserverTypes, ScanCovers, NEW o \in Observers,
         \/ StartScan(o) \/ EndScan(o) \/ RecordDelivery(o) \/ OpenRuntime(o)
         \/ Acknowledged(o) \/ RefusedForGood(o) \/ FailedForNow(o)
         \/ \E f : ScanThrows(o, f)
         \/ \E f \in SpoolFiles : SkipDelivered(o, f) \/ SkipFailed(o, f) \/ PostResult(o, f)
         \/ \E landing : FailRecord(o, landing) \/ CrashObserver(o, landing)
  PROVE  ScanCovers'
  <1> SUFFICES ASSUME NEW p \in Observers PROVE ScanCovered(p)'
    BY DEF ScanCovers
  <1> USE DEF ScanCovers, ScanCovered, ObserverTypes
  <1>1. CASE StartScan(o)
    <2>1. /\ phase[o] = "idle" /\ current' = current /\ delivered' = delivered
          /\ phase'[o] = "scanning" /\ todo'[o] = listing'[o]
          /\ \A q \in Observers : q # o =>
               /\ phase'[q] = phase[q] /\ todo'[q] = todo[q] /\ listing'[q] = listing[q]
               /\ cycleError'[q] = cycleError[q]
      BY <1>1 DEF StartScan
    <2>3. CASE p = o
      BY <2>1, <2>3
    <2>4. CASE p # o
      BY <2>1, <2>4
    <2> QED
      BY <2>3, <2>4
  <1>8. CASE EndScan(o) \/ OpenRuntime(o)
    BY <1>8 DEF EndScan, OpenRuntime
  <1>2. CASE RecordDelivery(o)
    <2>1. /\ phase[o] = "recording" /\ phase'[o] = "scanning" /\ current'[o] = {}
          /\ delivered'[o] = delivered[o] \cup current[o]
          /\ UNCHANGED <<todo, cycleError, listing>>
          /\ \A q \in Observers : q # o =>
               /\ phase'[q] = phase[q] /\ current'[q] = current[q]
               /\ delivered'[q] = delivered[q]
      BY <1>2 DEF RecordDelivery, scanVars
    <2>2. CASE p = o
      BY <2>1, <2>2
    <2>3. CASE p # o
      BY <2>1, <2>3
    <2> QED
      BY <2>2, <2>3
  <1>9. CASE Acknowledged(o)
    BY <1>9 DEF Acknowledged, scanVars
  <1>3. CASE RefusedForGood(o) \/ FailedForNow(o)
    BY <1>3 DEF RefusedForGood, FailedForNow, FailVisit, scanVars
  <1>4. CASE \E f \in SpoolFiles : SkipDelivered(o, f)
    BY <1>4 DEF SkipDelivered, Visit, NextEntry, scanVars
  <1>5. CASE \E f \in SpoolFiles : SkipFailed(o, f)
    BY <1>5 DEF SkipFailed, Visit, NextEntry, scanVars
  <1>6. CASE \E f \in SpoolFiles : PostResult(o, f)
    <2>1. PICK f \in SpoolFiles : PostResult(o, f)
      BY <1>6
    <2>2. /\ phase[o] = "scanning" /\ phase'[o] = "posting"
          /\ todo'[o] = todo[o] \ {f} /\ current'[o] = {f}
          /\ UNCHANGED <<delivered, cycleError, listing>>
          /\ \A q \in Observers : q # o =>
               phase'[q] = phase[q] /\ todo'[q] = todo[q] /\ current'[q] = current[q]
      BY <2>1 DEF PostResult, Visit, NextEntry, scanVars
    <2>3. CASE p = o
      BY <2>2, <2>3
    <2>4. CASE p # o
      BY <2>2, <2>4
    <2> QED
      BY <2>3, <2>4
  <1>7. CASE \E landing : FailRecord(o, landing) \/ CrashObserver(o, landing)
    <2>1. /\ phase'[o] = "down" \/ (phase'[o] = "scanning" /\ cycleError'[o])
          /\ current'[o] = {}
          /\ \A q \in Observers : q # o =>
               /\ phase'[q] = phase[q] /\ current'[q] = current[q] /\ todo'[q] = todo[q]
               /\ delivered'[q] = delivered[q] /\ listing'[q] = listing[q]
               /\ cycleError'[q] = cycleError[q]
      <3>1. CASE \E landing : FailRecord(o, landing)
        BY <3>1 DEF FailRecord, FailVisit, scanVars
      <3>2. CASE \E landing : CrashObserver(o, landing)
        BY <3>2 DEF CrashObserver
      <3> QED
        BY <1>7, <3>1, <3>2
    <2>2. CASE p = o
      BY <2>1, <2>2
    <2>3. CASE p # o
      BY <2>1, <2>3
    <2> QED
      BY <2>2, <2>3
  <1>10. CASE \E f : ScanThrows(o, f)
    <2>1. /\ phase[o] = "scanning" /\ phase'[o] = "idle"
          /\ UNCHANGED <<current, delivered, cycleError, listing>>
          /\ \A q \in Observers : q # o => phase'[q] = phase[q] /\ todo'[q] = todo[q]
      BY <1>10 DEF ScanThrows, NextEntry
    <2>2. CASE p = o
      BY <2>1, <2>2
    <2>3. CASE p # o
      BY <2>1, <2>3
    <2> QED
      BY <2>2, <2>3
  <1> QED
    BY <1>1, <1>2, <1>3, <1>4, <1>5, <1>6, <1>7, <1>8, <1>9, <1>10

LEMMA ScanCoversStep ==
  ASSUME ObserverTypes, ScanCovers, [Next]_vars
  PROVE  ScanCovers'
  <1>1. CASE UNCHANGED <<phase, todo, current, delivered, cycleError, listing>>
    BY <1>1 DEF ScanCovers, ScanCovered
  <1>2. CASE \E o \in Observers : ObserverWorks(o)
    BY <1>2, RuntimeScanCovers DEF ObserverWorks, ObserverScans, ObserverReads, ObserverPosts
  <1>3. CASE \/ \E o \in Observers :
                  ObserverTimesOut(o) \/ ObserverReopens(o) \/ SpoolReadFails(o)
             \/ \E o \in Observers, landing \in AppendLandings :
                  ObserverWriteFails(o, landing) \/ ObserverCrashes(o, landing)
    BY <1>3, RuntimeScanCovers
       DEF ObserverTimesOut, ObserverReopens, ObserverWriteFails, ObserverCrashes, SpoolReadFails
  <1>4. CASE \/ CollectorWorks \/ CollectorReopens
             \/ \E landing \in Landings : CollectorWriteFails(landing) \/ CollectorCrashes(landing)
             \/ \E m \in wire : RequestArrives(m) \/ RequestRefused(m)
             \/ \E f \in SpoolFiles : ResultSpooled(f)
             \/ \E o \in Observers : KeyExpires(o)
             \/ UNCHANGED vars
    BY <1>1, <1>4 DEF CollectorWorks, CollectorReopens, CollectorWriteFails, CollectorCrashes,
       RequestArrives, RequestRefused, ResultSpooled, WriteSpoolFile, KeyExpires,
       observerVars, vars
  <1> QED
    BY <1>2, <1>3, <1>4 DEF Next

\* Readiness never hides a result that was refused or not delivered.
THEOREM PipelineReadyMeansDelivered == Spec => ReadyMeansDelivered
<1>1. Init => ScanCovers
  BY DEF Init, ObserverInit, ScanCovers, ScanCovered
<1>2. PipelineInv /\ ScanCovers /\ [Next]_vars => ScanCovers'
  BY ScanCoversStep DEF PipelineInv
<1>3. PipelineInv /\ ScanCovers /\ [Next]_vars =>
        [\A o \in Observers : EndScan(o) /\ ~lastError'[o] => listing[o] \subseteq delivered[o]]_vars
  <2> SUFFICES ASSUME PipelineInv, ScanCovers, NEW o \in Observers, EndScan(o), ~lastError'[o]
               PROVE  listing[o] \subseteq delivered[o]
    OBVIOUS
  <2>1. phase[o] = "scanning" /\ todo[o] = {} /\ current[o] = {} /\ ~cycleError[o]
    BY DEF EndScan, ScanCovers, ScanCovered, PipelineInv, ObserverTypes
  <2> QED
    BY <2>1 DEF ScanCovers, ScanCovered
<1> QED
  BY <1>1, <1>2, <1>3, PipelineInvariant, PTL DEF Spec, ReadyMeansDelivered

-----------------------------------------------------------------------------
(***************************************************************************)
(* Agreement.  While no receipt's write fails, a runtime's memory is its   *)
(* delivery log, and a log without a torn line reopens.                    *)
(***************************************************************************)
ReceiptsInOrder(o) ==
  /\ phase[o] # "down" =>
       /\ ~partialDelivery[o]
       /\ nextDeliverySequence[o] = Len(deliveryLog[o])
       /\ delivered[o] = RecordedFiles(o)
  /\ ~partialDelivery[o] => Reopens(o)
  /\ phase[o] \in {"posting", "recording"} =>
       \E f \in SpoolFiles : current[o] = {f} /\ f \notin delivered[o]

ReceiptsInv == budget["observerDisk"] = 0 /\ \A o \in Observers : ReceiptsInOrder(o)

\* The line of a new file, appended whole, keeps the order of the log.
LEMMA ReceiptExtends ==
  ASSUME ObserverTypes, NEW o \in Observers, phase[o] # "down", ReceiptsInOrder(o),
         NEW f \in SpoolFiles, f \notin delivered[o], AppendLine(o, f, "whole")
  PROVE  /\ Reopens(o)'
         /\ ~partialDelivery'[o]
         /\ nextDeliverySequence[o] + 1 = Len(deliveryLog'[o])
         /\ RecordedFiles(o)' = RecordedFiles(o) \cup {f}
         /\ \A p \in Observers : p # o => /\ deliveryLog'[p] = deliveryLog[p]
                                          /\ partialDelivery'[p] = partialDelivery[p]
  <1> DEFINE log == deliveryLog[o]
             line == [delivery_sequence |-> nextDeliverySequence[o],
                      file |-> f, json |-> ~partialDelivery[o]]
  <1>1. /\ log \in Seq(Line) /\ Len(log) \in Nat
        /\ deliveryLog \in [Observers -> Seq(Line)] /\ partialDelivery \in [Observers -> BOOLEAN]
    BY DEF ObserverTypes
  <1>2. /\ nextDeliverySequence[o] = Len(log) /\ ~partialDelivery[o]
        /\ f \notin RecordedFiles(o)
        /\ \A i \in 1..Len(log) : log[i].json /\ log[i].delivery_sequence = i - 1
        /\ \A i, j \in 1..Len(log) : log[i].file = log[j].file => i = j
    BY DEF ReceiptsInOrder, Reopens
  <1>3. line.delivery_sequence = Len(log) /\ line.file = f /\ line.json /\ line \in Line
    BY <1>1, <1>2 DEF Line
  <1>4. /\ deliveryLog' = [deliveryLog EXCEPT ![o] = Append(@, line)]
        /\ partialDelivery' =
             [partialDelivery EXCEPT ![o] = ("whole" = "partial") \/ (@ /\ "whole" # "whole")]
    BY DEF AppendLine
  <1>5. ~partialDelivery'[o]
    BY <1>1, <1>4
  <1>6. \A p \in Observers : p # o => /\ deliveryLog'[p] = deliveryLog[p]
                                      /\ partialDelivery'[p] = partialDelivery[p]
    BY <1>1, <1>4
  <1> HIDE DEF line
  <1>7. deliveryLog'[o] = Append(log, line)
    BY <1>1, <1>4
  <1> HIDE DEF log
  <1>8. /\ Len(deliveryLog'[o]) = Len(log) + 1
        /\ \A i \in 1..Len(log) : deliveryLog'[o][i] = log[i]
        /\ deliveryLog'[o][Len(log) + 1] = line
    BY <1>1, <1>3, <1>7
  <1>9. \A i \in 1..Len(deliveryLog'[o]) : i \in 1..Len(log) \/ i = Len(log) + 1
    BY <1>1, <1>8
  <1>10. \A i \in 1..Len(log) : log[i].file # f
    BY <1>2 DEF RecordedFiles, log
  <1>11. \A i \in 1..Len(deliveryLog'[o]) :
            deliveryLog'[o][i].json /\ deliveryLog'[o][i].delivery_sequence = i - 1
    <2>1. ASSUME NEW i \in 1..Len(log)
          PROVE  deliveryLog'[o][i].json /\ deliveryLog'[o][i].delivery_sequence = i - 1
      <3>1. deliveryLog'[o][i] = log[i] /\ log[i].json /\ log[i].delivery_sequence = i - 1
        BY <1>2, <1>8
      <3> QED
        BY <3>1, Zenon
    <2>2. ASSUME NEW i, i = Len(log) + 1
          PROVE  deliveryLog'[o][i].json /\ deliveryLog'[o][i].delivery_sequence = i - 1
      <3>1. deliveryLog'[o][i] = line /\ line.delivery_sequence = i - 1
        BY <1>1, <1>3, <1>8, <2>2
      <3> QED
        BY <1>3, <3>1, Zenon
    <2> QED
      BY <1>9, <2>1, <2>2
  <1>12. \A i, j \in 1..Len(deliveryLog'[o]) :
            deliveryLog'[o][i].file = deliveryLog'[o][j].file => i = j
    <2>1. ASSUME NEW i \in 1..Len(deliveryLog'[o]), NEW j \in 1..Len(deliveryLog'[o]),
                 deliveryLog'[o][i].file = deliveryLog'[o][j].file
          PROVE  i = j
      <3>1. CASE i \in 1..Len(log) /\ j \in 1..Len(log)
        BY <1>2, <1>8, <2>1, <3>1 DEF log
      <3>2. CASE i \in 1..Len(log) /\ j = Len(log) + 1
        BY <1>3, <1>8, <1>10, <2>1, <3>2
      <3>3. CASE i = Len(log) + 1 /\ j \in 1..Len(log)
        BY <1>3, <1>8, <1>10, <2>1, <3>3
      <3> QED
        BY <1>9, <3>1, <3>2, <3>3
    <2> QED
      BY <2>1
  <1>13. Reopens(o)'
    BY <1>5, <1>11, <1>12 DEF Reopens
  <1>14. RecordedFiles(o)' = RecordedFiles(o) \cup {f}
    BY LineAppended
  <1> QED
    BY <1>1, <1>2, <1>5, <1>6, <1>8, <1>13, <1>14 DEF log

\* What a runtime has in order depends on its own state.
LEMMA OrderUndisturbed ==
  ASSUME NEW p \in Observers, ReceiptsInOrder(p),
         partialDelivery'[p] = partialDelivery[p], deliveryLog'[p] = deliveryLog[p],
         phase'[p] # "down" => /\ phase[p] # "down"
                               /\ nextDeliverySequence'[p] = nextDeliverySequence[p]
                               /\ delivered'[p] = delivered[p],
         phase'[p] \in {"posting", "recording"} =>
           phase[p] \in {"posting", "recording"} /\ current'[p] = current[p]
  PROVE  ReceiptsInOrder(p)'
  <1>1. RecordedFiles(p)' = RecordedFiles(p) /\ (Reopens(p)' <=> Reopens(p))
    BY DEF RecordedFiles, Reopens
  <1>2. /\ phase'[p] # "down" =>
             /\ ~partialDelivery'[p]
             /\ nextDeliverySequence'[p] = Len(deliveryLog'[p])
             /\ delivered'[p] = RecordedFiles(p)'
        /\ ~partialDelivery'[p] => Reopens(p)'
    BY <1>1 DEF ReceiptsInOrder
  <1>3. phase'[p] \in {"posting", "recording"} =>
           \E f \in SpoolFiles : current'[p] = {f} /\ f \notin delivered'[p]
    BY DEF ReceiptsInOrder
  <1> QED
    BY <1>2, <1>3 DEF ReceiptsInOrder

\* The runtimes but o have all they had.
LEMMA OthersInOrder ==
  ASSUME NEW o, \A p \in Observers : ReceiptsInOrder(p), ReceiptsInOrder(o)',
         \A p \in Observers : p # o =>
            /\ partialDelivery'[p] = partialDelivery[p] /\ deliveryLog'[p] = deliveryLog[p]
            /\ phase'[p] = phase[p] /\ current'[p] = current[p]
            /\ nextDeliverySequence'[p] = nextDeliverySequence[p]
            /\ delivered'[p] = delivered[p]
  PROVE  \A p \in Observers : ReceiptsInOrder(p)'
  <1> SUFFICES ASSUME NEW p \in Observers PROVE ReceiptsInOrder(p)'
    OBVIOUS
  <1>1. CASE p = o
    BY <1>1
  <1>2. CASE p # o
    BY <1>2, OrderUndisturbed
  <1> QED
    BY <1>1, <1>2

\* A scan's steps but the record of a delivery, a restart, and what a response
\* or a timeout makes of a post.
LEMMA VisitsInOrder ==
  ASSUME ObserverTypes, \A p \in Observers : ReceiptsInOrder(p), NEW o \in Observers,
         \/ StartScan(o) \/ EndScan(o)
         \/ \E f : ScanThrows(o, f)
         \/ \E f \in SpoolFiles : SkipDelivered(o, f) \/ SkipFailed(o, f)
         \/ Acknowledged(o) \/ RefusedForGood(o) \/ FailedForNow(o)
  PROVE  \A p \in Observers : ReceiptsInOrder(p)'
  <1>1. /\ UNCHANGED <<partialDelivery, deliveryLog, nextDeliverySequence, delivered>>
        /\ phase[o] # "down"
        /\ \/ phase'[o] \notin {"posting", "recording"}
           \/ phase[o] \in {"posting", "recording"} /\ current' = current
        /\ \A p \in Observers : p # o => phase'[p] = phase[p] /\ current'[p] = current[p]
    BY DEF StartScan, EndScan, SkipDelivered, SkipFailed, Visit, NextEntry, ScanThrows,
           Acknowledged, RefusedForGood, FailedForNow, FailVisit, diskVars, scanVars, ObserverTypes
  <1>2. ReceiptsInOrder(o)'
    BY <1>1, OrderUndisturbed
  <1> QED
    BY <1>1, <1>2, OthersInOrder

\* A post takes one file that is not delivered.
LEMMA PostInOrder ==
  ASSUME ObserverTypes, \A p \in Observers : ReceiptsInOrder(p), NEW o \in Observers,
         NEW f \in SpoolFiles, PostResult(o, f)
  PROVE  \A p \in Observers : ReceiptsInOrder(p)'
  <1>1. /\ UNCHANGED <<partialDelivery, deliveryLog, nextDeliverySequence, delivered>>
        /\ phase[o] = "scanning" /\ phase'[o] = "posting"
        /\ current'[o] = {f} /\ f \notin delivered[o]
        /\ \A p \in Observers : p # o => phase'[p] = phase[p] /\ current'[p] = current[p]
    BY DEF PostResult, Visit, NextEntry, diskVars, scanVars, ObserverTypes
  <1>2. RecordedFiles(o)' = RecordedFiles(o) /\ (Reopens(o)' <=> Reopens(o))
    BY <1>1 DEF RecordedFiles, Reopens
  <1>3. ReceiptsInOrder(o)'
    BY <1>1, <1>2 DEF ReceiptsInOrder
  <1> QED
    BY <1>1, <1>3, OthersInOrder

\* A receipt is written.
LEMMA RecordInOrder ==
  ASSUME ObserverTypes, \A p \in Observers : ReceiptsInOrder(p), NEW o \in Observers,
         RecordDelivery(o)
  PROVE  \A p \in Observers : ReceiptsInOrder(p)'
  <1>1. phase[o] = "recording" /\ ReceiptsInOrder(o)
    BY DEF RecordDelivery
  <1>2. PICK f \in SpoolFiles : current[o] = {f} /\ f \notin delivered[o]
    BY <1>1 DEF ReceiptsInOrder
  <1>3. AppendLine(o, f, "whole")
    BY <1>2 DEF RecordDelivery
  <1>4. /\ Reopens(o)' /\ ~partialDelivery'[o]
        /\ nextDeliverySequence[o] + 1 = Len(deliveryLog'[o])
        /\ RecordedFiles(o)' = RecordedFiles(o) \cup {f}
        /\ \A p \in Observers : p # o => /\ deliveryLog'[p] = deliveryLog[p]
                                         /\ partialDelivery'[p] = partialDelivery[p]
    BY <1>1, <1>2, <1>3, ReceiptExtends
  <1>5. /\ phase'[o] = "scanning" /\ delivered'[o] = delivered[o] \cup {f}
        /\ nextDeliverySequence'[o] = nextDeliverySequence[o] + 1
        /\ \A p \in Observers : p # o =>
              /\ phase'[p] = phase[p] /\ current'[p] = current[p]
              /\ nextDeliverySequence'[p] = nextDeliverySequence[p]
              /\ delivered'[p] = delivered[p]
    BY <1>2 DEF RecordDelivery, ObserverTypes
  <1>6. delivered[o] = RecordedFiles(o)
    BY <1>1 DEF ReceiptsInOrder
  <1>7. ReceiptsInOrder(o)'
    BY <1>4, <1>5, <1>6 DEF ReceiptsInOrder
  <1> QED
    BY <1>4, <1>5, <1>7, OthersInOrder

\* A runtime dies: the line it was writing lands, tears or is lost.
LEMMA CrashInOrder ==
  ASSUME ObserverTypes, \A p \in Observers : ReceiptsInOrder(p), NEW o \in Observers,
         NEW landing \in AppendLandings, CrashObserver(o, landing)
  PROVE  \A p \in Observers : ReceiptsInOrder(p)'
  <1>1. phase[o] # "down" /\ ReceiptsInOrder(o)
    BY DEF CrashObserver
  <1>2. /\ phase'[o] = "down"
        /\ \A p \in Observers : p # o =>
              /\ phase'[p] = phase[p] /\ current'[p] = current[p]
              /\ nextDeliverySequence'[p] = nextDeliverySequence[p]
              /\ delivered'[p] = delivered[p]
    BY DEF CrashObserver, ObserverTypes
  <1>3. CASE UNCHANGED <<deliveryLog, partialDelivery>>
    <2>1. ReceiptsInOrder(o)'
      BY <1>1, <1>2, <1>3, OrderUndisturbed
    <2> QED
      BY <1>2, <1>3, <2>1, OthersInOrder
  <1>4. CASE phase[o] = "recording"
    <2>1. PICK f \in SpoolFiles : current[o] = {f} /\ f \notin delivered[o]
      BY <1>1, <1>4 DEF ReceiptsInOrder
    <2>2. AppendLine(o, f, landing)
      BY <1>4, <2>1 DEF CrashObserver
    <2>3. /\ partialDelivery \in [Observers -> BOOLEAN] /\ ~partialDelivery[o]
      BY <1>1 DEF ReceiptsInOrder, ObserverTypes
    <2>4. CASE landing = "whole"
      <3>1. /\ Reopens(o)'
            /\ \A p \in Observers : p # o => /\ deliveryLog'[p] = deliveryLog[p]
                                             /\ partialDelivery'[p] = partialDelivery[p]
        BY <1>1, <2>1, <2>2, <2>4, ReceiptExtends
      <3>2. ReceiptsInOrder(o)'
        BY <1>2, <3>1 DEF ReceiptsInOrder
      <3> QED
        BY <1>2, <3>1, <3>2, OthersInOrder
    <2>5. CASE landing = "partial"
      <3>1. UNCHANGED deliveryLog
        BY <2>2, <2>5 DEF AppendLine
      <3>2. /\ partialDelivery'[o]
            /\ \A p \in Observers : p # o => partialDelivery'[p] = partialDelivery[p]
        BY <2>2, <2>3, <2>5 DEF AppendLine
      <3>3. ReceiptsInOrder(o)'
        BY <1>2, <3>2 DEF ReceiptsInOrder
      <3> QED
        BY <1>2, <3>1, <3>2, <3>3, OthersInOrder
    <2>6. CASE landing = "nothing"
      <3>1. UNCHANGED deliveryLog
        BY <2>2, <2>6 DEF AppendLine
      <3>2. partialDelivery' = [partialDelivery EXCEPT ![o] = FALSE]
        BY <2>2, <2>3, <2>6 DEF AppendLine
      <3>3. \A p \in Observers : partialDelivery'[p] = partialDelivery[p]
        BY <2>3, <3>2
      <3>4. ReceiptsInOrder(o)'
        BY <1>1, <1>2, <3>1, <3>3, OrderUndisturbed
      <3> QED
        BY <1>2, <3>1, <3>3, <3>4, OthersInOrder
    <2> QED
      BY <2>4, <2>5, <2>6 DEF AppendLandings
  <1> QED
    BY <1>3, <1>4 DEF CrashObserver, diskVars

\* A restart reads its receipts from the log.
LEMMA ReopenInOrder ==
  ASSUME ObserverTypes, \A p \in Observers : ReceiptsInOrder(p), NEW o \in Observers,
         OpenRuntime(o)
  PROVE  \A p \in Observers : ReceiptsInOrder(p)'
  <1>1. /\ UNCHANGED <<partialDelivery, deliveryLog, current>>
        /\ phase'[o] = "idle" /\ Reopens(o)
        /\ nextDeliverySequence'[o] = Len(deliveryLog[o]) /\ delivered'[o] = RecordedFiles(o)
        /\ \A p \in Observers : p # o =>
              /\ phase'[p] = phase[p]
              /\ nextDeliverySequence'[p] = nextDeliverySequence[p]
              /\ delivered'[p] = delivered[p]
    BY DEF OpenRuntime, diskVars, ObserverTypes
  <1>2. RecordedFiles(o)' = RecordedFiles(o) /\ (Reopens(o)' <=> Reopens(o)) /\ ~partialDelivery[o]
    BY <1>1 DEF RecordedFiles, Reopens
  <1>3. ReceiptsInOrder(o)'
    BY <1>1, <1>2 DEF ReceiptsInOrder
  <1> QED
    BY <1>1, <1>3, OthersInOrder

\* No step of the pipeline breaks the order while no receipt's write may fail.
LEMMA ReceiptsStep ==
  ASSUME PipelineInv, ReceiptsInv, [Next]_vars
  PROVE  ReceiptsInv'
  <1>1. /\ ObserverTypes /\ budget \in [FaultKinds -> Nat] /\ budget["observerDisk"] = 0
        /\ \A p \in Observers : ReceiptsInOrder(p)
    BY DEF PipelineInv, NetworkTypes, ReceiptsInv
  <1>2. ~Spend("observerDisk")
    BY <1>1 DEF Spend
  <1>3. budget'["observerDisk"] = 0
    <2>1. ASSUME NEW kind \in FaultKinds, Spend(kind) PROVE budget'["observerDisk"] = 0
      BY <1>1, <1>2, <2>1 DEF Spend, FaultKinds
    <2> QED
      BY <1>1, <1>2, <2>1 DEF Next, CollectorWorks, CollectorReopens, CollectorWriteFails, CollectorCrashes,
         RequestArrives, RequestRefused, ObserverWorks, ObserverScans, ObserverReads, ObserverPosts,
         ObserverTimesOut, ObserverWriteFails, ObserverCrashes, ObserverReopens, SpoolReadFails,
         ResultSpooled, KeyExpires, FaultKinds, networkVars, vars
  <1> SUFFICES \A p \in Observers : ReceiptsInOrder(p)'
    BY <1>3 DEF ReceiptsInv
  <1>4. ASSUME UNCHANGED <<phase, current, delivered, deliveryLog, partialDelivery, nextDeliverySequence>>
        PROVE  \A p \in Observers : ReceiptsInOrder(p)'
    BY <1>1, <1>4, OrderUndisturbed
  <1>5. CASE \/ CollectorWorks \/ CollectorReopens
             \/ \E landing \in Landings : CollectorWriteFails(landing) \/ CollectorCrashes(landing)
             \/ \E m \in wire : RequestArrives(m) \/ RequestRefused(m)
             \/ \E o \in Observers : KeyExpires(o)
             \/ \E f \in SpoolFiles : ResultSpooled(f)
             \/ UNCHANGED vars
    <2>1. UNCHANGED <<phase, current, delivered, deliveryLog, partialDelivery, nextDeliverySequence>>
      BY <1>5 DEF CollectorWorks, CollectorReopens, CollectorWriteFails, CollectorCrashes,
         RequestArrives, RequestRefused, KeyExpires, ResultSpooled, WriteSpoolFile,
         observerVars, vars
    <2> QED
      BY <1>4, <2>1
  <1>6. ASSUME NEW o \in Observers, ObserverWorks(o)
        PROVE  \A p \in Observers : ReceiptsInOrder(p)'
    <2>1. CASE ObserverScans(o)
      BY <1>1, <2>1, VisitsInOrder, RecordInOrder DEF ObserverScans
    <2>2. CASE ObserverReads(o)
      <3>1. Acknowledged(o) \/ RefusedForGood(o) \/ FailedForNow(o)
        BY <2>2, Zenon DEF ObserverReads
      <3> QED
        BY <1>1, <3>1, VisitsInOrder
    <2>3. CASE \E f \in SpoolFiles : ObserverPosts(o, f)
      BY <1>1, <2>3, PostInOrder DEF ObserverPosts
    <2> QED
      BY <1>6, <2>1, <2>2, <2>3 DEF ObserverWorks
  <1>7. ASSUME NEW o \in Observers,
               \/ ObserverTimesOut(o) \/ ObserverReopens(o) \/ SpoolReadFails(o)
               \/ \E landing \in AppendLandings : ObserverCrashes(o, landing)
        PROVE  \A p \in Observers : ReceiptsInOrder(p)'
    BY <1>1, <1>7, VisitsInOrder, CrashInOrder, ReopenInOrder
       DEF ObserverTimesOut, ObserverReopens, ObserverCrashes, SpoolReadFails
  <1>8. ASSUME NEW o \in Observers, NEW landing \in AppendLandings, ObserverWriteFails(o, landing)
        PROVE  FALSE
    BY <1>2, <1>8 DEF ObserverWriteFails
  <1> QED
    BY <1>5, <1>6, <1>7, <1>8 DEF Next

LEMMA ReceiptsInit ==
  ASSUME FaultBudget["observerDisk"] = 0
  PROVE  Init => ReceiptsInv
  BY DEF Init, ObserverInit, ReceiptsInv, ReceiptsInOrder, RecordedFiles, Reopens

\* While no receipt's write fails, a delivery log whose last line is whole
\* reopens: after any timeouts, lost answers and deaths of both sides each
\* line has its number and no result has two.
THEOREM PipelineReceiptsReopen ==
  ASSUME FaultBudget["observerDisk"] = 0
  PROVE  Spec => []DeliveryLogReopens
<1>1. Init => PipelineInv /\ ReceiptsInv
  BY PipelineInitInv, ReceiptsInit
<1>2. (PipelineInv /\ ReceiptsInv) /\ [Next]_vars => (PipelineInv /\ ReceiptsInv)'
  BY PipelineStepKeeps, ReceiptsStep
<1>3. ReceiptsInv => DeliveryLogReopens
  BY DEF ReceiptsInv, ReceiptsInOrder, DeliveryLogReopens
<1> QED
  BY <1>1, <1>2, <1>3, PTL DEF Spec

-----------------------------------------------------------------------------
(***************************************************************************)
(* Refusals.  While no key expires, a refusal has its cause in the log.    *)
(***************************************************************************)
\* What the Collector refuses while no key expires: a result that fails its
\* checks, or one that repeats another in the log.  It stays refused.
Refusable(r) ==
  ~Allowed(r) \/ (r \notin LogResults /\ \E s \in LogResults : SharesKey(s, r))

RefusalsStand ==
  /\ budget["keyExpiry"] = 0 /\ keyExpired = {}
  /\ \A i \in 1..Len(tail) : tail[i].inWindow
  /\ \A o \in Observers :
       /\ response[o].outcome = "REJECTED" => Refusable(response[o].result)
       /\ \A r \in failedContent[o] : Refusable(r)

\* Every record of the log passed its checks.
LEMMA LogAllowed ==
  ASSUME CollectorInv
  PROVE  \A r \in LogResults : Allowed(r)
  <1>1. Replayable(acceptedLog)
    BY DEF CollectorInv, LogReplays
  <1>2. ASSUME NEW i \in 1..Len(acceptedLog) PROVE Allowed(acceptedLog[i].result)
    <2>1. Verdict({acceptedLog[j].result : j \in 1..(i-1)}, acceptedLog[i].result,
                  acceptedLog[i].inWindow) = "ACCEPTED"
      BY <1>1 DEF Replayable
    <2>2. ASSUME NEW seen, NEW r, NEW w, Verdict(seen, r, w) = "ACCEPTED" PROVE Allowed(r)
      BY <2>2 DEF Verdict
    <2> QED
      BY <2>1, <2>2
  <1> QED
    BY <1>2 DEF LogResults

\* A rejection in the window of the key has its cause in the log.
LEMMA RejectedHasCause ==
  ASSUME index = LogResults, NEW r, Verdict(index, r, TRUE) = "REJECTED"
  PROVE  Refusable(r)
  <1>1. CASE ~Allowed(r)
    BY <1>1 DEF Refusable
  <1>2. CASE Allowed(r)
    <2>1. Existing(index, r) # {} /\ r \notin Existing(index, r)
      BY <1>2 DEF Verdict
    <2>2. r \in index => r \in Existing(index, r)
      BY DEF Existing
    <2>3. PICK s \in index : s \in Existing(index, r)
      BY <2>1 DEF Existing
    <2>4. SharesKey(s, r)
      BY <2>3 DEF Existing, SharesKey
    <2> QED
      BY <2>1, <2>2, <2>4 DEF Refusable
  <1> QED
    BY <1>1, <1>2

\* What is refusable stays so: the log only grows, and never by a result that
\* repeats one it holds.
LEMMA RefusableStays ==
  ASSUME CollectorInv, CollectorActs, NEW r, Refusable(r)
  PROVE  Refusable(r)'
  <1>1. CASE ~Allowed(r)
    BY <1>1 DEF Refusable, Allowed
  <1>2. CASE UNCHANGED acceptedLog
    BY <1>2 DEF Refusable, LogResults, Allowed
  <1>3. CASE /\ writing # None /\ acceptedLog' = Append(acceptedLog, RecordOf(writing))
             /\ Allowed(r)
    <2>1. LogResults' = LogResults \cup {writing.result}
      BY <1>3, WriteKeepsReplay
    <2>2. Verdict(index, writing.result, writing.inWindow) = "ACCEPTED" /\ index = LogResults
      BY <1>3 DEF CollectorInv, WritingAdmitted, IndexMatchesLog
    <2>3. \A s \in LogResults : ~SharesKey(s, writing.result)
      BY <2>2, AcceptedSharesNothing
    <2> QED
      BY <1>3, <2>1, <2>3 DEF Refusable, Allowed
  <1> QED
    BY <1>1, <1>2, <1>3, CollectorActsKeep

\* Nothing the log holds is refusable.
LEMMA RefusableIsNotAccepted ==
  ASSUME CollectorInv, NEW r, Refusable(r)
  PROVE  r \notin LogResults
  BY LogAllowed DEF Refusable

\* Steps of the Collector's process: the answers they send.
LEMMA AnswersHaveCause ==
  ASSUME PipelineInv, RefusalsStand, CollectorActs, NEW o \in Observers,
         CollectorStep \/ OpenLog
           \/ \E landing \in Landings : FailWrite(landing) \/ CrashCollector(landing)
  PROVE  /\ response'[o].outcome = "REJECTED" => Refusable(response'[o].result)
         /\ \A i \in 1..Len(tail') : tail'[i].inWindow
  <1>1. /\ tail \in Seq(Call) /\ response \in [Clients -> Answer \cup {NoAnswer, Reset}]
        /\ o \in Clients /\ CollectorInv /\ writing \in Call \cup {None}
    BY PipelineAssumption DEF PipelineInv, CollectorInv, CollectorTypeOK
  <1>2. response[o].outcome = "REJECTED" => Refusable(response[o].result)
    BY DEF RefusalsStand
  <1>3. ASSUME tail # <<>>, tail' = Tail(tail) PROVE \A i \in 1..Len(tail') : tail'[i].inWindow
    BY <1>1, <1>3, HeadAndTail DEF RefusalsStand
  <1>4. ASSUME NEW call \in Call, NEW outcome, Respond(call, outcome), outcome # "REJECTED"
        PROVE  response'[o] = response[o] \/ response'[o].outcome # "REJECTED"
    BY <1>1, <1>4 DEF Respond, Call
  <1>5. CASE RefusePoisoned
    <2>1. tail # <<>> /\ tail' = Tail(tail) /\ Head(tail) \in Call /\ Respond(Head(tail), "ERROR")
      BY <1>1, <1>5, HeadAndTail DEF RefusePoisoned
    <2> QED
      BY <1>2, <1>3, <1>4, <2>1
  <1>6. CASE AnswerWithoutWrite
    <2> DEFINE call == Head(tail)
               verdict == Verdict(index, call.result, call.inWindow)
    <2>1. /\ tail # <<>> /\ tail' = Tail(tail) /\ call \in Call /\ Respond(call, verdict)
          /\ running /\ ~fatalWriteError /\ writing = None
          /\ UNCHANGED acceptedLog
      BY <1>1, <1>6, HeadAndTail DEF AnswerWithoutWrite
    <2>2. call.inWindow /\ call.inWindow \in BOOLEAN
      BY <1>1, <2>1, HeadAndTail DEF RefusalsStand, Call
    <2>3. index = LogResults
      BY <1>1, <2>1 DEF CollectorInv, IndexMatchesLog
    <2>4. verdict = "REJECTED" => Refusable(call.result)
      <3>1. call.inWindow = TRUE
        BY <2>2
      <3> QED
        BY <2>3, <3>1, RejectedHasCause
    <2> HIDE DEF verdict
    <2>5. \/ response'[o] = response[o]
          \/ response'[o] = [outcome |-> verdict, result |-> call.result]
      BY <1>1, <2>1 DEF Respond, Call
    <2> HIDE DEF call
    <2>6. response'[o].outcome = "REJECTED" => Refusable(response'[o].result)
      BY <1>2, <2>4, <2>5
    <2> QED
      BY <1>3, <2>1, <2>6
  <1>7. CASE BeginWrite
    <2>1. tail # <<>> /\ tail' = Tail(tail) /\ UNCHANGED response
      BY <1>7 DEF BeginWrite
    <2> QED
      BY <1>2, <1>3, <2>1
  <1>8. CASE CompleteWrite \/ \E landing \in Landings : FailWrite(landing)
    <2>1. /\ writing \in Call /\ UNCHANGED tail
          /\ \E outcome \in {"ACCEPTED", "ERROR"} : Respond(writing, outcome)
      BY <1>1, <1>8 DEF CompleteWrite, FailWrite
    <2>2. response'[o] = response[o] \/ response'[o].outcome # "REJECTED"
      BY <1>4, <2>1
    <2> QED
      BY <1>2, <2>1, <2>2 DEF RefusalsStand
  <1>9. CASE OpenLog
    <2>1. UNCHANGED <<tail, response>>
      BY <1>9 DEF OpenLog
    <2> QED
      BY <1>2, <2>1 DEF RefusalsStand
  <1>10. CASE \E landing \in Landings : CrashCollector(landing)
    <2>1. tail' = <<>> /\ (response'[o] = response[o] \/ response'[o] = Reset)
      BY <1>1, <1>10 DEF CrashCollector
    <2> QED
      BY <1>2, <2>1 DEF Reset
  <1> QED
    BY <1>5, <1>6, <1>7, <1>8, <1>9, <1>10 DEF CollectorStep

\* What a step must keep.
LEMMA RefusalsKept ==
  ASSUME RefusalsStand, \A r : Refusable(r) => Refusable(r)',
         budget'["keyExpiry"] = 0, keyExpired' = {},
         \A i \in 1..Len(tail') : tail'[i].inWindow,
         \A o \in Observers :
           /\ \/ response'[o] = response[o] \/ response'[o].outcome # "REJECTED"
              \/ Refusable(response'[o].result)
           /\ \A r \in failedContent'[o] : r \in failedContent[o] \/ Refusable(r)
  PROVE  RefusalsStand'
  <1>1. ASSUME NEW o \in Observers
        PROVE  /\ response'[o].outcome = "REJECTED" => Refusable(response'[o].result)
               /\ \A r \in failedContent'[o] : Refusable(r)
    BY DEF RefusalsStand
  <1>2. ASSUME NEW o \in Observers, response'[o].outcome = "REJECTED"
        PROVE  \E r : r = response'[o].result /\ Refusable(r)'
    BY <1>1, <1>2
  <1>3. ASSUME NEW o \in Observers
        PROVE  (response[o].outcome = "REJECTED" => Refusable(response[o].result))'
    BY <1>2 DEF Refusable
  <1>4. ASSUME NEW o \in Observers, NEW r \in failedContent'[o] PROVE Refusable(r)'
    BY <1>1
  <1> QED
    BY <1>3, <1>4 DEF RefusalsStand

\* While no key may expire, no step of the pipeline takes a refusal back.
LEMMA RefusalsStep ==
  ASSUME PipelineInv, RefusalsStand, [Next]_vars
  PROVE  RefusalsStand'
  <1>1. /\ ObserverTypes /\ CollectorInv /\ wire \subseteq Request
        /\ budget \in [FaultKinds -> Nat] /\ budget["keyExpiry"] = 0 /\ keyExpired = {}
        /\ tail \in Seq(Call) /\ response \in [Observers -> Answer \cup {NoAnswer, Reset}]
        /\ Clients = Observers
    BY PipelineAssumption DEF PipelineInv, NetworkTypes, RefusalsStand, CollectorInv, CollectorTypeOK
  <1>2. ASSUME CollectorActs \/ UNCHANGED acceptedLog
        PROVE  \A r : Refusable(r) => Refusable(r)'
    <2>1. CASE UNCHANGED acceptedLog
      BY <2>1 DEF Refusable, LogResults, Allowed
    <2>2. CASE CollectorActs
      BY <1>1, <2>2, RefusableStays
    <2> QED
      BY <1>2, <2>1, <2>2
  <1>3. ~Spend("keyExpiry")
    BY <1>1 DEF Spend
  <1>4. budget'["keyExpiry"] = 0 /\ keyExpired' = {}
    <2>1. ASSUME NEW kind \in FaultKinds, Spend(kind) PROVE budget'["keyExpiry"] = 0
      BY <1>1, <1>3, <2>1 DEF Spend, FaultKinds
    <2> QED
      BY <1>1, <1>3, <2>1 DEF Next, CollectorWorks, CollectorReopens, CollectorWriteFails,
         CollectorCrashes, RequestArrives, RequestRefused, ObserverWorks, ObserverScans,
         ObserverReads, ObserverPosts, ObserverTimesOut, ObserverWriteFails, ObserverCrashes,
         ObserverReopens, SpoolReadFails, ResultSpooled, KeyExpires, FaultKinds, networkVars, vars
  <1>5. CASE \/ CollectorWorks \/ CollectorReopens
             \/ \E landing \in Landings : CollectorWriteFails(landing) \/ CollectorCrashes(landing)
    <2>1. /\ CollectorStep \/ OpenLog
               \/ \E landing \in Landings : FailWrite(landing) \/ CrashCollector(landing)
          /\ UNCHANGED failedContent
      BY <1>5 DEF CollectorWorks, CollectorReopens, CollectorWriteFails, CollectorCrashes,
         observerVars
    <2>2. CollectorActs
      BY <2>1 DEF CollectorActs
    <2>3. ASSUME NEW o \in Observers
          PROVE  /\ response'[o].outcome = "REJECTED" => Refusable(response'[o].result)
                 /\ \A i \in 1..Len(tail') : tail'[i].inWindow
      BY <2>1, <2>2, AnswersHaveCause
    <2>4. \A i \in 1..Len(tail') : tail'[i].inWindow
      <3>1. CASE Observers = {}
        <4>1. Call = {}
          BY <1>1, <3>1 DEF Call
        <4>2. tail' \in Seq(Call)
          BY <1>1, <2>2, CollectorActsKeep DEF CollectorInv, CollectorTypeOK
        <4> QED
          BY <4>1, <4>2
      <3>2. CASE Observers # {}
        BY <2>3, <3>2
      <3> QED
        BY <3>1, <3>2
    <2> QED
      BY <1>2, <1>4, <2>1, <2>2, <2>3, <2>4, RefusalsKept
  <1>6. ASSUME NEW m \in wire, RequestArrives(m)
        PROVE  RefusalsStand'
    <2> DEFINE call == [client |-> m.client, result |-> m.result,
                        inWindow |-> m.client \notin keyExpired, live |-> m.live]
    <2>1. call \in Call /\ Arrive(call) /\ call.inWindow /\ UNCHANGED failedContent
      BY <1>1, <1>6 DEF Call, Request, RequestArrives, observerVars
    <2>2. CollectorActs
      BY <2>1 DEF CollectorActs
    <2>3. tail' = Append(tail, call) /\ UNCHANGED response
      BY <2>1 DEF Arrive
    <2> HIDE DEF call
    <2>4. /\ \A i \in 1..Len(tail) : tail'[i] = tail[i]
          /\ tail'[Len(tail) + 1] = call
          /\ \A i \in 1..Len(tail') : i \in 1..Len(tail) \/ i = Len(tail) + 1
      BY <1>1, <2>1, <2>3
    <2>5. \A i \in 1..Len(tail') : tail'[i].inWindow
      BY <2>1, <2>4 DEF RefusalsStand
    <2> QED
      BY <1>2, <1>4, <2>1, <2>2, <2>3, <2>5, RefusalsKept
  <1>7. ASSUME NEW m \in wire, RequestRefused(m)
        PROVE  RefusalsStand'
    <2>1. /\ UNCHANGED <<acceptedLog, tail, failedContent>>
          /\ \A o \in Observers : response'[o] = response[o] \/ response'[o] = Reset
      BY <1>1, <1>7 DEF RequestRefused, Request, observerVars
    <2>2. Reset.outcome # "REJECTED"
      BY DEF Reset
    <2>3. \A i \in 1..Len(tail') : tail'[i].inWindow
      BY <2>1 DEF RefusalsStand
    <2> QED
      BY <1>2, <1>4, <2>1, <2>2, <2>3, RefusalsKept
  <1>8. ASSUME NEW o \in Observers, ObserverReads(o)
        PROVE  RefusalsStand'
    <2>1. /\ UNCHANGED <<acceptedLog, tail>>
          /\ \A p \in Observers : response'[p] = response[p] \/ response'[p] = NoAnswer
          /\ response[o] # NoAnswer
      BY <1>1, <1>8 DEF ObserverReads, TakeResponse
    <2>2. NoAnswer.outcome # "REJECTED"
      BY DEF NoAnswer
    <2>3. \A i \in 1..Len(tail') : tail'[i].inWindow
      BY <2>1 DEF RefusalsStand
    <2>4. \A p \in Observers : \A r \in failedContent'[p] : r \in failedContent[p] \/ Refusable(r)
      <3>1. CASE response[o].outcome = "REJECTED"
        <4>1. RefusedForGood(o)
          BY <1>8, <3>1 DEF ObserverReads
        <4>2. failedContent' = [failedContent EXCEPT ![o] = @ \cup current[o]]
          BY <4>1 DEF RefusedForGood
        <4>3. current[o] = {response[o].result}
          BY <2>1, <3>1 DEF PipelineInv, InFlight, FlightOf, Answered
        <4>4. Refusable(response[o].result)
          BY <3>1 DEF RefusalsStand
        <4> QED
          BY <1>1, <4>2, <4>3, <4>4 DEF ObserverTypes
      <3>2. CASE response[o].outcome # "REJECTED"
        <4>1. Acknowledged(o) \/ FailedForNow(o)
          BY <1>8, <3>2, Zenon DEF ObserverReads
        <4> QED
          BY <4>1 DEF Acknowledged, FailedForNow
      <3> QED
        BY <3>1, <3>2
    <2> QED
      BY <1>2, <1>4, <2>1, <2>2, <2>3, <2>4, RefusalsKept
  <1>9. ASSUME NEW o \in Observers,
               ObserverTimesOut(o) \/ \E landing \in AppendLandings : ObserverCrashes(o, landing)
        PROVE  RefusalsStand'
    <2>1. HangUp(o) /\ UNCHANGED acceptedLog
      BY <1>9 DEF ObserverTimesOut, ObserverCrashes, HangUp
    <2>2. \A p \in Observers : response'[p] = response[p] \/ response'[p] = NoAnswer
      BY <1>1, <2>1 DEF HangUp
    <2>3. NoAnswer.outcome # "REJECTED"
      BY DEF NoAnswer
    <2>4. \A i \in 1..Len(tail') : tail'[i].inWindow
      <3>1. /\ Len(tail') = Len(tail) /\ Len(tail) \in Nat
            /\ \A i \in 1..Len(tail) : /\ tail[i] \in Call
                                       /\ \/ tail'[i] = tail[i]
                                          \/ tail'[i] = [tail[i] EXCEPT !.live = FALSE]
        BY <1>1, <2>1 DEF HangUp
      <3>2. \A c \in Call : [c EXCEPT !.live = FALSE].inWindow = c.inWindow
        BY DEF Call
      <3>3. \A i \in 1..Len(tail) : tail'[i].inWindow = tail[i].inWindow
        BY <3>1, <3>2
      <3> QED
        BY <3>1, <3>3 DEF RefusalsStand
    <2>5. \A p \in Observers : failedContent'[p] \subseteq failedContent[p]
      <3>1. CASE ObserverTimesOut(o)
        BY <3>1 DEF ObserverTimesOut, FailedForNow
      <3>2. CASE \E landing \in AppendLandings : ObserverCrashes(o, landing)
        BY <1>1, <3>2 DEF ObserverCrashes, CrashObserver, ObserverTypes
      <3> QED
        BY <1>9, <3>1, <3>2
    <2> QED
      BY <1>2, <1>4, <2>1, <2>2, <2>3, <2>4, <2>5, RefusalsKept
  <1>10. ASSUME UNCHANGED <<acceptedLog, tail, response>>,
                \A p \in Observers : failedContent'[p] \subseteq failedContent[p]
         PROVE  RefusalsStand'
    <2>1. \A i \in 1..Len(tail') : tail'[i].inWindow
      BY <1>10 DEF RefusalsStand
    <2> QED
      BY <1>2, <1>4, <1>10, <2>1, RefusalsKept
  <1>11. ASSUME NEW o \in Observers,
                \/ ObserverScans(o) \/ ObserverReopens(o)
                \/ \E f \in SpoolFiles : ObserverPosts(o, f)
                \/ SpoolReadFails(o)
                \/ \E landing \in AppendLandings : ObserverWriteFails(o, landing)
         PROVE  RefusalsStand'
    <2>1. UNCHANGED <<acceptedLog, tail, response>>
      BY <1>11 DEF ObserverScans, ObserverReopens, ObserverPosts, ObserverWriteFails,
         SpoolReadFails, collectorVars
    <2>2. \A p \in Observers : failedContent'[p] \subseteq failedContent[p]
      <3>1. CASE RecordDelivery(o)
        BY <1>1, <3>1 DEF RecordDelivery, ObserverTypes
      <3>2. CASE ~RecordDelivery(o)
        BY <1>11, <3>2 DEF ObserverScans, ObserverReopens, ObserverPosts, ObserverWriteFails,
           SpoolReadFails, StartScan, EndScan, SkipDelivered, SkipFailed, ScanThrows, OpenRuntime,
           PostResult, FailRecord
      <3> QED
        BY <3>1, <3>2
    <2> QED
      BY <1>10, <2>1, <2>2
  <1>12. CASE \/ \E f \in SpoolFiles : ResultSpooled(f)
              \/ \E o \in Observers : KeyExpires(o)
              \/ UNCHANGED vars
    <2>1. UNCHANGED <<acceptedLog, tail, response, failedContent>>
      BY <1>12 DEF ResultSpooled, WriteSpoolFile, KeyExpires, collectorVars, observerVars, vars
    <2> QED
      BY <1>10, <2>1
  <1> QED
    BY <1>5, <1>6, <1>7, <1>8, <1>9, <1>11, <1>12 DEF Next, ObserverWorks

LEMMA RefusalsInit ==
  ASSUME FaultBudget["keyExpiry"] = 0
  PROVE  Init => RefusalsStand
  BY PipelineAssumption DEF Init, CollectorInit, ObserverInit, RefusalsStand, NoAnswer

\* While no key expires, a result the Collector's log holds is never refused
\* for good to its observer: neither a retry nor a late duplicate of the
\* request, nor a restart of the Collector, turns acceptance into refusal.
THEOREM PipelineAcceptedNeverRefused ==
  ASSUME FaultBudget["keyExpiry"] = 0
  PROVE  Spec => []AcceptedNeverRefused
<1>1. Init => PipelineInv /\ RefusalsStand
  BY PipelineInitInv, RefusalsInit
<1>2. (PipelineInv /\ RefusalsStand) /\ [Next]_vars => (PipelineInv /\ RefusalsStand)'
  BY PipelineStepKeeps, RefusalsStep
<1>3. PipelineInv /\ RefusalsStand => AcceptedNeverRefused
  BY RefusableIsNotAccepted DEF PipelineInv, RefusalsStand, AcceptedNeverRefused
<1> QED
  BY <1>1, <1>2, <1>3, PTL DEF Spec

\* An observer and the Collector agree, whatever times out, is lost, comes late
\* or dies: answers meet their posts, the log of deliveries reopens, and what
\* is accepted is not refused.  The two conditions are the two disagreements
\* the code has: a receipt whose write fails, and a key that expires.
THEOREM PipelineObserversAgree ==
  ASSUME FaultBudget["observerDisk"] = 0, FaultBudget["keyExpiry"] = 0
  PROVE  Spec => []ObserversAgree
<1>1. (ResponseMatchesPost /\ DeliveryLogReopens /\ AcceptedNeverRefused) => ObserversAgree
  BY DEF ObserversAgree
<1> QED
  BY <1>1, PipelineAnswersMatch, PipelineReceiptsReopen, PipelineAcceptedNeverRefused, PTL

-----------------------------------------------------------------------------
(***************************************************************************)
(* The pipeline implements AcceptedLedger.                                 *)
(***************************************************************************)
Entries == [i \in 1..Len(acceptedLog) |-> acceptedLog[i].result]
Receipts == UNION {RecordedFiles(o) : o \in Observers}

\* A write that lands accepts a result that shares no key with an earlier one.
LEMMA WriteAccepts ==
  ASSUME PipelineInv, writing # None, acceptedLog' = Append(acceptedLog, RecordOf(writing)),
         UNCHANGED deliveryLog
  PROVE  \E r \in Results : Ledger!Accept(r)
  <1>1. /\ writing \in Call /\ acceptedLog \in Seq(Record) /\ RecordOf(writing) \in Record
        /\ writing.result \in Results /\ RecordOf(writing).result = writing.result
    BY WritingIsNumbered, RecordOfCall
       DEF PipelineInv, CollectorInv, CollectorTypeOK, Call, RecordOf
  <1>2. \A i \in 1..Len(Entries) : ~SharesKey(Entries[i], writing.result)
    <2>1. index = LogResults /\ Verdict(index, writing.result, writing.inWindow) = "ACCEPTED"
      BY DEF PipelineInv, CollectorInv, WritingAdmitted, IndexMatchesLog
    <2>2. \A s \in LogResults : ~SharesKey(s, writing.result)
      BY <2>1, AcceptedSharesNothing
    <2> QED
      BY <1>1, <2>2 DEF Entries, LogResults
  <1>3. Entries' = Append(Entries, writing.result)
    <2>1. /\ Len(acceptedLog') = Len(acceptedLog) + 1 /\ Len(acceptedLog) \in Nat
          /\ \A i \in 1..Len(acceptedLog) : acceptedLog'[i] = acceptedLog[i]
          /\ acceptedLog'[Len(acceptedLog) + 1] = RecordOf(writing)
      BY <1>1, AppendedRecord
    <2>2. Entries \in Seq(Results) /\ Len(Entries) = Len(acceptedLog)
      <3>1. \A i \in 1..Len(acceptedLog) : acceptedLog[i].result \in Results
        <4>1. \A i \in 1..Len(acceptedLog) : acceptedLog[i] \in Record
          BY <1>1
        <4>2. \A rec \in Record : rec.result \in Results
          BY DEF Record
        <4> QED
          BY <4>1, <4>2
      <3>2. Entries \in [1..Len(acceptedLog) -> Results]
        BY <3>1 DEF Entries
      <3> QED
        BY <2>1, <3>2, IsASeq
    <2>3. /\ Len(Append(Entries, writing.result)) = Len(acceptedLog) + 1
          /\ \A i \in 1..Len(acceptedLog) : Append(Entries, writing.result)[i] = Entries[i]
          /\ Append(Entries, writing.result)[Len(acceptedLog) + 1] = writing.result
          /\ Append(Entries, writing.result) \in Seq(Results)
      BY <1>1, <2>1, <2>2
    <2>4. /\ Entries' = [i \in 1..(Len(acceptedLog) + 1) |-> acceptedLog'[i].result]
      BY <2>1 DEF Entries
    <2>5. \A i \in 1..(Len(acceptedLog) + 1) :
             i # Len(acceptedLog) + 1 => i \in 1..Len(acceptedLog)
      BY <2>1
    <2>6. \A i \in 1..(Len(acceptedLog) + 1) :
             acceptedLog'[i].result = Append(Entries, writing.result)[i]
      BY <1>1, <2>1, <2>3, <2>5 DEF Entries
    <2>7. Append(Entries, writing.result)
             = [i \in 1..(Len(acceptedLog) + 1) |-> Append(Entries, writing.result)[i]]
      BY <2>3
    <2> QED
      BY <2>4, <2>6, <2>7
  <1>4. Receipts' = Receipts
    BY DEF Receipts, RecordedFiles
  <1> QED
    BY <1>1, <1>2, <1>3, <1>4 DEF Ledger!Accept, Entries, Receipts

\* A line that lands in a delivery log is a receipt for an accepted result.
LEMMA LineGivesReceipt ==
  ASSUME PipelineInv, UNCHANGED acceptedLog, NEW o \in Observers, NEW f \in current[o],
         phase[o] = "recording", NEW landing, AppendLine(o, f, landing)
  PROVE  UNCHANGED <<Entries, Receipts>> \/ \E r \in Results : Ledger!GiveReceipt(r)
  <1>1. f \in Results /\ f \in LogResults /\ f \in SpoolFiles /\ ObserverTypes
    BY PipelineAssumption DEF PipelineInv, ObserverTypes, Durable
  <1>2. Entries' = Entries
    BY DEF Entries
  <1>3. \E i \in 1..Len(Entries) : Entries[i] = f
    BY <1>1 DEF Entries, LogResults, PipelineInv, CollectorInv, CollectorTypeOK
  <1>4. CASE \A p \in Observers : RecordedFiles(p)' = RecordedFiles(p)
    BY <1>2, <1>4 DEF Receipts
  <1>5. CASE RecordedFiles(o)' = RecordedFiles(o) \cup {f}
             /\ \A p \in Observers : p # o => RecordedFiles(p)' = RecordedFiles(p)
    <2>1. Receipts' = Receipts \cup {f}
      BY <1>5 DEF Receipts
    <2> QED
      BY <1>1, <1>2, <1>3, <2>1 DEF Ledger!GiveReceipt, Entries, Receipts
  <1> QED
    BY <1>1, <1>4, <1>5, LineAppended

LEMMA LedgerStep ==
  ASSUME PipelineInv, [Next]_vars
  PROVE  UNCHANGED <<Entries, Receipts>> \/ Ledger!LedgerNext
  <1>1. CASE UNCHANGED <<acceptedLog, deliveryLog>>
    BY <1>1 DEF Entries, Receipts, RecordedFiles
  <1>2. CASE writing # None /\ acceptedLog' = Append(acceptedLog, RecordOf(writing))
             /\ UNCHANGED deliveryLog
    BY <1>2, WriteAccepts DEF Ledger!LedgerNext
  <1>3. CASE \E o \in Observers : \E f \in current[o] : \E landing :
                phase[o] = "recording" /\ AppendLine(o, f, landing) /\ UNCHANGED acceptedLog
    BY <1>3, LineGivesReceipt DEF Ledger!LedgerNext
  <1>4. CASE \/ CollectorWorks \/ CollectorReopens
             \/ \E landing \in Landings : CollectorWriteFails(landing) \/ CollectorCrashes(landing)
             \/ \E m \in wire : RequestArrives(m)
    <2>1. UNCHANGED deliveryLog
      BY <1>4 DEF CollectorWorks, CollectorReopens, CollectorWriteFails, CollectorCrashes,
                  RequestArrives, observerVars
    <2>2. \/ UNCHANGED acceptedLog
          \/ writing # None /\ acceptedLog' = Append(acceptedLog, RecordOf(writing))
      BY <1>4 DEF CollectorWorks, CollectorReopens, CollectorWriteFails, CollectorCrashes,
                  RequestArrives, CollectorStep, RefusePoisoned, AnswerWithoutWrite, BeginWrite,
                  CompleteWrite, FailWrite, CrashCollector, Lands, OpenLog, Arrive
    <2> QED
      BY <1>1, <1>2, <2>1, <2>2
  <1>5. ASSUME NEW o \in Observers, (ObserverScans(o) /\ RecordDelivery(o))
                 \/ \E landing \in AppendLandings : ObserverWriteFails(o, landing)
        PROVE  UNCHANGED <<Entries, Receipts>> \/ Ledger!LedgerNext
    <2>1. UNCHANGED acceptedLog /\ phase[o] = "recording"
          /\ \E f \in current[o] : \E landing : AppendLine(o, f, landing)
      BY <1>5 DEF ObserverScans, ObserverWriteFails, RecordDelivery, FailRecord, collectorVars
    <2> QED
      BY <1>3, <2>1
  <1>6. ASSUME NEW o \in Observers, NEW landing \in AppendLandings, ObserverCrashes(o, landing)
        PROVE  UNCHANGED <<Entries, Receipts>> \/ Ledger!LedgerNext
    <2>1. UNCHANGED acceptedLog
      BY <1>6 DEF ObserverCrashes, HangUp
    <2>2. \/ phase[o] = "recording" /\ \E f \in current[o] : AppendLine(o, f, landing)
          \/ UNCHANGED deliveryLog
      BY <1>6 DEF ObserverCrashes, CrashObserver, diskVars
    <2> QED
      BY <1>1, <1>3, <2>1, <2>2
  <1>7. CASE \E o \in Observers : (ObserverScans(o) /\ ~RecordDelivery(o)) \/ SpoolReadFails(o)
    BY <1>1, <1>7 DEF ObserverScans, SpoolReadFails, StartScan, EndScan, SkipDelivered,
       SkipFailed, ScanThrows, collectorVars, diskVars
  <1>8. CASE \/ \E o \in Observers, f \in SpoolFiles : ObserverPosts(o, f)
             \/ \E o \in Observers : ObserverReads(o) \/ ObserverTimesOut(o)
    BY <1>1, <1>8 DEF ObserverPosts, PostResult, ObserverReads, TakeResponse, Acknowledged,
       RefusedForGood, FailedForNow, ObserverTimesOut, HangUp, collectorVars, diskVars
  <1>9. CASE \/ \E m \in wire : RequestRefused(m)
             \/ \E o \in Observers : ObserverReopens(o) \/ KeyExpires(o)
             \/ \E f \in SpoolFiles : ResultSpooled(f)
             \/ UNCHANGED vars
    BY <1>1, <1>9 DEF RequestRefused, ObserverReopens, OpenRuntime, KeyExpires, ResultSpooled,
       WriteSpoolFile, observerVars, collectorVars, diskVars, vars
  <1> QED
    BY <1>4, <1>5, <1>6, <1>7, <1>8, <1>9 DEF Next, ObserverWorks

\* The pipeline implements the ledger: observers, lost answers and failures of
\* both sides add nothing to what an append-only ledger with receipts can do.
THEOREM PipelineImplementsLedger == Spec => ImplementsLedger
<1>1. Init => Ledger!LedgerInit
  <2> SUFFICES ASSUME Init PROVE Ledger!LedgerInit
    OBVIOUS
  <2>1. acceptedLog = <<>> /\ \A o \in Observers : deliveryLog[o] = <<>>
    BY DEF Init, CollectorInit, ObserverInit
  <2>2. UNION {RecordedFiles(o) : o \in Observers} = {}
    BY <2>1 DEF RecordedFiles
  <2>3. [i \in 1..Len(acceptedLog) |-> acceptedLog[i].result] = <<>>
    BY <2>1
  <2> QED
    BY <2>2, <2>3 DEF Ledger!LedgerInit
<1>2. PipelineInv /\ [Next]_vars => [Ledger!LedgerNext]_(Ledger!ledgerVars)
  BY LedgerStep DEF Ledger!ledgerVars, Entries, Receipts
<1> QED
  BY <1>1, <1>2, PipelineInvariant, PTL DEF Spec, ImplementsLedger, Ledger!LedgerSpec
=============================================================================
