----------------------------- MODULE CanarySoak -----------------------------
(***************************************************************************)
(* The canary soaks of scripts/run-grant-m1-canary-soak.mjs (an observer's *)
(* readiness) and scripts/run-grant-m1-collector-canary-soak.mjs (the      *)
(* Collector's health): one process samples a service on its own host for  *)
(* a day, appends every sample to a fresh file, and judges the samples at  *)
(* the end.  Intervals, timeouts and thresholds are counted in ticks.      *)
(***************************************************************************)
EXTENDS Integers, Sequences, FiniteSets

CONSTANTS
  SoakInterval,     \* --interval-seconds
  SoakDuration,     \* --duration-seconds
  SoakTimeout,      \* --request-timeout-ms
  CoveragePercent,  \* 95 in the code
  ReadyPercent,     \* 99 in the code
  SoakEnd,          \* bound: ticks of a run
  SoakTroubles      \* bound: changes of the service, clock steps and signals

ASSUME SoakAssumption ==
  /\ {SoakInterval, SoakDuration, SoakTimeout, SoakEnd} \subseteq Nat \ {0}
  /\ {CoveragePercent, ReadyPercent} \subseteq 0..100
  /\ SoakDuration <= SoakEnd /\ SoakTroubles \in Nat

VARIABLES
  subject,     \* which of the two soaks this is
  service,     \* "ready", "down", or "other": another observer answers the port
  stored,      \* how many results the Collector reports
  soakClock,   \* performance.now() since the start
  soakWall,    \* new Date() of the host
  soakPhase,   \* what the runner is doing
  soakStop,    \* stop.signal.aborted
  asked,       \* the request under way: its start and its captured_at
  wakeAt,      \* when the delay ends
  soakLog,     \* the appended samples
  soakVerdict, \* the summary file
  downTicks,   \* history: the ticks from whose beginning to whose end, both
               \* included, the service was not ready
  soakTroubles

soakEnvironment == <<subject, service, stored, soakClock, soakWall, downTicks, soakTroubles>>
soakVars == <<soakEnvironment, soakPhase, soakStop, asked, wakeAt, soakLog, soakVerdict>>

MaxGap == 3 * SoakInterval
NoCount == -1
NotAsked == [since |-> 0, at |-> 0]

\* A sample: its captured_at, its elapsed_ms, whether it was ready, whether it
\* named another observer, and the count of a Collector that was answering.
SampleOf(answer, at) ==
  [at |-> at, elapsed |-> soakClock, ready |-> answer = "ready",
   stranger |-> subject = "observer" /\ answer = "other",
   count |-> IF subject = "collector" /\ answer = "ready" THEN stored ELSE NoCount]

Last(s) == s[Len(s)]
Gap(s, i) == s[i].elapsed - (IF i = 1 THEN 0 ELSE s[i - 1].elapsed)

\* The evaluation refuses to judge samples whose times do not increase.
Judgeable(s) ==
  \A i \in 2..Len(s) : s[i].at > s[i - 1].at /\ s[i].elapsed > s[i - 1].elapsed

\* previousStoredCount survives the samples without a count.
Regressions(s) ==
  {i \in 1..Len(s) : /\ s[i].count # NoCount
                     /\ \E j \in 1..(i - 1) :
                          /\ s[j].count > s[i].count
                          /\ \A k \in (j + 1)..(i - 1) : s[k].count = NoCount}

\* Faulty variant: the runner's timer is trusted for the spacing of the samples.
BlockersWithoutGap(s) ==
  LET expected == Last(s).elapsed \div SoakInterval + 1
      ready == Cardinality({i \in 1..Len(s) : s[i].ready})
      raised == [duration |-> Last(s).elapsed < SoakDuration,
                 coverage |-> 100 * Len(s) < CoveragePercent * expected,
                 readiness |-> 100 * ready < ReadyPercent * Len(s),
                 identity |-> \E i \in 1..Len(s) : s[i].stranger,
                 storage |-> Regressions(s) # {}]
  IN {b \in DOMAIN raised : raised[b]}

Blockers(s) ==
  LET expected == Last(s).elapsed \div SoakInterval + 1
      ready == Cardinality({i \in 1..Len(s) : s[i].ready})
      raised == [duration |-> Last(s).elapsed < SoakDuration,
                 coverage |-> 100 * Len(s) < CoveragePercent * expected,
                 readiness |-> 100 * ready < ReadyPercent * Len(s),
                 identity |-> \E i \in 1..Len(s) : s[i].stranger,
                 gap |-> \E i \in 1..Len(s) : Gap(s, i) > MaxGap,
                 storage |-> Regressions(s) # {}]
  IN {b \in DOMAIN raised : raised[b]}

SoakInit ==
  /\ subject \in {"observer", "collector"}
  /\ service = "ready" /\ stored = 1
  /\ soakClock = 0 /\ soakWall = 1
  /\ soakPhase = "capture" /\ soakStop = FALSE
  /\ asked = NotAsked /\ wakeAt = 0
  /\ soakLog = <<>> /\ soakVerdict = "none"
  /\ downTicks = {} /\ soakTroubles = 0

-----------------------------------------------------------------------------
\* elapsed_ms is taken when the answer has been read, before it is written.
Sampled(answer, at) ==
  /\ soakLog' = Append(soakLog, SampleOf(answer, at))
  /\ soakPhase' = "write" /\ asked' = NotAsked
  /\ UNCHANGED <<soakEnvironment, soakStop, wakeAt, soakVerdict>>

\* captureSample(): the time of the wall clock is taken before the request.  A
\* signal seen by now makes the sample ABORTED, without a request.
CaptureStarts ==
  /\ soakPhase = "capture"
  /\ \/ soakStop /\ Sampled("aborted", soakWall)
     \/ /\ ~soakStop
        /\ asked' = [since |-> soakClock, at |-> soakWall] /\ soakPhase' = "request"
        /\ UNCHANGED <<soakEnvironment, soakStop, wakeAt, soakLog, soakVerdict>>

ServiceAnswers == soakPhase = "request" /\ Sampled(service, asked.at)

\* A timeout or a network error, whatever the service is.
RequestLost == soakPhase = "request" /\ Sampled("lost", asked.at)

\* The line is written and synced.  The clock is read again after that: it
\* decides the end of the run, and the last delay is cut to the duration.
RunnerContinues ==
  /\ soakPhase = "write"
  /\ IF soakClock >= SoakDuration \/ soakStop
     THEN soakPhase' = "evaluate" /\ wakeAt' = wakeAt
     ELSE /\ soakPhase' = "delay"
          /\ wakeAt' = IF soakClock + SoakInterval < SoakDuration
                       THEN soakClock + SoakInterval ELSE SoakDuration
  /\ UNCHANGED <<soakEnvironment, soakStop, asked, soakLog, soakVerdict>>

DelayEnds ==
  /\ soakPhase = "delay" /\ (soakStop \/ soakClock >= wakeAt)
  /\ soakPhase' = "capture" /\ wakeAt' = 0
  /\ UNCHANGED <<soakEnvironment, soakStop, asked, soakLog, soakVerdict>>

\* Without a judgement there is no summary file at all.
SoakEvaluated ==
  /\ soakPhase = "evaluate"
  /\ soakVerdict' = IF ~Judgeable(soakLog) THEN "unjudged"
                ELSE IF Blockers(soakLog) = {} THEN "admitted" ELSE "rejected"
  /\ soakPhase' = "closed"
  /\ UNCHANGED <<soakEnvironment, soakStop, asked, wakeAt, soakLog>>

\* SIGINT or SIGTERM.
SoakSignalled ==
  /\ soakPhase # "closed" /\ ~soakStop /\ soakTroubles < SoakTroubles
  /\ soakStop' = TRUE /\ soakTroubles' = soakTroubles + 1
  /\ UNCHANGED <<subject, service, stored, soakClock, soakWall, downTicks>>
  /\ UNCHANGED <<soakPhase, asked, wakeAt, soakLog, soakVerdict>>

\* The service is back; that is no trouble.
SoakHostRecovers ==
  /\ soakPhase # "closed" /\ service # "ready"
  /\ service' = "ready" /\ downTicks' = downTicks \ {soakClock - 1}
  /\ UNCHANGED <<subject, stored, soakClock, soakWall, soakTroubles>>
  /\ UNCHANGED <<soakPhase, soakStop, asked, wakeAt, soakLog, soakVerdict>>

\* The host: the service fails or is another observer's, loses or gains a
\* result, and the wall clock is set back; each is a trouble.
SoakHostMoves ==
  /\ soakPhase # "closed" /\ soakTroubles < SoakTroubles
  /\ soakTroubles' = soakTroubles + 1
  /\ \/ /\ service' \in {"down", "other"} \ {service}
        /\ service' = "other" => subject = "observer"
        /\ UNCHANGED <<stored, soakWall>>
     \/ subject = "collector" /\ stored' \in {stored - 1, stored + 1} \cap Nat
        /\ UNCHANGED <<service, soakWall>>
     \/ soakWall > 1 /\ soakWall' = soakWall - 1 /\ UNCHANGED <<service, stored>>
  /\ UNCHANGED <<subject, soakClock, downTicks>>
  /\ UNCHANGED <<soakPhase, soakStop, asked, wakeAt, soakLog, soakVerdict>>

\* Time passes at any point, the write of a sample included, but not past the
\* timeout of a request, which covers the reading of its answer.
SoakTick ==
  /\ soakPhase # "closed" /\ soakClock < SoakEnd
  /\ soakPhase = "request" => soakClock < asked.since + SoakTimeout
  /\ soakClock' = soakClock + 1 /\ soakWall' = soakWall + 1
  /\ downTicks' = IF service = "ready" THEN downTicks ELSE downTicks \cup {soakClock}
  /\ UNCHANGED <<subject, service, stored, soakTroubles>>
  /\ UNCHANGED <<soakPhase, soakStop, asked, wakeAt, soakLog, soakVerdict>>

SoakNext ==
  \/ CaptureStarts \/ ServiceAnswers \/ RequestLost
  \/ RunnerContinues \/ DelayEnds \/ SoakEvaluated
  \/ SoakSignalled \/ SoakHostRecovers \/ SoakHostMoves \/ SoakTick

SoakSpec == SoakInit /\ [][SoakNext]_soakVars

-----------------------------------------------------------------------------
SoakTypeOK ==
  /\ soakPhase \in {"capture", "request", "write", "delay", "evaluate", "closed"}
  /\ soakVerdict \in {"none", "unjudged", "admitted", "rejected"}
  /\ soakClock \in 0..SoakEnd /\ downTicks \subseteq 0..SoakEnd
  /\ \A i \in 1..Len(soakLog) : soakLog[i].elapsed \in 0..SoakEnd

\* An outage that lasted for three intervals and one request, before the last
\* sample of an admitted run, left a sample that was not ready: the gap rule
\* leaves no room between two probes.
LongOutageIsSeen ==
  soakVerdict = "admitted" =>
    \A t \in 0..SoakEnd :
      LET longest == MaxGap + SoakTimeout
      IN (t..(t + longest - 1) \subseteq downTicks /\ t + longest <= Last(soakLog).elapsed)
           => \E i \in 1..Len(soakLog) : ~soakLog[i].ready

\* In an admitted run of the Collector no sample reports fewer results than any
\* sample before it, however many samples without an answer lie between; and no
\* sample of an admitted run came from another observer.
AdmittedKeptItsResults ==
  soakVerdict = "admitted" =>
    \A i, j \in 1..Len(soakLog) :
      /\ ~soakLog[i].stranger
      /\ (i < j /\ NoCount \notin {soakLog[i].count, soakLog[j].count})
           => soakLog[i].count <= soakLog[j].count

\* A run ends without any summary only if the wall clock was set back, or if a
\* signal cut a delay so short that two samples carry the same millisecond; and no
\* run is admitted before its time.
RunsAreJudged ==
  /\ soakVerdict = "unjudged" => soakStop \/ soakWall < soakClock + 1
  /\ soakVerdict = "admitted" => Last(soakLog).elapsed >= SoakDuration

\* What an admitted soak stands for, over any spacing of the samples, outages, lost
\* requests, losses of results and clock steps.
AdmissionIsEarned ==
  LongOutageIsSeen /\ AdmittedKeptItsResults /\ RunsAreJudged
=============================================================================
