------------------------- MODULE ObservationProofs -------------------------
(***************************************************************************)
(* Proofs about what is concluded from three readers of the ledger: by the *)
(* observation worker of a milestone and by the telemetry of a             *)
(* transaction, for any liars, ledgers, deadlines and faults.              *)
(***************************************************************************)
EXTENDS ObservationWorker, Telemetry, Integers, FiniteSetTheorems, SequenceTheorems,
        WellFoundedInduction, TLAPS

----------------------------------------------------------------------------
\* Every set of naturals has a least element.
LEMMA LeastNatural ==
  ASSUME NEW T \in SUBSET Nat, T # {} PROVE \E m \in T : \A n \in T : m <= n
<1> DEFINE Less == {ss \in Nat \X Nat : ss[1] < ss[2]}
<1>1. IsWellFoundedOn(Less, Nat)
  BY NatLessThanWellFounded DEF OpToRel
<1>2. \E x \in T : \A y \in T : <<y, x>> \notin Less
  BY <1>1, WFMin, Zenon
<1>3. \A x, y \in Nat : <<y, x>> \in Less <=> y < x
  OBVIOUS
<1>4. \A x, y \in Nat : ~(y < x) => x <= y
  OBVIOUS
<1>5. PICK x \in T : \A y \in T : <<y, x>> \notin Less
  BY <1>2
<1> HIDE DEF Less
<1>6. \A y \in T : ~(y < x)
  BY <1>3, <1>5
<1>7. \A y \in T : x <= y
  BY <1>4, <1>6
<1> QED BY <1>7

----------------------------------------------------------------------------
(* The observation worker.                                                 *)

ResultRecord == [state : {"written"}, verdict : Verdicts, claims : [WorkerReaders -> Claims],
                 decidedAt : 0 .. WorkerEnd]

WorkerTypes ==
  /\ workerClock \in 0 .. WorkerEnd
  /\ workerPc \in {"assigned", "loop", "reading", "judging", "sleeping", "decided",
                    "written", "done", "dead", "refused"}
  /\ startedAt \in 0 .. WorkerEnd /\ pollIndex \in Nat /\ observedAt \in 0 .. WorkerEnd
  /\ rawOpened \in BOOLEAN /\ rawLog \in Seq(RawRecords)
  /\ latestClaims \in [WorkerReaders -> Claims]
  /\ seenOnLedger \in BOOLEAN
  /\ verdict \in Verdicts
  /\ Cardinality(verdict.supporting) = IF verdict = NoVerdict THEN 0 ELSE 2
  /\ resultFile \in {NoFile, TornFile} \union ResultRecord
  /\ completion \in Terminals \union {NotCompleted}
  /\ onChain \in LedgerStates /\ span \in SUBSET LedgerStates
  /\ mishaps \in 0 .. WorkerMishaps /\ setBack \in BOOLEAN

\* The last poll of the log is that of the latest claims, and the earlier ones
\* decided nothing.
LastPoll ==
  /\ Len(rawLog) > 0
  /\ rawLog[Len(rawLog)].quorum = LedgerQuorum(latestClaims)
  /\ rawLog[Len(rawLog)].seen = SomeStatus(latestClaims)
EarlierUndecided == \A i \in 1 .. Len(rawLog) - 1 : Derived(rawLog, i) = NoVerdict
AllUndecided == \A i \in 1 .. Len(rawLog) : Derived(rawLog, i) = NoVerdict
LastDerived == Derived(rawLog, Len(rawLog))
Judged == IF LastDerived = NoVerdict THEN DeadlineVerdict(latestClaims) ELSE LastDerived

BetweenPolls == workerPc \in {"loop", "reading", "sleeping"}
Deciding == workerPc \in {"decided", "written"}

\* One run's log, and the result it leads to.
RunStory ==
  /\ ~rawOpened => rawLog = <<>> /\ workerPc \in {"assigned", "dead", "refused"}
  /\ workerPc = "assigned" => ~rawOpened
  /\ \A i \in 1 .. Len(rawLog) : rawLog[i].index = i - 1
  /\ BetweenPolls =>
       /\ pollIndex = Len(rawLog) /\ AllUndecided
       /\ (seenOnLedger <=> \E j \in 1 .. Len(rawLog) : rawLog[j].seen)
  /\ workerPc = "judging" =>
       /\ LastPoll /\ EarlierUndecided /\ pollIndex = Len(rawLog) - 1
       /\ (seenOnLedger <=> SeenBefore(rawLog, Len(rawLog)))
  /\ Deciding => LastPoll /\ EarlierUndecided /\ verdict = Judged

ResultStory ==
  /\ HasResult =>
       /\ workerPc \in {"written", "done", "dead", "refused"}
       /\ Len(rawLog) > 0 /\ EarlierUndecided
       /\ resultFile.verdict = Judged /\ resultFile.claims = latestClaims
  /\ workerPc = "written" => HasResult /\ resultFile.verdict = verdict
  /\ completion # NotCompleted =>
       workerPc = "done" /\ HasResult /\ completion = resultFile.verdict.terminal

\* A clock that was not set back.
ClockStory ==
  ~setBack =>
    /\ rawOpened => IssuedAt <= startedAt /\ startedAt <= workerClock
    /\ \A i \in 1 .. Len(rawLog) :
         /\ startedAt <= rawLog[i].at /\ rawLog[i].at <= workerClock
         /\ i > 1 => rawLog[i - 1].at <= rawLog[i].at
    /\ workerPc = "reading" =>
         /\ startedAt <= observedAt /\ observedAt <= workerClock
         /\ Len(rawLog) > 0 => rawLog[Len(rawLog)].at <= observedAt
    /\ Deciding /\ LastDerived = NoVerdict => workerClock >= startedAt + ObservationDeadlineMs
    /\ HasResult =>
         /\ \A i \in 1 .. Len(rawLog) : rawLog[i].at <= resultFile.decidedAt
         /\ LastDerived = NoVerdict => resultFile.decidedAt >= startedAt + ObservationDeadlineMs

\* What is true of the ledger, and stays so.
LedgerShows(terminal) ==
  /\ terminal = "FINALIZED" => onChain.level = 3 /\ ~onChain.failed
  /\ terminal = "CONFIRMED" => onChain.level >= 2 /\ ~onChain.failed
  /\ terminal = "OBSERVED_EXECUTION_FAILED" => onChain.level > 0 /\ onChain.failed
  /\ terminal = "EXPIRED" => onChain.over

Precedes(s) ==
  /\ s.level <= onChain.level
  /\ s.level > 0 => (s.failed <=> onChain.failed)
  /\ s.over => onChain.over

LedgerStory ==
  /\ \A s \in span : Precedes(s)
  /\ Cardinality(LyingWorkerReaders) < 2 =>
       /\ \A i \in 1 .. Len(rawLog) : LedgerShows(rawLog[i].quorum.terminal)
       /\ LedgerShows(DeadlineVerdict(latestClaims).terminal)

WorkerInv == WorkerTypes /\ RunStory /\ ResultStory /\ ClockStory /\ LedgerStory

----------------------------------------------------------------------------
\* The readers are three.
LEMMA ThreeReaders ==
  /\ WorkerReaders = 1 .. 3 /\ IsFiniteSet(WorkerReaders) /\ Cardinality(WorkerReaders) = 3
<1>1. 1 \in Int /\ 3 \in Int /\ 1 .. 3 = WorkerReaders
  BY DEF WorkerReaders
<1>2. IsFiniteSet(1 .. 3) /\ Cardinality(1 .. 3) = IF 1 > 3 THEN 0 ELSE 3 - 1 + 1
  BY ONLY 1 \in Int, 3 \in Int, FS_Interval
<1> QED BY <1>1, <1>2

\* Two of a set of three are named, and no more.
LEMMA TwoNamed ==
  ASSUME NEW S \in SUBSET WorkerReaders, Cardinality(S) >= 2
  PROVE  FirstTwo(S) \in SUBSET WorkerReaders /\ Cardinality(FirstTwo(S)) = 2
<1> USE DEF WorkerReaders
<1>2. /\ Cardinality({}) = 0 /\ Cardinality({1}) = 1 /\ Cardinality({2}) = 1 /\ Cardinality({3}) = 1
      /\ Cardinality({1, 2}) = 2 /\ Cardinality({1, 3}) = 2 /\ Cardinality({2, 3}) = 2
  <2>1. ASSUME NEW x, NEW y, x # y PROVE Cardinality({x, y}) = 2
    <3>1. {x, y} = {x} \union {y} /\ y \notin {x}
      BY <2>1
    <3>2. IsFiniteSet({x}) /\ Cardinality({x}) = 1
      BY FS_Singleton
    <3>3. Cardinality({x} \union {y}) = Cardinality({x}) + 1
      BY <3>1, <3>2, FS_AddElement
    <3> QED BY <3>1, <3>2, <3>3
  <2>2. Cardinality({1, 2}) = 2 /\ Cardinality({1, 3}) = 2 /\ Cardinality({2, 3}) = 2
    <3>1. 1 # 2 /\ 1 # 3 /\ 2 # 3
      OBVIOUS
    <3> QED BY <2>1, <3>1, Zenon
  <2>3. \A x : Cardinality({x}) = 1
    BY FS_Singleton
  <2>4. Cardinality({}) = 0
    BY FS_EmptySet
  <2> QED BY <2>2, <2>3, <2>4
<1>3. S \in {{1, 2}, {1, 3}, {2, 3}, {1, 2, 3}}
  <2>1. S \in SUBSET {1, 2, 3}
    OBVIOUS
  <2>2. CASE 1 \notin S
    <3>1. S = {} \/ S = {2} \/ S = {3} \/ S = {2, 3}
      BY <2>1, <2>2
    <3>2. S = {} => Cardinality(S) = 0
      BY <1>2
    <3>3. S = {2} \/ S = {3} => Cardinality(S) = 1
      BY <1>2
    <3> QED BY <3>1, <3>2, <3>3
  <2>3. CASE 1 \in S
    <3>1. S = {1} \/ S = {1, 2} \/ S = {1, 3} \/ S = {1, 2, 3}
      BY <2>1, <2>3
    <3>2. S = {1} => Cardinality(S) = 1
      BY <1>2
    <3> QED BY <3>1, <3>2
  <2> QED BY <2>2, <2>3
<1>4. CASE S = {1, 2}
  <2>1. {m \in S : m < 1} = {} /\ {m \in S : m < 2} = {1}
    BY <1>4
  <2>2. FirstTwo(S) = {1, 2}
    BY <1>2, <1>4, <2>1 DEF FirstTwo
  <2> QED BY <1>2, <2>2
<1>5. CASE S = {1, 3}
  <2>1. {m \in S : m < 1} = {} /\ {m \in S : m < 3} = {1}
    BY <1>5
  <2>2. FirstTwo(S) = {1, 3}
    BY <1>2, <1>5, <2>1 DEF FirstTwo
  <2> QED BY <1>2, <2>2
<1>6. CASE S = {2, 3}
  <2>1. {m \in S : m < 2} = {} /\ {m \in S : m < 3} = {2}
    BY <1>6
  <2>2. FirstTwo(S) = {2, 3}
    BY <1>2, <1>6, <2>1 DEF FirstTwo
  <2> QED BY <1>2, <2>2
<1>7. CASE S = {1, 2, 3}
  <2>1. {m \in S : m < 1} = {} /\ {m \in S : m < 2} = {1} /\ {m \in S : m < 3} = {1, 2}
    BY <1>7
  <2>2. FirstTwo(S) = {1, 2}
    BY <1>2, <1>7, <2>1 DEF FirstTwo
  <2> QED BY <1>2, <2>2
<1> QED BY <1>3, <1>4, <1>5, <1>6, <1>7

Support(q) == Cardinality(q.supporting) = IF q = NoVerdict THEN 0 ELSE 2

LEMMA VerdictTyped ==
  ASSUME NEW terminal \in Terminals \ {"NONE"}, NEW S \in SUBSET WorkerReaders, Cardinality(S) >= 2
  PROVE  /\ Concluded(terminal, S) \in Verdicts /\ Support(Concluded(terminal, S))
         /\ Concluded(terminal, S) # NoVerdict /\ Concluded(terminal, S).terminal = terminal
<1>1. FirstTwo(S) \in SUBSET WorkerReaders /\ Cardinality(FirstTwo(S)) = 2
  BY TwoNamed
<1>2. /\ Concluded(terminal, S) = [terminal |-> terminal, supporting |-> FirstTwo(S)]
      /\ NoVerdict.terminal = "NONE"
  BY DEF Concluded, NoVerdict
<1>3. Concluded(terminal, S) # NoVerdict
  BY <1>2
<1> QED BY <1>1, <1>2, <1>3 DEF Verdicts, Support

LEMMA NoVerdictTyped == NoVerdict \in Verdicts /\ Support(NoVerdict) /\ NoVerdict.terminal = "NONE"
BY FS_EmptySet DEF NoVerdict, Verdicts, Terminals, Support

\* Whatever is claimed, the rules give a verdict of two readers, or none.
LEMMA LedgerQuorumTyped ==
  ASSUME NEW claims
  PROVE  /\ LedgerQuorum(claims) \in Verdicts /\ Support(LedgerQuorum(claims))
         /\ LedgerQuorum(claims).terminal = "EXPIRED" => ~SomeStatus(claims)
<1> DEFINE failed == Compatible(claims,
                       {n \in WorkerReaders : claims[n].level > 0 /\ claims[n].failed})
           finalized == Compatible(claims, Finalized(claims))
           expired == {n \in WorkerReaders :
                         claims[n].level = 0 /\ ~claims[n].error /\ claims[n].over}
<1>1. /\ failed \in SUBSET WorkerReaders /\ finalized \in SUBSET WorkerReaders
      /\ expired \in SUBSET WorkerReaders
  BY DEF Compatible, Finalized
<1>2. LedgerQuorum(claims) =
        IF Cardinality(failed) >= 2 THEN Concluded("OBSERVED_EXECUTION_FAILED", failed)
        ELSE IF Cardinality(finalized) >= 2 THEN Concluded("FINALIZED", finalized)
        ELSE IF ~SomeStatus(claims) /\ Cardinality(expired) >= 2 THEN Concluded("EXPIRED", expired)
        ELSE NoVerdict
  BY DEF LedgerQuorum
<1> HIDE DEF failed, finalized, expired
<1>3. {"OBSERVED_EXECUTION_FAILED", "FINALIZED", "EXPIRED"} \subseteq Terminals \ {"NONE"}
  BY DEF Terminals
<1>4. CASE Cardinality(failed) >= 2
  BY <1>1, <1>2, <1>3, <1>4, VerdictTyped
<1>5. CASE ~(Cardinality(failed) >= 2) /\ Cardinality(finalized) >= 2
  BY <1>1, <1>2, <1>3, <1>5, VerdictTyped
<1>6. CASE /\ ~(Cardinality(failed) >= 2) /\ ~(Cardinality(finalized) >= 2)
           /\ ~SomeStatus(claims) /\ Cardinality(expired) >= 2
  BY <1>1, <1>2, <1>3, <1>6, VerdictTyped
<1>7. CASE /\ ~(Cardinality(failed) >= 2) /\ ~(Cardinality(finalized) >= 2)
           /\ ~(~SomeStatus(claims) /\ Cardinality(expired) >= 2)
  BY <1>2, <1>7, NoVerdictTyped
<1> QED BY <1>4, <1>5, <1>6, <1>7

LEMMA DeadlineVerdictTyped ==
  ASSUME NEW claims
  PROVE  /\ DeadlineVerdict(claims) \in Verdicts /\ Support(DeadlineVerdict(claims))
         /\ DeadlineVerdict(claims) # NoVerdict
<1> DEFINE confirmed == Compatible(claims,
                {n \in WorkerReaders : claims[n].level >= 2 /\ ~claims[n].failed})
<1>1. confirmed \in SUBSET WorkerReaders /\ WorkerReaders \in SUBSET WorkerReaders
  BY DEF Compatible
<1>2. DeadlineVerdict(claims) = IF Cardinality(confirmed) >= 2 THEN Concluded("CONFIRMED", confirmed)
                                ELSE Concluded("OBSERVATION_INCONCLUSIVE", WorkerReaders)
  BY DEF DeadlineVerdict
<1> HIDE DEF confirmed
<1>3. {"CONFIRMED", "OBSERVATION_INCONCLUSIVE"} \subseteq Terminals \ {"NONE"}
  BY DEF Terminals
<1>4. Cardinality(WorkerReaders) >= 2
  BY ThreeReaders
<1> QED BY <1>1, <1>2, <1>3, <1>4, VerdictTyped

\* Of two readers one is honest, when fewer than two lie.
LEMMA OneIsHonest ==
  ASSUME NEW S \in SUBSET WorkerReaders, Cardinality(S) >= 2, Cardinality(LyingWorkerReaders) < 2
  PROVE  \E n \in S : n \notin LyingWorkerReaders
<1>1. IsFiniteSet(LyingWorkerReaders) /\ IsFiniteSet(S)
  BY ThreeReaders, FS_Subset, WorkerAssumption
<1>2. S \subseteq LyingWorkerReaders => Cardinality(S) <= Cardinality(LyingWorkerReaders)
  BY <1>1, FS_Subset
<1>3. Cardinality(S) \in Nat /\ Cardinality(LyingWorkerReaders) \in Nat
  BY <1>1, FS_CardinalityType
<1> QED BY <1>2, <1>3

Honest(claim) ==
  /\ claim.level > 0 => claim.level <= onChain.level /\ (claim.failed <=> onChain.failed)
  /\ claim.over => onChain.over

\* A quorum has an honest reader, so what it establishes is true.
LEMMA QuorumsAreTrue ==
  ASSUME WorkerTypes, NEW claims \in [WorkerReaders -> Claims], Cardinality(LyingWorkerReaders) < 2,
         \A n \in WorkerReaders \ LyingWorkerReaders : Honest(claims[n])
  PROVE  LedgerShows(LedgerQuorum(claims).terminal) /\ LedgerShows(DeadlineVerdict(claims).terminal)
<1> DEFINE failed == Compatible(claims,
                       {n \in WorkerReaders : claims[n].level > 0 /\ claims[n].failed})
           finalized == Compatible(claims, Finalized(claims))
           expired == {n \in WorkerReaders :
                         claims[n].level = 0 /\ ~claims[n].error /\ claims[n].over}
           confirmed == Compatible(claims,
                {n \in WorkerReaders : claims[n].level >= 2 /\ ~claims[n].failed})
<1>1. /\ failed \in SUBSET WorkerReaders /\ finalized \in SUBSET WorkerReaders
      /\ expired \in SUBSET WorkerReaders /\ confirmed \in SUBSET WorkerReaders
      /\ WorkerReaders \in SUBSET WorkerReaders
  BY DEF Compatible, Finalized
<1>2. LedgerQuorum(claims) =
        IF Cardinality(failed) >= 2 THEN Concluded("OBSERVED_EXECUTION_FAILED", failed)
        ELSE IF Cardinality(finalized) >= 2 THEN Concluded("FINALIZED", finalized)
        ELSE IF ~SomeStatus(claims) /\ Cardinality(expired) >= 2 THEN Concluded("EXPIRED", expired)
        ELSE NoVerdict
  BY DEF LedgerQuorum
<1>3. DeadlineVerdict(claims) = IF Cardinality(confirmed) >= 2 THEN Concluded("CONFIRMED", confirmed)
                                ELSE Concluded("OBSERVATION_INCONCLUSIVE", WorkerReaders)
  BY DEF DeadlineVerdict
<1>4. /\ \A n \in failed : claims[n].level > 0 /\ claims[n].failed
      /\ \A n \in finalized : claims[n].level = 3 /\ ~claims[n].failed
      /\ \A n \in expired : claims[n].over
      /\ \A n \in confirmed : claims[n].level >= 2 /\ ~claims[n].failed
  BY DEF Compatible, Finalized
<1>5. onChain.level \in 0 .. 3 /\ \A n \in WorkerReaders : claims[n].level \in 0 .. 3
  BY WorkerAssumption DEF WorkerTypes, LedgerStates, Claims, StatusLevels
<1> HIDE DEF failed, finalized, expired, confirmed
<1>6. {"OBSERVED_EXECUTION_FAILED", "FINALIZED", "EXPIRED", "CONFIRMED", "OBSERVATION_INCONCLUSIVE"}
         \subseteq Terminals \ {"NONE"}
  BY DEF Terminals
<1>7. Cardinality(failed) >= 2 => onChain.level > 0 /\ onChain.failed
  <2>1. SUFFICES ASSUME Cardinality(failed) >= 2 PROVE onChain.level > 0 /\ onChain.failed
    OBVIOUS
  <2>2. PICK n \in failed : n \notin LyingWorkerReaders
    BY <1>1, <2>1, OneIsHonest
  <2> QED BY <1>1, <1>4, <1>5, <2>2 DEF Honest
<1>8. Cardinality(finalized) >= 2 => onChain.level = 3 /\ ~onChain.failed
  <2>1. SUFFICES ASSUME Cardinality(finalized) >= 2 PROVE onChain.level = 3 /\ ~onChain.failed
    OBVIOUS
  <2>2. PICK n \in finalized : n \notin LyingWorkerReaders
    BY <1>1, <2>1, OneIsHonest
  <2> QED BY <1>1, <1>4, <1>5, <2>2 DEF Honest
<1>9. Cardinality(expired) >= 2 => onChain.over
  <2>1. SUFFICES ASSUME Cardinality(expired) >= 2 PROVE onChain.over
    OBVIOUS
  <2>2. PICK n \in expired : n \notin LyingWorkerReaders
    BY <1>1, <2>1, OneIsHonest
  <2> QED BY <1>1, <1>4, <2>2 DEF Honest
<1>10. Cardinality(confirmed) >= 2 => onChain.level >= 2 /\ ~onChain.failed
  <2>1. SUFFICES ASSUME Cardinality(confirmed) >= 2 PROVE onChain.level >= 2 /\ ~onChain.failed
    OBVIOUS
  <2>2. PICK n \in confirmed : n \notin LyingWorkerReaders
    BY <1>1, <2>1, OneIsHonest
  <2> QED BY <1>1, <1>4, <1>5, <2>2 DEF Honest
<1>11. /\ Cardinality(failed) >= 2 => LedgerQuorum(claims).terminal = "OBSERVED_EXECUTION_FAILED"
       /\ ~(Cardinality(failed) >= 2) /\ Cardinality(finalized) >= 2 =>
            LedgerQuorum(claims).terminal = "FINALIZED"
       /\ ~(Cardinality(failed) >= 2) /\ ~(Cardinality(finalized) >= 2) /\ Cardinality(expired) >= 2 =>
            LedgerQuorum(claims).terminal \in {"EXPIRED", "NONE"}
       /\ ~(Cardinality(failed) >= 2) /\ ~(Cardinality(finalized) >= 2) /\ ~(Cardinality(expired) >= 2) =>
            LedgerQuorum(claims).terminal = "NONE"
  BY <1>1, <1>2, <1>6, VerdictTyped, NoVerdictTyped
<1>12. LedgerShows(LedgerQuorum(claims).terminal)
  BY <1>7, <1>8, <1>9, <1>11 DEF LedgerShows
<1>13. /\ Cardinality(confirmed) >= 2 => DeadlineVerdict(claims).terminal = "CONFIRMED"
       /\ ~(Cardinality(confirmed) >= 2) =>
             DeadlineVerdict(claims).terminal = "OBSERVATION_INCONCLUSIVE"
  BY <1>1, <1>3, <1>6, VerdictTyped, ThreeReaders
<1> QED BY <1>10, <1>12, <1>13 DEF LedgerShows

----------------------------------------------------------------------------
\* What is said of the log changes with the log only.
LEMMA LogStays ==
  ASSUME rawLog' = rawLog, latestClaims' = latestClaims
  PROVE  /\ LastDerived' = LastDerived /\ Judged' = Judged
         /\ EarlierUndecided' <=> EarlierUndecided
         /\ AllUndecided' <=> AllUndecided
         /\ LastPoll' <=> LastPoll
<1>1. LastDerived' = LastDerived BY Zenon DEF LastDerived
<1>2. Judged' = Judged BY <1>1, Zenon DEF Judged
<1> QED BY <1>1, <1>2 DEF EarlierUndecided, AllUndecided, LastPoll

\* And what is said of the ledger, with the ledger and the log only.
LEMMA LedgerStays ==
  ASSUME WorkerInv, rawLog' = rawLog, latestClaims' = latestClaims, onChain' = onChain,
         span' = span \/ span' = {onChain}
  PROVE  LedgerStory'
<1>1. Precedes(onChain)
  <2>1. onChain.level \in 0 .. 3
    BY WorkerAssumption DEF WorkerInv, WorkerTypes, LedgerStates
  <2>2. onChain.level <= onChain.level
    BY <2>1
  <2> QED BY <2>2, Zenon DEF Precedes
<1>2. \A s \in span' : Precedes(s)
  BY <1>1 DEF WorkerInv, LedgerStory
<1>3. \A s : Precedes(s)' <=> Precedes(s)
  BY DEF Precedes
<1>4. \A t : LedgerShows(t)' <=> LedgerShows(t)
  BY DEF LedgerShows
<1> HIDE DEF Precedes, LedgerShows
<1>5. \A s \in span' : Precedes(s)'
  BY <1>2, <1>3
<1> QED BY <1>4, <1>5 DEF LedgerStory, WorkerInv

LEMMA WorkerBegins == WorkerInit => WorkerInv
<1> SUFFICES ASSUME WorkerInit PROVE WorkerInv
  OBVIOUS
<1> USE WorkerAssumption
<1>1. NoClaims \in [WorkerReaders -> Claims]
  BY DEF NoClaims, Claims, StatusLevels
<1>2. onChain \in LedgerStates
  BY DEF WorkerInit, LedgerStates
<1>3. NoVerdict \in Verdicts /\ Cardinality(NoVerdict.supporting) = 0
  BY NoVerdictTyped DEF Support
<1>4. WorkerTypes
  <2>1. IssuedAt \in 0 .. WorkerEnd /\ 0 \in 0 .. WorkerEnd /\ WorkerMishaps \in 0 .. WorkerMishaps
    BY DEF ValidObservationJob
  <2>2. <<>> \in Seq(RawRecords)
    OBVIOUS
  <2> QED BY <1>1, <1>2, <1>3, <2>1, <2>2 DEF WorkerInit, WorkerTypes
<1>5. Len(rawLog) = 0 /\ resultFile.state = "absent"
  BY DEF WorkerInit, NoFile
<1>6. RunStory /\ ResultStory /\ ClockStory
  BY <1>5 DEF WorkerInit, RunStory, ResultStory, ClockStory, HasResult, BetweenPolls, Deciding,
     NotCompleted
<1>7. Precedes(onChain)
  <2>1. onChain.level = 0 /\ 0 <= 0
    BY DEF WorkerInit
  <2> QED BY <2>1, Zenon DEF Precedes
<1>8. Cardinality(LyingWorkerReaders) < 2 => LedgerShows(DeadlineVerdict(NoClaims).terminal)
  <2>1. \A n \in WorkerReaders : NoClaims[n].level = 0 /\ ~NoClaims[n].over
    BY DEF NoClaims
  <2>2. \A n \in WorkerReaders \ LyingWorkerReaders : Honest(NoClaims[n])
    BY <2>1 DEF Honest
  <2> QED BY <1>1, <1>4, <2>2, QuorumsAreTrue
<1>9. LedgerStory
  BY <1>5, <1>7, <1>8 DEF WorkerInit, LedgerStory
<1> QED BY <1>4, <1>6, <1>9 DEF WorkerInv

LEMMA WorkerOpensKeeps == ASSUME WorkerInv, WorkerOpens PROVE WorkerInv'
<1> USE WorkerAssumption
<1>1. /\ workerPc \in {"assigned", "dead"} /\ verdict' = NoVerdict /\ seenOnLedger' = FALSE /\ pollIndex' = 0
      /\ UNCHANGED <<workerClock, setBack, observedAt, rawLog, latestClaims, resultFile, completion,
                     onChain, span, mishaps>>
  BY DEF WorkerOpens, hostClock, resultVars, chainVars
<1>2. \/ /\ ~rawOpened /\ rawOpened' = TRUE /\ workerPc' = "loop" /\ startedAt' = workerClock
         /\ IssuedAt <= workerClock
      \/ workerPc' = "refused" /\ rawOpened' = rawOpened /\ startedAt' = startedAt
  BY DEF WorkerOpens, AssignmentCurrent
<1>3. NoVerdict \in Verdicts /\ Cardinality(NoVerdict.supporting) = 0
  BY NoVerdictTyped DEF Support
<1>4. WorkerTypes'
  BY <1>1, <1>2, <1>3 DEF WorkerInv, WorkerTypes
<1>5. ~rawOpened => rawLog = <<>> /\ Len(rawLog) = 0 /\ ~HasResult
  BY DEF WorkerInv, RunStory, ResultStory
<1>6. LedgerStory'
  BY <1>1, LedgerStays
<1>7. ResultStory'
  BY <1>1, <1>2, <1>5, LogStays DEF WorkerInv, ResultStory, HasResult
<1>8. RunStory'
  BY <1>1, <1>2, <1>5, LogStays DEF WorkerInv, RunStory, BetweenPolls, Deciding, AllUndecided
<1>9. ClockStory'
  BY <1>1, <1>2, <1>5, LogStays DEF WorkerInv, WorkerTypes, ClockStory, HasResult, Deciding
<1> QED BY <1>4, <1>6, <1>7, <1>8, <1>9 DEF WorkerInv

LEMMA PollBeginsKeeps == ASSUME WorkerInv, PollBegins PROVE WorkerInv'
<1> USE WorkerAssumption
<1>1. /\ workerPc = "loop" /\ workerPc' = "reading" /\ observedAt' = workerClock /\ span' = {onChain}
      /\ UNCHANGED <<workerClock, setBack, startedAt, pollIndex, seenOnLedger, verdict, rawOpened, rawLog,
                     latestClaims, resultFile, completion, onChain, mishaps>>
  BY DEF PollBegins, hostClock, rawVars, resultVars
<1>2. WorkerTypes'
  BY <1>1 DEF WorkerInv, WorkerTypes
<1>3. LedgerStory'
  BY <1>1, LedgerStays
<1>4. ResultStory'
  BY <1>1, LogStays DEF WorkerInv, ResultStory, HasResult
<1>5. RunStory'
  BY <1>1, LogStays DEF WorkerInv, RunStory, BetweenPolls, Deciding
<1>6. rawOpened
  BY <1>1 DEF WorkerInv, RunStory
<1>7. Len(rawLog) \in Nat /\ ~HasResult
  BY <1>1 DEF WorkerInv, WorkerTypes, ResultStory
<1>8. ClockStory'
  BY <1>1, <1>6, <1>7, LogStays DEF WorkerInv, WorkerTypes, ClockStory, HasResult, Deciding
<1> QED BY <1>2, <1>3, <1>4, <1>5, <1>8 DEF WorkerInv

LEMMA ReportsTyped ==
  ASSUME WorkerInv, NEW s \in span, NEW h \in span
  PROVE  /\ Reports(s, h) \in Claims /\ Honest(Reports(s, h))
         /\ StatusLost(h) \in Claims /\ Honest(StatusLost(h))
         /\ HeightLost(s) \in Claims /\ Honest(HeightLost(s))
<1> USE WorkerAssumption
<1>1. /\ s.level \in 0 .. 3 /\ s.failed \in BOOLEAN /\ h.over \in BOOLEAN /\ s.over \in BOOLEAN
      /\ Precedes(s) /\ Precedes(h)
  BY DEF WorkerInv, WorkerTypes, LedgerStates, LedgerStory
<1> DEFINE slot == IF s.level > 0 THEN 1 ELSE 0
<1>2. slot \in 0 .. 2
  OBVIOUS
<1>5. ASSUME NEW g \in {s, h}
      PROVE  /\ Reports(s, g) \in Claims /\ Reports(s, g).level = s.level
             /\ Reports(s, g).failed = s.failed /\ (Reports(s, g).over => g.over)
  <2> DEFINE past == s.level = 0 /\ g.over
  <2>1. past \in BOOLEAN /\ (past => g.over)
    OBVIOUS
  <2>2. Reports(s, g) = [level |-> s.level, failed |-> s.failed, slot |-> slot, over |-> past, error |-> FALSE]
    BY Zenon DEF Reports
  <2> HIDE DEF slot, past
  <2> QED BY <1>1, <1>2, <2>1, <2>2 DEF Claims, StatusLevels
<1>6. StatusLost(h) \in Claims /\ StatusLost(h).level = 0 /\ StatusLost(h).over = h.over
  BY <1>1 DEF StatusLost, Claims, StatusLevels
<1>7. /\ HeightLost(s) \in Claims /\ HeightLost(s).level = s.level
      /\ HeightLost(s).failed = s.failed /\ HeightLost(s).over = FALSE
  <2>1. Reports(s, s) \in Claims /\ HeightLost(s) = [Reports(s, s) EXCEPT !.over = FALSE, !.error = TRUE]
    BY <1>5 DEF HeightLost
  <2>2. /\ HeightLost(s) \in Claims /\ HeightLost(s).level = Reports(s, s).level
        /\ HeightLost(s).failed = Reports(s, s).failed /\ HeightLost(s).over = FALSE
    BY <2>1 DEF Claims
  <2> QED BY <1>5, <2>2
<1> QED BY <1>1, <1>5, <1>6, <1>7 DEF Honest, Precedes

LEMMA ClaimsTyped ==
  ASSUME WorkerInv, NEW n \in WorkerReaders, NEW claim \in ClaimsOf(n)
  PROVE  claim \in Claims /\ (n \notin LyingWorkerReaders => Honest(claim))
<1>1. FalseClaims \subseteq Claims
  <2>1. [level |-> 0, failed |-> FALSE, slot |-> 0, over |-> TRUE, error |-> FALSE] \in Claims
    BY DEF Claims, StatusLevels
  <2>2. \A f \in BOOLEAN :
          [level |-> 3, failed |-> f, slot |-> 1, over |-> FALSE, error |-> FALSE] \in Claims
    BY DEF Claims, StatusLevels
  <2>3. [level |-> 3, failed |-> FALSE, slot |-> 2, over |-> FALSE, error |-> FALSE] \in Claims
    BY DEF Claims, StatusLevels
  <2> QED BY <2>1, <2>2, <2>3, Zenon DEF FalseClaims
<1>2. \A c \in TrueClaims : c \in Claims /\ Honest(c)
  BY ReportsTyped DEF TrueClaims
<1> QED BY <1>1, <1>2 DEF ClaimsOf

LEMMA PartialTyped ==
  ASSUME WorkerInv, NEW claim \in PartialClaims PROVE claim \in Claims /\ Honest(claim)
BY ReportsTyped DEF PartialClaims

LEMMA ThreeClaims ==
  ASSUME NEW a \in Claims, NEW b \in Claims, NEW c \in Claims
  PROVE  /\ <<a, b, c>> \in [WorkerReaders -> Claims]
         /\ <<a, b, c>>[1] = a /\ <<a, b, c>>[2] = b /\ <<a, b, c>>[3] = c
BY DEF WorkerReaders

\* A poll records one claim of each reader, an honest one of every honest reader.
LEMMA PollIsRecorded ==
  ASSUME WorkerInv, ReadersAnswer \/ \E n \in WorkerReaders : ReaderFails(n)
  PROVE  \E claims \in [WorkerReaders -> Claims] :
           /\ Records(claims) /\ mishaps' \in 0 .. WorkerMishaps
           /\ \A n \in WorkerReaders \ LyingWorkerReaders : Honest(claims[n])
<1>1. mishaps \in 0 .. WorkerMishaps /\ WorkerMishaps \in Nat
  BY WorkerAssumption DEF WorkerInv, WorkerTypes
<1>2. 1 \in WorkerReaders /\ 2 \in WorkerReaders /\ 3 \in WorkerReaders
      /\ \A n \in WorkerReaders : n = 1 \/ n = 2 \/ n = 3
  BY DEF WorkerReaders
<1>3. CASE ReadersAnswer
  <2>1. PICK a \in ClaimsOf(1), b \in ClaimsOf(2), c \in ClaimsOf(3) :
          Records(<<a, b, c>>) /\ UNCHANGED mishaps
    BY <1>3 DEF ReadersAnswer
  <2>2. a \in Claims /\ b \in Claims /\ c \in Claims
    BY <1>2, ClaimsTyped
  <2>3. \A n \in WorkerReaders \ LyingWorkerReaders : Honest(<<a, b, c>>[n])
    BY <1>2, <2>2, ClaimsTyped, ThreeClaims
  <2> QED BY <1>1, <2>1, <2>2, <2>3, ThreeClaims
<1>4. ASSUME NEW f \in WorkerReaders, ReaderFails(f)
      PROVE  \E claims \in [WorkerReaders -> Claims] :
               /\ Records(claims) /\ mishaps' \in 0 .. WorkerMishaps
               /\ \A n \in WorkerReaders \ LyingWorkerReaders : Honest(claims[n])
  <2>1. PICK a \in ClaimsOf(1), b \in ClaimsOf(2), c \in ClaimsOf(3), lost \in PartialClaims :
          Records([<<a, b, c>> EXCEPT ![f] = lost])
    BY <1>4 DEF ReaderFails
  <2>2. a \in Claims /\ b \in Claims /\ c \in Claims /\ lost \in Claims /\ Honest(lost)
    BY <1>2, ClaimsTyped, PartialTyped
  <2>3. <<a, b, c>> \in [WorkerReaders -> Claims]
    BY <2>2, ThreeClaims
  <2>4. \A n \in WorkerReaders \ LyingWorkerReaders : Honest(<<a, b, c>>[n])
    BY <1>2, <2>2, ClaimsTyped, ThreeClaims
  <2> DEFINE triple == <<a, b, c>>
             claims == [triple EXCEPT ![f] = lost]
  <2> HIDE DEF triple
  <2>5. /\ claims \in [WorkerReaders -> Claims]
        /\ \A n \in WorkerReaders : claims[n] = IF n = f THEN lost ELSE triple[n]
    BY <2>2, <2>3 DEF triple
  <2>6. \A n \in WorkerReaders \ LyingWorkerReaders : Honest(claims[n])
    BY <2>2, <2>4, <2>5 DEF triple
  <2>7. mishaps' \in 0 .. WorkerMishaps
    <3>1. Mishap
      BY <1>4, Zenon DEF ReaderFails
    <3> QED BY <1>1, <3>1 DEF Mishap
  <2>8. Records(claims)
    BY <2>1 DEF triple
  <2> QED BY <2>5, <2>6, <2>7, <2>8
<1> QED BY <1>3, <1>4

LEMMA RawTyped == ASSUME WorkerInv PROVE \A i \in 1 .. Len(rawLog) : rawLog[i].at \in Int
<1>1. \A i \in 1 .. Len(rawLog) : rawLog[i] \in RawRecords
  BY DEF WorkerInv, WorkerTypes
<1>2. \A r \in RawRecords : r.at \in 0 .. WorkerEnd
  BY DEF RawRecords
<1>3. 0 .. WorkerEnd \subseteq Int
  BY WorkerAssumption
<1> QED BY <1>1, <1>2, <1>3

\* What an appended poll leaves as it was.
LEMMA DerivedStays ==
  ASSUME NEW raw \in Seq(RawRecords), NEW poll \in RawRecords, NEW i \in 1 .. Len(raw)
  PROVE  Derived(Append(raw, poll), i) = Derived(raw, i)
<1> DEFINE longer == Append(raw, poll)
<1>1. \A j \in 1 .. i : longer[j] = raw[j]
  OBVIOUS
<1>2. i - 1 < i /\ i \in 1 .. i /\ \A j \in 1 .. (i - 1) : j \in 1 .. i
  OBVIOUS
<1>3. SeenBefore(longer, i) <=> SeenBefore(raw, i)
  BY <1>1, <1>2 DEF SeenBefore
<1>4. SeenBefore(longer, i) \in BOOLEAN /\ SeenBefore(raw, i) \in BOOLEAN
  BY Zenon DEF SeenBefore
<1> HIDE DEF longer
<1>5. SeenBefore(longer, i) = SeenBefore(raw, i)
  BY <1>3, <1>4
<1>6. longer[i].quorum = raw[i].quorum
  BY <1>1, <1>2
<1>7. Derived(longer, i) = Derived(raw, i)
  BY <1>5, <1>6, Zenon DEF Derived
<1> QED BY <1>7 DEF longer

LEMMA RecordsKeeps ==
  ASSUME WorkerInv, NEW claims \in [WorkerReaders -> Claims], Records(claims),
         mishaps' \in 0 .. WorkerMishaps,
         \A r \in WorkerReaders \ LyingWorkerReaders : Honest(claims[r])
  PROVE  WorkerInv'
<1> USE WorkerAssumption
<1> DEFINE n == Len(rawLog)
           poll == [index |-> pollIndex, at |-> observedAt,
                    quorum |-> LedgerQuorum(claims), seen |-> SomeStatus(claims)]
<1>1. /\ workerPc = "reading" /\ workerPc' = "judging"
      /\ rawLog' = Append(rawLog, poll) /\ latestClaims' = claims /\ span' = {onChain}
      /\ UNCHANGED <<workerClock, setBack, startedAt, pollIndex, observedAt, seenOnLedger, verdict,
                     rawOpened, resultFile, completion, onChain>>
  BY DEF Records, hostClock, loopVars, resultVars
<1>2. rawLog \in Seq(RawRecords) /\ n \in Nat /\ pollIndex \in Nat /\ observedAt \in 0 .. WorkerEnd
  BY DEF WorkerInv, WorkerTypes
<1>3. LedgerQuorum(claims) \in Verdicts
  BY LedgerQuorumTyped
<1>4. SomeStatus(claims) \in BOOLEAN
  BY Zenon DEF SomeStatus
<1> HIDE DEF SomeStatus
<1>5. poll \in RawRecords
  BY <1>2, <1>3, <1>4 DEF RawRecords
<1>6. /\ poll.index = pollIndex /\ poll.at = observedAt /\ poll.quorum = LedgerQuorum(claims)
      /\ poll.seen = SomeStatus(claims)
  OBVIOUS
<1> HIDE DEF poll
<1>7. /\ rawLog' \in Seq(RawRecords) /\ Len(rawLog') = n + 1 /\ rawLog'[n + 1] = poll
      /\ \A i \in 1 .. n : rawLog'[i] = rawLog[i]
      /\ \A i \in 1 .. Len(rawLog') : i \in 1 .. n \/ i = n + 1
  BY <1>1, <1>2, <1>5
<1>8. WorkerTypes'
  BY <1>1, <1>7 DEF WorkerInv, WorkerTypes
<1>9. \A i \in 1 .. n : Derived(rawLog', i) = Derived(rawLog, i)
  BY <1>1, <1>2, <1>5, DerivedStays
<1>10. ~HasResult /\ pollIndex = n /\ AllUndecided /\ rawOpened
  BY <1>1 DEF WorkerInv, RunStory, ResultStory, BetweenPolls
<1>11. EarlierUndecided'
  BY <1>2, <1>7, <1>9, <1>10 DEF EarlierUndecided, AllUndecided
<1>12. LastPoll'
  BY <1>1, <1>2, <1>6, <1>7 DEF LastPoll
<1>13. seenOnLedger' <=> SeenBefore(rawLog', n + 1)
  <2>1. seenOnLedger <=> \E j \in 1 .. n : rawLog[j].seen
    BY <1>1 DEF WorkerInv, RunStory, BetweenPolls
  <2>2. n + 1 - 1 = n
    BY <1>2
  <2> QED BY <1>1, <1>7, <2>1, <2>2 DEF SeenBefore
<1>14. \A i \in 1 .. Len(rawLog') : rawLog'[i].index = i - 1
  BY <1>2, <1>6, <1>7, <1>10 DEF WorkerInv, RunStory
<1>15. RunStory'
  BY <1>1, <1>2, <1>7, <1>10, <1>11, <1>12, <1>13, <1>14 DEF RunStory, BetweenPolls, Deciding
<1>16. ResultStory'
  BY <1>1, <1>10 DEF WorkerInv, ResultStory, HasResult
<1>17. ClockStory'
  <2>1. SUFFICES ASSUME ~setBack
                 PROVE  /\ IssuedAt <= startedAt /\ startedAt <= workerClock
                        /\ \A i \in 1 .. Len(rawLog') :
                             /\ startedAt <= rawLog'[i].at /\ rawLog'[i].at <= workerClock
                             /\ i > 1 => rawLog'[i - 1].at <= rawLog'[i].at
    BY <1>1, <1>10 DEF ClockStory, HasResult, Deciding
  <2>2. /\ IssuedAt <= startedAt /\ startedAt <= workerClock
        /\ \A i \in 1 .. n :
             /\ startedAt <= rawLog[i].at /\ rawLog[i].at <= workerClock
             /\ i > 1 => rawLog[i - 1].at <= rawLog[i].at
        /\ startedAt <= observedAt /\ observedAt <= workerClock
        /\ n > 0 => rawLog[n].at <= observedAt
    BY <1>1, <1>10, <2>1 DEF WorkerInv, ClockStory
  <2>3. \A i \in 1 .. n : i > 1 => i - 1 \in 1 .. n
    BY <1>2
  <2>4. n + 1 > 1 => n \in 1 .. n /\ n + 1 - 1 = n
    BY <1>2
  <2>5. n \in Nat
    BY <1>2
  <2> HIDE DEF n
  <2>6. ASSUME NEW i \in 1 .. n
        PROVE  /\ startedAt <= rawLog'[i].at /\ rawLog'[i].at <= workerClock
               /\ i > 1 => rawLog'[i - 1].at <= rawLog'[i].at
    BY <1>7, <2>2, <2>3
  <2>7. /\ startedAt <= rawLog'[n + 1].at /\ rawLog'[n + 1].at <= workerClock
        /\ n + 1 > 1 => rawLog'[(n + 1) - 1].at <= rawLog'[n + 1].at
    <3>1. rawLog'[n + 1].at = observedAt /\ (n + 1) - 1 = n /\ (n + 1 > 1 => n > 0)
      BY <1>6, <1>7, <2>5
    <3>2. n > 0 => rawLog'[n].at <= observedAt
      BY <1>7, <2>2, <2>4, <2>5
    <3> QED BY <2>2, <3>1, <3>2
  <2> QED BY <1>7, <2>2, <2>6, <2>7
<1>18. LedgerStory'
  <2>1. /\ \A t : LedgerShows(t)' <=> LedgerShows(t)
        /\ \A s : Precedes(s)' <=> Precedes(s)
    BY <1>1 DEF LedgerShows, Precedes
  <2>2. onChain.level \in 0 .. 3
    BY DEF WorkerInv, WorkerTypes, LedgerStates
  <2>3. onChain.level <= onChain.level
    BY <2>2
  <2>4. Precedes(onChain)
    BY <2>3, Zenon DEF Precedes
  <2>5. Cardinality(LyingWorkerReaders) < 2 =>
          /\ \A i \in 1 .. Len(rawLog) : LedgerShows(rawLog[i].quorum.terminal)
          /\ LedgerShows(LedgerQuorum(claims).terminal)
          /\ LedgerShows(DeadlineVerdict(claims).terminal)
    BY QuorumsAreTrue DEF WorkerInv, LedgerStory
  <2> QED BY <1>1, <1>6, <1>7, <2>1, <2>4, <2>5 DEF LedgerStory
<1> QED BY <1>8, <1>15, <1>16, <1>17, <1>18 DEF WorkerInv

\* What the loop makes of the poll is what the reconciliation derives from it.
LEMMA JudgeOutcome ==
  ASSUME WorkerInv, Judge
  PROVE  /\ workerPc = "judging" /\ (seenOnLedger' <=> seenOnLedger \/ SomeStatus(latestClaims))
         /\ seenOnLedger' \in BOOLEAN
         /\ verdict' = IF LastDerived = NoVerdict /\ DeadlineReached THEN DeadlineVerdict(latestClaims) ELSE LastDerived
         /\ IF verdict' = NoVerdict THEN workerPc' = "sleeping" /\ pollIndex' = pollIndex + 1
            ELSE workerPc' = "decided" /\ pollIndex' = pollIndex
         /\ UNCHANGED <<hostClock, startedAt, observedAt, rawVars, resultVars, chainVars, mishaps>>
<1> DEFINE quorum == LedgerQuorum(latestClaims)
           before == SeenBefore(rawLog, Len(rawLog))
<1>1. workerPc = "judging"
  BY DEF Judge, Acts
<1>2. LastPoll /\ (seenOnLedger <=> before) /\ seenOnLedger \in BOOLEAN
  BY <1>1 DEF WorkerInv, WorkerTypes, RunStory
<1>3. WithHistory(quorum, SeenByNow) = WithHistory(quorum, before)
  <2>1. quorum.terminal = "EXPIRED" => ~SomeStatus(latestClaims)
    BY LedgerQuorumTyped
  <2>2. quorum.terminal = "EXPIRED" => (SeenByNow <=> before)
    BY <1>2, <2>1 DEF SeenByNow
  <2> HIDE DEF quorum, before
  <2> QED BY <2>2, Zenon DEF WithHistory
<1>4. LastDerived = WithHistory(quorum, before)
  <2>1. rawLog[Len(rawLog)].quorum = quorum
    BY <1>2 DEF LastPoll
  <2> HIDE DEF quorum
  <2> QED BY <2>1, Zenon DEF LastDerived, Derived
<1>5. WithHistory(quorum, SeenByNow) = LastDerived
  BY <1>3, <1>4, Zenon
<1>6. Acts(LastDerived, SeenByNow, DeadlineReached)
  <2>1. Acts(WithHistory(quorum, SeenByNow), SeenByNow, DeadlineReached)
    BY Zenon DEF Judge
  <2> QED BY <1>5, <2>1, Zenon
<1> HIDE DEF quorum, before
<1>7. /\ seenOnLedger' = SeenByNow
      /\ verdict' = IF LastDerived = NoVerdict /\ DeadlineReached THEN DeadlineVerdict(latestClaims) ELSE LastDerived
      /\ UNCHANGED <<hostClock, startedAt, observedAt, rawVars, resultVars, chainVars, mishaps>>
  BY <1>6, Zenon DEF Acts
<1>8. IF verdict' = NoVerdict THEN workerPc' = "sleeping" /\ pollIndex' = pollIndex + 1
      ELSE workerPc' = "decided" /\ pollIndex' = pollIndex
  <2>1. IF (IF LastDerived = NoVerdict /\ DeadlineReached THEN DeadlineVerdict(latestClaims) ELSE LastDerived) = NoVerdict
        THEN workerPc' = "sleeping" /\ pollIndex' = pollIndex + 1
        ELSE workerPc' = "decided" /\ pollIndex' = pollIndex
    BY <1>6, Zenon DEF Acts
  <2> QED BY <1>7, <2>1, Zenon
<1>9. SeenByNow \in BOOLEAN /\ (SeenByNow <=> seenOnLedger \/ SomeStatus(latestClaims))
  BY Zenon DEF SeenByNow
<1> QED BY <1>1, <1>7, <1>8, <1>9, Zenon

LEMMA JudgeKeeps == ASSUME WorkerInv, Judge PROVE WorkerInv'
<1> USE WorkerAssumption
<1> DEFINE n == Len(rawLog)
<1>1. /\ workerPc = "judging" /\ (seenOnLedger' <=> seenOnLedger \/ SomeStatus(latestClaims))
      /\ seenOnLedger' \in BOOLEAN
      /\ verdict' = IF LastDerived = NoVerdict /\ DeadlineReached THEN DeadlineVerdict(latestClaims) ELSE LastDerived
      /\ IF verdict' = NoVerdict THEN workerPc' = "sleeping" /\ pollIndex' = pollIndex + 1
         ELSE workerPc' = "decided" /\ pollIndex' = pollIndex
      /\ UNCHANGED <<workerClock, setBack, startedAt, observedAt, rawOpened, rawLog, latestClaims,
                     resultFile, completion, onChain, span, mishaps>>
  BY JudgeOutcome DEF hostClock, rawVars, resultVars, chainVars
<1>2. /\ LastPoll /\ EarlierUndecided /\ pollIndex = n - 1 /\ ~HasResult /\ rawOpened
      /\ (seenOnLedger <=> SeenBefore(rawLog, n)) /\ n \in Nat /\ n > 0
  BY <1>1 DEF WorkerInv, WorkerTypes, RunStory, ResultStory, LastPoll
<1>3. LastDerived \in {NoVerdict, LedgerQuorum(latestClaims)}
  BY <1>2, Zenon DEF LastDerived, Derived, WithHistory, LastPoll
<1>4. verdict' \in Verdicts /\ Support(verdict')
  BY <1>1, <1>3, LedgerQuorumTyped, DeadlineVerdictTyped, NoVerdictTyped
<1>5. WorkerTypes'
  BY <1>1, <1>2, <1>4 DEF WorkerInv, WorkerTypes, Support
<1>6. LedgerStory'
  BY <1>1, LedgerStays
<1>7. ResultStory'
  BY <1>1, <1>2 DEF WorkerInv, ResultStory, HasResult
<1>8. CASE verdict' = NoVerdict
  <2>1. LastDerived = NoVerdict
    BY <1>1, <1>8, DeadlineVerdictTyped
  <2>2. AllUndecided
    <3>1. \A i \in 1 .. n : i \in 1 .. n - 1 \/ i = n
      BY <1>2
    <3> QED BY <1>2, <2>1, <3>1 DEF AllUndecided, EarlierUndecided, LastDerived
  <2>3. seenOnLedger' <=> \E j \in 1 .. n : rawLog[j].seen
    <3>1. rawLog[n].seen = SomeStatus(latestClaims)
      BY <1>2 DEF LastPoll
    <3>2. \A j \in 1 .. n : j \in 1 .. (n - 1) \/ j = n
      BY <1>2
    <3>3. n \in 1 .. n /\ \A j \in 1 .. (n - 1) : j \in 1 .. n
      BY <1>2
    <3> HIDE DEF SomeStatus, n
    <3> QED BY <1>1, <1>2, <3>1, <3>2, <3>3 DEF SeenBefore
  <2>4. workerPc' = "sleeping" /\ pollIndex' = n
    BY <1>1, <1>2, <1>8
  <2>5. RunStory'
    BY <1>1, <1>2, <2>2, <2>3, <2>4, LogStays DEF WorkerInv, RunStory, BetweenPolls, Deciding
  <2>6. ClockStory'
    BY <1>1, <1>2, <2>4, LogStays DEF WorkerInv, ClockStory, HasResult, Deciding
  <2> QED BY <1>5, <1>6, <1>7, <2>5, <2>6 DEF WorkerInv
<1>9. CASE verdict' # NoVerdict
  <2>1. workerPc' = "decided" /\ pollIndex' = pollIndex
    BY <1>1, <1>9
  <2>2. verdict' = Judged /\ (LastDerived = NoVerdict => DeadlineReached)
    BY <1>1, <1>9 DEF Judged
  <2>3. RunStory'
    BY <1>1, <1>2, <2>1, <2>2, LogStays DEF WorkerInv, RunStory, BetweenPolls, Deciding
  <2>4. ClockStory'
    BY <1>1, <1>2, <2>1, <2>2, LogStays DEF WorkerInv, ClockStory, HasResult, Deciding, DeadlineReached
  <2> QED BY <1>5, <1>6, <1>7, <2>3, <2>4 DEF WorkerInv
<1> QED BY <1>8, <1>9

LEMMA WritesResultKeeps == ASSUME WorkerInv, WritesResult PROVE WorkerInv'
<1> USE WorkerAssumption
<1> DEFINE written == [state |-> "written", verdict |-> verdict, claims |-> latestClaims,
                       decidedAt |-> workerClock]
<1>1. /\ workerPc = "decided" /\ workerPc' = "written" /\ resultFile' = written
      /\ UNCHANGED <<workerClock, setBack, startedAt, pollIndex, observedAt, seenOnLedger, verdict,
                     rawOpened, rawLog, latestClaims, completion, onChain, span, mishaps>>
  BY DEF WritesResult, hostClock, loopVars, rawVars, chainVars
<1>2. written \in ResultRecord
  BY DEF WorkerInv, WorkerTypes, ResultRecord
<1>3. /\ written.state = "written" /\ written.verdict = verdict /\ written.claims = latestClaims
      /\ written.decidedAt = workerClock
  OBVIOUS
<1> HIDE DEF written
<1>4. WorkerTypes'
  BY <1>1, <1>2 DEF WorkerInv, WorkerTypes
<1>5. LedgerStory'
  BY <1>1, LedgerStays
<1>6. LastPoll /\ EarlierUndecided /\ verdict = Judged /\ completion = NotCompleted
      /\ Len(rawLog) > 0 /\ rawOpened
  BY <1>1 DEF WorkerInv, RunStory, ResultStory, Deciding, LastPoll
<1>7. ResultStory'
  BY <1>1, <1>3, <1>6, LogStays DEF ResultStory, HasResult
<1>8. RunStory'
  BY <1>1, <1>6, LogStays DEF WorkerInv, RunStory, BetweenPolls, Deciding
<1>9. ClockStory'
  BY <1>1, <1>3, <1>6, LogStays DEF WorkerInv, WorkerTypes, ClockStory, HasResult, Deciding
<1> QED BY <1>4, <1>5, <1>7, <1>8, <1>9 DEF WorkerInv

LEMMA CompletesKeeps == ASSUME WorkerInv, Completes PROVE WorkerInv'
<1> USE WorkerAssumption
<1>1. /\ workerPc = "written" /\ workerPc' = "done" /\ completion' = verdict.terminal
      /\ UNCHANGED <<workerClock, setBack, startedAt, pollIndex, observedAt, seenOnLedger, verdict,
                     rawOpened, rawLog, latestClaims, resultFile, onChain, span, mishaps>>
  BY DEF Completes, hostClock, loopVars, rawVars, chainVars
<1>2. WorkerTypes'
  BY <1>1 DEF WorkerInv, WorkerTypes, Verdicts
<1>3. LedgerStory'
  BY <1>1, LedgerStays
<1>4. ResultStory'
  BY <1>1, LogStays DEF WorkerInv, ResultStory, HasResult
<1>5. RunStory'
  BY <1>1, LogStays DEF WorkerInv, RunStory, BetweenPolls, Deciding
<1>6. ClockStory'
  BY <1>1, LogStays DEF WorkerInv, ClockStory, HasResult, Deciding
<1> QED BY <1>2, <1>3, <1>4, <1>5, <1>6 DEF WorkerInv

LEMMA WorkerStopsKeeps == ASSUME WorkerInv, BudgetRefuses \/ WorkerDies PROVE WorkerInv'
<1> USE WorkerAssumption
<1>1. /\ workerPc \notin {"done", "dead", "refused"} /\ workerPc' \in {"dead", "refused"}
      /\ workerPc' = "refused" => workerPc = "decided"
      /\ resultFile' = resultFile \/ (resultFile = NoFile /\ resultFile' = TornFile)
      /\ mishaps' \in 0 .. WorkerMishaps
      /\ UNCHANGED <<workerClock, setBack, startedAt, pollIndex, observedAt, seenOnLedger, verdict,
                     rawOpened, rawLog, latestClaims, completion, onChain, span>>
  <2>1. mishaps > 0 /\ mishaps' = mishaps - 1
    BY DEF BudgetRefuses, WorkerDies, Mishap
  <2>2. mishaps' \in 0 .. WorkerMishaps
    BY <2>1 DEF WorkerInv, WorkerTypes
  <2> QED BY <2>2 DEF BudgetRefuses, WorkerDies, hostClock, loopVars, rawVars, resultVars, chainVars
<1>2. WorkerTypes'
  BY <1>1 DEF WorkerInv, WorkerTypes
<1>3. LedgerStory'
  BY <1>1, LedgerStays
<1>4. completion = NotCompleted
  BY <1>1 DEF WorkerInv, ResultStory
<1>5. NoFile.state = "absent" /\ TornFile.state = "torn"
  BY DEF NoFile, TornFile
<1>6. HasResult' <=> HasResult
  BY <1>1, <1>5 DEF HasResult
<1>7. HasResult => resultFile' = resultFile
  BY <1>1, <1>5 DEF HasResult
<1>8. ResultStory'
  BY <1>1, <1>4, <1>6, <1>7, LogStays DEF WorkerInv, ResultStory
<1>9. RunStory'
  BY <1>1, LogStays DEF WorkerInv, RunStory, BetweenPolls, Deciding
<1>10. ClockStory'
  BY <1>1, <1>6, <1>7, LogStays DEF WorkerInv, ClockStory, Deciding
<1> QED BY <1>2, <1>3, <1>8, <1>9, <1>10 DEF WorkerInv

LEMMA LedgerMovesKeeps == ASSUME WorkerInv, WorkerChainMoves PROVE WorkerInv'
<1> USE WorkerAssumption
<1>1. PICK state \in LedgerStates :
       /\ state # onChain /\ state.level >= onChain.level
       /\ state.level > 0 => state.level > onChain.level
       /\ onChain.over => state.over
       /\ onChain.level > 0 => state.failed = onChain.failed
       /\ state.level = 0 => ~state.failed
       /\ (onChain.over /\ onChain.level = 0) => state.level = 0
       /\ onChain' = state
       /\ span' = IF workerPc = "reading" THEN span \cup {state} ELSE {state}
  BY DEF WorkerChainMoves
<1>2. /\ workerPc \in {"loop", "reading"}
      /\ UNCHANGED <<workerClock, setBack, workerPc, startedAt, pollIndex, observedAt, seenOnLedger,
                     verdict, rawOpened, rawLog, latestClaims, resultFile, completion, mishaps>>
  BY DEF WorkerChainMoves, hostClock, loopVars, rawVars, resultVars
<1>3. WorkerTypes'
  BY <1>1, <1>2 DEF WorkerInv, WorkerTypes
<1>4. ResultStory' /\ RunStory'
  BY <1>2, LogStays DEF WorkerInv, ResultStory, HasResult, RunStory, BetweenPolls, Deciding
<1>5. ClockStory'
  BY <1>2, LogStays DEF WorkerInv, ClockStory, HasResult, Deciding
<1>6. /\ onChain.level \in 0 .. 3 /\ state.level \in 0 .. 3
      /\ onChain.failed \in BOOLEAN /\ state.failed \in BOOLEAN
      /\ \A s \in span : s.level \in 0 .. 3 /\ s.failed \in BOOLEAN
  BY DEF WorkerInv, WorkerTypes, LedgerStates
<1>7. \A t : LedgerShows(t) => LedgerShows(t)'
  BY <1>1, <1>6 DEF LedgerShows
<1>8. \A s \in span : Precedes(s)'
  <2>1. \A s \in span : Precedes(s)
    BY DEF WorkerInv, LedgerStory
  <2> QED BY <1>1, <1>6, <2>1 DEF Precedes
<1>9. Precedes(state)'
  <2>1. onChain' = state /\ state.level <= state.level
    BY <1>1, <1>6
  <2> QED BY <2>1, Zenon DEF Precedes
<1>10. \A s \in span' : Precedes(s)'
  BY <1>1, <1>8, <1>9
<1> HIDE DEF LedgerShows, Precedes
<1>11. LedgerStory'
  BY <1>2, <1>7, <1>10 DEF WorkerInv, LedgerStory
<1> QED BY <1>3, <1>4, <1>5, <1>11 DEF WorkerInv

LEMMA WorkerClockKeeps == ASSUME WorkerInv, WorkerTick \/ WorkerClockSetBack PROVE WorkerInv'
<1> USE WorkerAssumption
<1>1. /\ workerPc' = workerPc \/ (workerPc = "sleeping" /\ workerPc' = "loop")
      /\ workerPc \notin {"reading", "written"}
      /\ workerClock' \in 0 .. WorkerEnd /\ mishaps' \in 0 .. WorkerMishaps
      /\ setBack' \in BOOLEAN /\ (~setBack' => ~setBack /\ workerClock <= workerClock')
      /\ UNCHANGED <<startedAt, pollIndex, observedAt, seenOnLedger, verdict,
                     rawOpened, rawLog, latestClaims, resultFile, completion, onChain, span>>
  <2>1. workerClock \in 0 .. WorkerEnd /\ mishaps \in 0 .. WorkerMishaps /\ setBack \in BOOLEAN
    BY DEF WorkerInv, WorkerTypes
  <2>2. CASE WorkerTick
    BY <2>1, <2>2 DEF WorkerTick, loopVars, rawVars, resultVars, chainVars
  <2>3. CASE WorkerClockSetBack
    BY <2>1, <2>3 DEF WorkerClockSetBack, Mishap, loopVars, rawVars, resultVars, chainVars
  <2> QED BY <2>2, <2>3
<1>2. WorkerTypes'
  BY <1>1 DEF WorkerInv, WorkerTypes
<1>3. LedgerStory'
  BY <1>1, LedgerStays
<1>4. ResultStory'
  BY <1>1, LogStays DEF WorkerInv, ResultStory, HasResult
<1>5. RunStory'
  BY <1>1, LogStays DEF WorkerInv, RunStory, BetweenPolls, Deciding
<1>6. ClockStory'
  <2>1. \A i \in 1 .. Len(rawLog) : rawLog[i].at \in Int
    BY RawTyped
  <2>2. /\ workerClock \in Int /\ workerClock' \in Int /\ startedAt \in Int
        /\ ObservationDeadlineMs \in Int
    BY <1>1 DEF WorkerInv, WorkerTypes, ValidObservationJob
  <2> QED BY <1>1, <2>1, <2>2, LogStays DEF WorkerInv, ClockStory, HasResult, Deciding
<1> QED BY <1>2, <1>3, <1>4, <1>5, <1>6 DEF WorkerInv

LEMMA WorkerStep == WorkerInv /\ [WorkerNext]_workerVars => WorkerInv'
<1> SUFFICES ASSUME WorkerInv, [WorkerNext]_workerVars PROVE WorkerInv'
  OBVIOUS
<1>1. CASE UNCHANGED workerVars
  <2>1. UNCHANGED <<workerClock, setBack, workerPc, startedAt, pollIndex, observedAt, seenOnLedger,
                    verdict, rawOpened, rawLog, latestClaims, resultFile, completion, onChain, span, mishaps>>
    BY <1>1 DEF workerVars, hostClock, loopVars, rawVars, resultVars, chainVars
  <2>2. WorkerTypes'
    BY <2>1 DEF WorkerInv, WorkerTypes
  <2>3. LedgerStory'
    BY <2>1, LedgerStays
  <2>4. ResultStory' /\ RunStory'
    BY <2>1, LogStays DEF WorkerInv, ResultStory, HasResult, RunStory, BetweenPolls, Deciding
  <2>5. ClockStory'
    BY <2>1, LogStays DEF WorkerInv, ClockStory, HasResult, Deciding
  <2> QED BY <2>2, <2>3, <2>4, <2>5 DEF WorkerInv
<1>2. CASE WorkerNext
  <2>1. CASE ReadersAnswer \/ \E n \in WorkerReaders : ReaderFails(n)
    <3>1. PICK claims \in [WorkerReaders -> Claims] :
            /\ Records(claims) /\ mishaps' \in 0 .. WorkerMishaps
            /\ \A n \in WorkerReaders \ LyingWorkerReaders : Honest(claims[n])
      BY <2>1, PollIsRecorded
    <3> QED BY <3>1, RecordsKeeps
  <2> QED BY <1>2, <2>1, WorkerOpensKeeps, PollBeginsKeeps, JudgeKeeps, WritesResultKeeps, CompletesKeeps,
          WorkerStopsKeeps, LedgerMovesKeeps, WorkerClockKeeps DEF WorkerNext, WorkerRuns
<1> QED BY <1>1, <1>2

\* WorkerInv is inductive: what a run's log decided so far, what its result says
\* of the log, its times, and what no honest reader can have said wrongly.
THEOREM WorkerInvariant == WorkerSpec => []WorkerInv
BY WorkerBegins, WorkerStep, PTL DEF WorkerSpec

\* The worker's variables, the log and the files have their types.
THEOREM WorkerTyped == WorkerSpec => []WorkerTypeOK
<1>1. WorkerInv => WorkerTypeOK
  BY DEF WorkerInv, WorkerTypes, WorkerTypeOK, ResultRecord
<1> QED BY <1>1, WorkerInvariant, PTL

\* A completed observation recomputes, is true of the ledger, and is one.
THEOREM ObservationSound == WorkerSpec => []ObservationIsSound
<1>1. WorkerInv => ResultReconciles
  <2>1. SUFFICES ASSUME WorkerInv, completion # NotCompleted, HasResult, ~setBack,
                        resultFile.decidedAt <= ExpiresAt, rawLog[1].at = startedAt
                 PROVE  Recomputes(rawLog, latestClaims, resultFile)
    BY DEF ResultReconciles
  <2> DEFINE n == Len(rawLog)
  <2>2. /\ n > 0 /\ EarlierUndecided /\ resultFile.verdict = Judged /\ resultFile.claims = latestClaims
    BY <2>1 DEF WorkerInv, ResultStory
  <2>3. n \in Nat /\ rawLog # <<>> /\ rawOpened
    BY <2>1, <2>2 DEF WorkerInv, WorkerTypes, RunStory
  <2>4. /\ \A i \in 1 .. n : rawLog[i].at \in Int
        /\ resultFile.decidedAt \in Int /\ {IssuedAt, ExpiresAt} \subseteq Int
        /\ startedAt \in Int /\ ObservationDeadlineMs \in Int
    <3>1. resultFile \in ResultRecord
      BY <2>1 DEF WorkerInv, WorkerTypes, HasResult, NoFile, TornFile
    <3>2. resultFile.decidedAt \in 0 .. WorkerEnd
      BY <3>1 DEF ResultRecord
    <3>3. \A i \in 1 .. n : rawLog[i].at \in Int
      BY <2>1, RawTyped
    <3> QED BY <2>1, <3>2, <3>3, WorkerAssumption DEF WorkerInv, WorkerTypes, ValidObservationJob
  <2>5. /\ IssuedAt <= startedAt
        /\ \A i \in 1 .. n : /\ startedAt <= rawLog[i].at /\ rawLog[i].at <= resultFile.decidedAt
                             /\ i > 1 => rawLog[i - 1].at <= rawLog[i].at
        /\ LastDerived = NoVerdict => resultFile.decidedAt >= startedAt + ObservationDeadlineMs
    BY <2>1, <2>3 DEF WorkerInv, ClockStory
  <2>6. \A i \in 1 .. n : rawLog[i].at \in IssuedAt .. ExpiresAt /\ (i > 1 => rawLog[i].at >= rawLog[i - 1].at)
    <3>1. \A i \in 1 .. n : i > 1 => i - 1 \in 1 .. n
      BY <2>3
    <3> QED BY <2>1, <2>4, <2>5, <3>1
  <2>7. \A i \in 1 .. n : rawLog[i].index = i - 1 /\ (i < n => Derived(rawLog, i) = NoVerdict)
    BY <2>1, <2>2, <2>3 DEF WorkerInv, RunStory, EarlierUndecided
  <2>8. RawInOrder(rawLog)
    BY <2>3, <2>6, <2>7 DEF RawInOrder
  <2>9. n \in 1 .. n /\ resultFile.decidedAt \in rawLog[n].at .. ExpiresAt
    BY <2>1, <2>2, <2>3, <2>4, <2>5
  <2>10. LastDerived = Derived(rawLog, n)
    BY DEF LastDerived
  <2> HIDE DEF n
  <2>11. resultFile.verdict = IF Derived(rawLog, n) # NoVerdict THEN Derived(rawLog, n)
                              ELSE DeadlineVerdict(latestClaims)
    BY <2>2, <2>10 DEF Judged
  <2>12. Derived(rawLog, n) = NoVerdict => resultFile.decidedAt >= rawLog[1].at + ObservationDeadlineMs
    BY <2>1, <2>5, <2>10
  <2> QED BY <2>2, <2>8, <2>9, <2>11, <2>12 DEF Recomputes, n
<1>2. WorkerInv => ReconciledIsTrue
  <2>1. SUFFICES ASSUME WorkerInv, HasResult, Cardinality(LyingWorkerReaders) < 2
                 PROVE  LedgerShows(resultFile.verdict.terminal)
    BY DEF ReconciledIsTrue, LedgerShows
  <2>2. resultFile.verdict = Judged /\ Len(rawLog) > 0
    BY <2>1 DEF WorkerInv, ResultStory
  <2>3. Len(rawLog) \in 1 .. Len(rawLog)
    BY <2>1, <2>2 DEF WorkerInv, WorkerTypes
  <2>4. LedgerShows(rawLog[Len(rawLog)].quorum.terminal) /\ LedgerShows(DeadlineVerdict(latestClaims).terminal)
    BY <2>1, <2>3 DEF WorkerInv, LedgerStory
  <2>5. LastDerived \in {NoVerdict, rawLog[Len(rawLog)].quorum}
    BY Zenon DEF LastDerived, Derived, WithHistory
  <2>6. LedgerShows(NoVerdict.terminal)
    BY NoVerdictTyped DEF LedgerShows
  <2> QED BY <2>2, <2>4, <2>5, <2>6 DEF Judged
<1>3. WorkerInv => OneObservation
  BY DEF WorkerInv, RunStory, ResultStory, OneObservation
<1> QED BY <1>1, <1>2, <1>3, WorkerInvariant, PTL DEF ObservationIsSound

----------------------------------------------------------------------------
(* The telemetry of a transaction.                                         *)

HeightRecords == [at : Nat, past : BOOLEAN, negative : BOOLEAN]
Evaluations ==
  [latest : [TelemetryReaders -> Statuses], at : [QuorumStates -> Nat], everSeen : BOOLEAN,
   heights : [TelemetryReaders -> HeightRecords], paired : SUBSET TelemetryReaders,
   expired : BOOLEAN, support : SUBSET HeightRecords]
HeightAnswers == [past : BOOLEAN]
Readings == [status : Statuses \union {Unread, Unavailable},
             height : HeightAnswers \union {Unread, Unavailable}]
HonestTelemetry == TelemetryReaders \ LyingTelemetry

TrackTypes ==
  /\ trackPc \in {"idle", "polling", "recording", "sleeping", "returned", "rejected"}
  /\ recorded \in 0 .. 3 /\ (trackPc # "recording" => recorded = 0)
  /\ trackElapsed \in 0 .. ObservationDeadline
  /\ trackPc = "sleeping" => trackElapsed < ObservationDeadline
  /\ readings \in [TelemetryReaders -> Readings]
  /\ evaluation \in Evaluations /\ negatives \in SUBSET TelemetryReaders
  /\ tx \in Statuses /\ outages \in 0 .. Outages
  /\ deadlineHit \in BOOLEAN /\ lifetimeOver \in BOOLEAN /\ forked \in BOOLEAN

\* A status that the ledger had, of which only what was processed can be lost.
Fits(s) ==
  /\ s.level >= 2 => tx.level >= s.level
  /\ s.level > 0 /\ ~forked => tx.level > 0 /\ (tx.failed <=> s.failed)

\* What an honest reader says is so, and is there when it is recorded.
ReadingStory ==
  \A n \in HonestTelemetry :
    /\ Fits(evaluation.latest[n])
    /\ readings[n].status \in Statuses => Fits(readings[n].status)
    /\ readings[n].height \in HeightAnswers /\ readings[n].height.past => lifetimeOver
    /\ n \in evaluation.paired =>
         /\ lifetimeOver
         /\ readings[n].height \in HeightAnswers => readings[n].height.past
    /\ trackPc = "recording" /\ n > recorded =>
         readings[n].status # Unread /\ readings[n].height # Unread

\* What two compatible claims established is true, one of them being honest.
EstablishedStory ==
  Cardinality(LyingTelemetry) < 2 =>
    /\ evaluation.at["FINALIZED"] > 0 => tx.level = 3
    /\ evaluation.at["CONFIRMED"] > 0 => tx.level >= 2
    /\ evaluation.at["OBSERVED_EXECUTION_FAILED"] > 0 /\ ~forked => tx.level > 0 /\ tx.failed
    /\ evaluation.at["OBSERVED_EXECUTION_SUCCESS"] > 0 /\ ~forked => tx.level > 0 /\ ~tx.failed
    /\ evaluation.expired => lifetimeOver

\* A height's event is one of its reader's.
OfReader(n, height) == height = NoHeight \/ \E poll \in Nat : height.at = 3 * poll + n

ExpiryStory ==
  /\ evaluation.paired \subseteq negatives
  /\ \A n \in evaluation.paired : evaluation.heights[n].past
  /\ \A n \in TelemetryReaders : OfReader(n, evaluation.heights[n])
  /\ Cardinality(evaluation.support) \in {0, 2}
  /\ evaluation.expired => Cardinality(negatives) >= 2
  /\ deadlineHit => trackPc = "returned" /\ (evaluation.expired => evaluation.everSeen)

TrackInv == TrackTypes /\ ReadingStory /\ EstablishedStory /\ ExpiryStory

----------------------------------------------------------------------------
LEMMA TelemetryReadersAre ==
  /\ TelemetryReaders = 1 .. 3 /\ IsFiniteSet(TelemetryReaders) /\ Cardinality(TelemetryReaders) = 3
<1>1. TelemetryReaders = 1 .. 3
  BY DEF TelemetryReaders
<1>2. IsFiniteSet(1 .. 3) /\ Cardinality(1 .. 3) = IF 1 > 3 THEN 0 ELSE 3 - 1 + 1
  BY ONLY 1 \in Int, 3 \in Int, FS_Interval
<1> QED BY <1>1, <1>2

LEMMA QuorumStatesAre ==
  QuorumStates = {"OBSERVED_EXECUTION_SUCCESS", "OBSERVED_EXECUTION_FAILED", "CONFIRMED", "FINALIZED"}
BY DEF QuorumStates, StateRank

LEMMA EventNumberIs ==
  ASSUME NEW poll, NEW n PROVE EventNumber(poll, n) = 3 * poll + n
BY TelemetryReadersAre DEF EventNumber

LEMMA AnswersDiffer ==
  /\ Unread # Unavailable
  /\ Unread \notin Statuses /\ Unavailable \notin Statuses
  /\ Unread \notin HeightAnswers /\ Unavailable \notin HeightAnswers
<1>1. Unread # Unavailable
  BY DEF Unread, Unavailable
<1>2. DOMAIN Unread = {"asked"} /\ DOMAIN Unavailable = {"asked"}
  BY DEF Unread, Unavailable
<1>3. /\ \A s \in Statuses : "level" \in DOMAIN s
      /\ \A h \in HeightAnswers : "past" \in DOMAIN h
  BY DEF Statuses, HeightAnswers
<1> QED BY <1>1, <1>2, <1>3

LEMMA StatusTyped ==
  /\ \A s \in Statuses : s.level \in 0 .. 3 /\ s.failed \in BOOLEAN
  /\ NoStatus \in Statuses /\ NoStatus.level = 0
BY TelemetryAssumption DEF Statuses, NoStatus

\* The greatest of some numbers, by event and rank.
LEMMA LastEntry ==
  ASSUME NEW at \in [QuorumStates -> Nat], NEW entries \in SUBSET QuorumStates, entries # {}
  PROVE  \E s \in entries : \A r \in entries \ {s} :
           at[s] > at[r] \/ (at[s] = at[r] /\ StateRank[s] > StateRank[r])
<1> DEFINE S == "OBSERVED_EXECUTION_SUCCESS"  F == "OBSERVED_EXECUTION_FAILED"
           key(s) == 5 * at[s] + StateRank[s]
           bound == key(S) + key(F) + key("CONFIRMED") + key("FINALIZED")
           T == {bound - key(s) : s \in entries}
<1>1. QuorumStates = {S, F, "CONFIRMED", "FINALIZED"}
  BY QuorumStatesAre
<1>2. /\ StateRank[S] = 1 /\ StateRank[F] = 2
      /\ StateRank["CONFIRMED"] = 3 /\ StateRank["FINALIZED"] = 4
  BY DEF StateRank
<1>3. \A s \in QuorumStates : at[s] \in Nat /\ StateRank[s] \in 1 .. 4
  BY <1>1, <1>2
<1>4. \A s, r \in QuorumStates : s # r => StateRank[s] # StateRank[r]
  BY <1>1, <1>2
<1>5. \A s \in QuorumStates : key(s) \in Nat /\ bound \in Nat /\ bound - key(s) \in Nat
  <2>1. key(S) \in Nat /\ key(F) \in Nat /\ key("CONFIRMED") \in Nat /\ key("FINALIZED") \in Nat
    BY <1>1, <1>3
  <2> HIDE DEF key
  <2> QED BY <1>1, <2>1
<1> HIDE DEF bound
<1>6. T \in SUBSET Nat /\ T # {}
  BY <1>5
<1>7. PICK m \in T : \A k \in T : m <= k
  BY <1>6, LeastNatural
<1>8. PICK s \in entries : m = bound - key(s)
  BY <1>7
<1>9. ASSUME NEW r \in entries \ {s}
      PROVE at[s] > at[r] \/ (at[s] = at[r] /\ StateRank[s] > StateRank[r])
  <2>1. bound - key(s) <= bound - key(r)
    BY <1>7, <1>8
  <2>2. key(r) <= key(s)
    BY <1>5, <2>1
  <2> QED BY <1>3, <1>4, <2>2
<1> QED BY <1>9

\* What the timeline says last is an entry it has.
LEMMA DerivedFrom ==
  ASSUME NEW e, e.at \in [QuorumStates -> Nat], NEW atDeadline \in BOOLEAN
  PROVE  /\ DerivedState(e, atDeadline) = "EXPIRED" <=> e.expired /\ ~e.everSeen
         /\ DerivedState(e, atDeadline) = "FINALIZED" => e.at["FINALIZED"] > 0
         /\ DerivedState(e, atDeadline) = "CONFIRMED" => e.at["CONFIRMED"] > 0
<1> DEFINE established == {s \in QuorumStates : e.at[s] > 0}
           entries == IF "OBSERVED_EXECUTION_FAILED" \in established
                      THEN established \ {"OBSERVED_EXECUTION_SUCCESS"} ELSE established
           last == CHOOSE s \in entries : \A r \in entries \ {s} :
                     e.at[s] > e.at[r] \/ (e.at[s] = e.at[r] /\ StateRank[s] > StateRank[r])
<1>1. DerivedState(e, atDeadline) =
        IF e.expired /\ ~e.everSeen THEN "EXPIRED"
        ELSE IF atDeadline /\ entries \intersect {"CONFIRMED", "FINALIZED"} = {} THEN "OBSERVATION_INCONCLUSIVE"
        ELSE IF entries = {} THEN "OBSERVATION_PENDING"
        ELSE last
  BY Zenon DEF DerivedState
<1>2. entries \in SUBSET QuorumStates /\ \A s \in entries : e.at[s] > 0
  OBVIOUS
<1> HIDE DEF entries
<1>3. entries # {} => last \in entries
  <2>1. SUFFICES ASSUME entries # {} PROVE last \in entries
    OBVIOUS
  <2>2. \E s \in entries : \A r \in entries \ {s} :
          e.at[s] > e.at[r] \/ (e.at[s] = e.at[r] /\ StateRank[s] > StateRank[r])
    BY <1>2, <2>1, LastEntry
  <2> QED BY <2>2, Zenon
<1> HIDE DEF last
<1> QED BY <1>1, <1>2, <1>3, QuorumStatesAre

LEMMA HonestOfTwo ==
  ASSUME NEW S \in SUBSET TelemetryReaders, Cardinality(S) >= 2, Cardinality(LyingTelemetry) < 2
  PROVE  \E n \in S : n \in HonestTelemetry
<1>1. IsFiniteSet(LyingTelemetry) /\ IsFiniteSet(S)
  BY TelemetryReadersAre, FS_Subset, TelemetryAssumption
<1>2. S \subseteq LyingTelemetry => Cardinality(S) <= Cardinality(LyingTelemetry)
  BY <1>1, FS_Subset
<1>3. Cardinality(S) \in Nat /\ Cardinality(LyingTelemetry) \in Nat
  BY <1>1, FS_CardinalityType
<1> QED BY <1>2, <1>3 DEF HonestTelemetry

\* Of heights past the lifetime, two are cited.
LEMMA TwoCited ==
  ASSUME NEW heights \in [TelemetryReaders -> HeightRecords],
         \A n \in TelemetryReaders : OfReader(n, heights[n]),
         NEW paired \in SUBSET TelemetryReaders, Cardinality(paired) >= 2,
         \A n \in paired : heights[n].past
  PROVE  FirstPast(heights) \in SUBSET HeightRecords /\ Cardinality(FirstPast(heights)) = 2
<1> DEFINE past == {n \in TelemetryReaders : heights[n].past}
           earlier(n) == {m \in past : heights[m].at < heights[n].at}
<1>1. \A n \in past : heights[n].at \in Nat
  BY DEF HeightRecords
<1>2. \A n, m \in past : heights[n].at = heights[m].at => n = m
  <2>1. SUFFICES ASSUME NEW n \in past, NEW m \in past, heights[n].at = heights[m].at PROVE n = m
    OBVIOUS
  <2>2. heights[n] # NoHeight /\ heights[m] # NoHeight
    BY DEF NoHeight
  <2>3. PICK p \in Nat : heights[n].at = 3 * p + n
    BY <2>2 DEF OfReader
  <2>4. PICK q \in Nat : heights[m].at = 3 * q + m
    BY <2>2 DEF OfReader
  <2>5. n \in 1 .. 3 /\ m \in 1 .. 3
    BY TelemetryReadersAre
  <2>6. 3 * p + n = 3 * q + m
    BY <2>1, <2>3, <2>4
  <2> QED BY ONLY p \in Nat, q \in Nat, <2>5, <2>6
<1>3. \E n, m \in past : n # m
  <2>1. SUFFICES ASSUME \A n, m \in past : n = m PROVE FALSE
    OBVIOUS
  <2>2. paired \subseteq past
    OBVIOUS
  <2>3. paired = {} \/ \E n : paired = {n}
    BY <2>1, <2>2
  <2>4. Cardinality(paired) \in {0, 1}
    BY <2>3, FS_EmptySet, FS_Singleton
  <2> QED BY <2>4
<1>4. \E x, y \in past : /\ heights[x].at < heights[y].at
                         /\ \A z \in past \ {x, y} : heights[y].at < heights[z].at
  <2>1. past \in SUBSET {1, 2, 3}
    BY TelemetryReadersAre
  <2> HIDE DEF past
  <2> QED BY <1>1, <1>2, <1>3, <2>1
<1>5. PICK x \in past, y \in past : /\ heights[x].at < heights[y].at
                                    /\ \A z \in past \ {x, y} : heights[y].at < heights[z].at
  BY <1>4
<1>6. earlier(x) = {} /\ earlier(y) = {x}
  BY <1>1, <1>5
<1>7. ASSUME NEW z \in past \ {x, y} PROVE ~(Cardinality(earlier(z)) < 2)
  <2>1. {x, y} \subseteq earlier(z)
    BY <1>1, <1>5
  <2>2. IsFiniteSet(earlier(z))
    BY TelemetryReadersAre, FS_Subset
  <2>3. x # y
    BY <1>1, <1>5
  <2>4. Cardinality({x, y}) = 2
    <3>1. {x, y} = {x} \union {y} /\ y \notin {x}
      BY <2>3
    <3>2. IsFiniteSet({x}) /\ Cardinality({x}) = 1
      BY FS_Singleton
    <3>3. Cardinality({x} \union {y}) = Cardinality({x}) + 1
      BY <3>1, <3>2, FS_AddElement
    <3> QED BY <3>1, <3>2, <3>3
  <2>5. Cardinality({x, y}) <= Cardinality(earlier(z)) /\ Cardinality(earlier(z)) \in Nat
    BY <2>1, <2>2, FS_Subset, FS_CardinalityType
  <2> HIDE DEF earlier
  <2> QED BY <2>4, <2>5
<1>8. Cardinality(earlier(x)) < 2 /\ Cardinality(earlier(y)) < 2
  <2>1. Cardinality({}) = 0
    BY FS_EmptySet
  <2>2. Cardinality({x}) = 1
    BY FS_Singleton
  <2> HIDE DEF earlier
  <2> QED BY <1>6, <2>1, <2>2
<1>9. {m \in past : Cardinality(earlier(m)) < 2} = {x, y}
  <2> HIDE DEF earlier, past
  <2> QED BY <1>7, <1>8
<1>10. FirstPast(heights) = {heights[n] : n \in {m \in past : Cardinality(earlier(m)) < 2}}
  BY Zenon DEF FirstPast, TelemetryQuorum
<1>11. FirstPast(heights) = {heights[x], heights[y]}
  BY <1>9, <1>10
<1>12. heights[x] # heights[y] /\ {heights[x], heights[y]} = {heights[x]} \union {heights[y]}
  BY <1>1, <1>5
<1>13. IsFiniteSet({heights[x]}) /\ Cardinality({heights[x]}) = 1
  BY FS_Singleton
<1>14. Cardinality({heights[x]} \union {heights[y]}) = Cardinality({heights[x]}) + 1
  BY <1>12, <1>13, FS_AddElement
<1>15. Cardinality({heights[x], heights[y]}) = 2
  <2> HIDE DEF earlier, past
  <2> QED BY <1>12, <1>13, <1>14
<1>16. FirstPast(heights) \in SUBSET HeightRecords
  <2>1. heights[x] \in HeightRecords /\ heights[y] \in HeightRecords
    BY <1>5
  <2> HIDE DEF earlier, past
  <2> QED BY <1>11, <2>1
<1> QED BY ONLY <1>11, <1>15, <1>16

----------------------------------------------------------------------------
\* The events of one reader.

LEMMA EvaluationTyped ==
  ASSUME NEW e \in Evaluations
  PROVE  /\ e.latest \in [TelemetryReaders -> Statuses] /\ e.at \in [QuorumStates -> Nat]
         /\ e.everSeen \in BOOLEAN /\ e.heights \in [TelemetryReaders -> HeightRecords]
         /\ e.paired \in SUBSET TelemetryReaders /\ e.expired \in BOOLEAN
         /\ e.support \in SUBSET HeightRecords
BY DEF Evaluations

\* What a status event, and a height event, leaves.
StatusLeaves(e, n, status, after) ==
  /\ after \in Evaluations
  /\ after.latest = [e.latest EXCEPT ![n] = status]
  /\ after.everSeen <=> (e.everSeen \/ status.level > 0)
  /\ \A s \in QuorumStates :
       after.at[s] > 0 => e.at[s] > 0 \/ s \in StatusSnapshot(after.latest)
  /\ after.heights = e.heights /\ after.paired = e.paired
  /\ after.expired = e.expired /\ after.support = e.support

PairedAfter(e, n, past, status) ==
  IF ~PairedNegative(status) THEN e.paired
  ELSE IF past THEN e.paired \union {n} ELSE e.paired \ {n}

HeightsAfter(e, n, past, status, at) ==
  [e.heights EXCEPT ![n] = [at |-> at, past |-> past, negative |-> status = NoStatus]]

FoundAfter(e, n, past, status) ==
  ~e.expired /\ PairedNegative(status) /\ Cardinality(PairedAfter(e, n, past, status)) >= 2

HeightLeaves(e, n, past, status, at, after) ==
  /\ after \in Evaluations
  /\ after.latest = e.latest /\ after.everSeen = e.everSeen /\ after.at = e.at
  /\ after.heights = HeightsAfter(e, n, past, status, at)
  /\ after.paired = PairedAfter(e, n, past, status)
  /\ after.expired <=> (e.expired \/ FoundAfter(e, n, past, status))
  /\ after.support = IF FoundAfter(e, n, past, status) THEN FirstPast(after.heights) ELSE e.support

LEMMA StatusRecorded ==
  ASSUME NEW e \in Evaluations, NEW n \in TelemetryReaders, NEW status \in Statuses,
         NEW at \in Nat
  PROVE  StatusLeaves(e, n, status, WithStatus(e, n, status, at))
<1> DEFINE latest == [e.latest EXCEPT ![n] = status]
           seen == e.everSeen \/ status.level > 0
           times == [s \in QuorumStates |->
                       IF e.at[s] = 0 /\ s \in StatusSnapshot(latest) THEN at ELSE e.at[s]]
           after == [e EXCEPT !.latest = latest, !.everSeen = seen, !.at = times]
<1>1. WithStatus(e, n, status, at) = after
  BY Zenon DEF WithStatus
<1>2. /\ latest \in [TelemetryReaders -> Statuses] /\ seen \in BOOLEAN
      /\ times \in [QuorumStates -> Nat]
  BY EvaluationTyped
<1>3. \A s \in QuorumStates : times[s] > 0 => e.at[s] > 0 \/ s \in StatusSnapshot(latest)
  BY EvaluationTyped
<1> HIDE DEF latest, seen, times
<1>4. after \in Evaluations
  BY <1>2 DEF Evaluations
<1>5. /\ after.latest = latest /\ after.everSeen = seen /\ after.at = times
      /\ after.heights = e.heights /\ after.paired = e.paired
      /\ after.expired = e.expired /\ after.support = e.support
  BY DEF Evaluations
<1>6. after.everSeen <=> (e.everSeen \/ status.level > 0)
  BY <1>5, Zenon DEF seen
<1> HIDE DEF after
<1>7. /\ after.latest = [e.latest EXCEPT ![n] = status]
      /\ \A s \in QuorumStates :
           after.at[s] > 0 => e.at[s] > 0 \/ s \in StatusSnapshot(after.latest)
  BY <1>3, <1>5, Zenon DEF latest
<1>8. StatusLeaves(e, n, status, after)
  BY <1>4, <1>5, <1>6, <1>7, Zenon DEF StatusLeaves
<1> QED BY <1>1, <1>8, Zenon

LEMMA HeightRecorded ==
  ASSUME NEW e \in Evaluations, NEW n \in TelemetryReaders, NEW past \in BOOLEAN, NEW status,
         NEW at \in Nat
  PROVE  HeightLeaves(e, n, past, status, at, WithHeight(e, n, past, status, at))
<1> DEFINE heights == HeightsAfter(e, n, past, status, at)
           paired == PairedAfter(e, n, past, status)
           found == FoundAfter(e, n, past, status)
           gone == e.expired \/ found
           support == IF found THEN FirstPast(heights) ELSE e.support
           after == [e EXCEPT !.heights = heights, !.paired = paired, !.expired = gone,
                              !.support = support]
<1>1. WithHeight(e, n, past, status, at) = after
  BY Zenon DEF WithHeight, HeightsAfter, PairedAfter, FoundAfter, TelemetryQuorum
<1>2. heights \in [TelemetryReaders -> HeightRecords]
  <2>1. (status = NoStatus) \in BOOLEAN
    OBVIOUS
  <2>2. [at |-> at, past |-> past, negative |-> status = NoStatus] \in HeightRecords
    BY <2>1 DEF HeightRecords
  <2> QED BY <2>2, EvaluationTyped DEF HeightsAfter
<1>3. paired \in SUBSET TelemetryReaders
  BY EvaluationTyped DEF PairedAfter
<1>4. gone \in BOOLEAN
  BY EvaluationTyped DEF FoundAfter
<1>5. support \in SUBSET HeightRecords
  <2>1. FirstPast(heights) \in SUBSET HeightRecords
    BY <1>2 DEF FirstPast
  <2> QED BY <2>1, EvaluationTyped
<1> HIDE DEF heights, paired, gone, support
<1>6. after \in Evaluations
  BY <1>2, <1>3, <1>4, <1>5 DEF Evaluations
<1>7. /\ after.latest = e.latest /\ after.everSeen = e.everSeen /\ after.at = e.at
      /\ after.heights = heights /\ after.paired = paired
      /\ after.expired = gone /\ after.support = support
  BY DEF Evaluations
<1> HIDE DEF after
<1>8. after.expired <=> (e.expired \/ FoundAfter(e, n, past, status))
  BY <1>7, Zenon DEF gone
<1>9. HeightLeaves(e, n, past, status, at, after)
  BY <1>6, <1>7, <1>8, Zenon DEF HeightLeaves, heights, paired, support
<1> QED BY <1>1, <1>9, Zenon

\* What is established now is true of the ledger if what honest readers say fits.
LEMMA SnapshotIsTrue ==
  ASSUME TrackTypes, Cardinality(LyingTelemetry) < 2,
         NEW latest \in [TelemetryReaders -> Statuses],
         \A n \in HonestTelemetry : Fits(latest[n])
  PROVE  /\ "FINALIZED" \in StatusSnapshot(latest) => tx.level = 3
         /\ "CONFIRMED" \in StatusSnapshot(latest) => tx.level >= 2
         /\ "OBSERVED_EXECUTION_FAILED" \in StatusSnapshot(latest) /\ ~forked
              => tx.level > 0 /\ tx.failed
         /\ "OBSERVED_EXECUTION_SUCCESS" \in StatusSnapshot(latest) /\ ~forked
              => tx.level > 0 /\ ~tx.failed
<1>1. /\ Seen(latest, TRUE) \in SUBSET TelemetryReaders
      /\ Seen(latest, FALSE) \in SUBSET TelemetryReaders
  BY DEF Seen
<1>2. Winning(latest) \in SUBSET TelemetryReaders
  BY <1>1 DEF Winning
<1>3. /\ Reached(latest, 2) \in SUBSET TelemetryReaders
      /\ Reached(latest, 3) \in SUBSET TelemetryReaders
  BY <1>2 DEF Reached
<1>4. /\ tx \in Statuses /\ tx.level \in 0 .. 3 /\ tx.failed \in BOOLEAN
      /\ \A n \in TelemetryReaders : latest[n].level \in 0 .. 3 /\ latest[n].failed \in BOOLEAN
  BY StatusTyped DEF TrackTypes
<1>5. "FINALIZED" \in StatusSnapshot(latest) => tx.level = 3
  <2>1. SUFFICES ASSUME "FINALIZED" \in StatusSnapshot(latest) PROVE tx.level = 3
    OBVIOUS
  <2>2. Cardinality(Reached(latest, 3)) >= 2
    BY <2>1 DEF StatusSnapshot, TelemetryQuorum
  <2>3. PICK n \in Reached(latest, 3) : n \in HonestTelemetry
    BY <1>3, <2>2, HonestOfTwo
  <2>4. latest[n].level >= 3 /\ n \in TelemetryReaders
    BY <1>3, <2>3 DEF Reached
  <2>5. tx.level >= latest[n].level
    BY <1>4, <2>3, <2>4 DEF Fits
  <2> QED BY <1>4, <2>4, <2>5
<1>6. "CONFIRMED" \in StatusSnapshot(latest) => tx.level >= 2
  <2>1. SUFFICES ASSUME "CONFIRMED" \in StatusSnapshot(latest) PROVE tx.level >= 2
    OBVIOUS
  <2>2. Cardinality(Reached(latest, 2)) >= 2
    BY <2>1 DEF StatusSnapshot, TelemetryQuorum
  <2>3. PICK n \in Reached(latest, 2) : n \in HonestTelemetry
    BY <1>3, <2>2, HonestOfTwo
  <2>4. latest[n].level >= 2 /\ n \in TelemetryReaders
    BY <1>3, <2>3 DEF Reached
  <2>5. tx.level >= latest[n].level
    BY <1>4, <2>3, <2>4 DEF Fits
  <2> QED BY <1>4, <2>4, <2>5
<1>7. "OBSERVED_EXECUTION_FAILED" \in StatusSnapshot(latest) /\ ~forked => tx.level > 0 /\ tx.failed
  <2>1. SUFFICES ASSUME "OBSERVED_EXECUTION_FAILED" \in StatusSnapshot(latest), ~forked
                 PROVE  tx.level > 0 /\ tx.failed
    OBVIOUS
  <2>2. Cardinality(Seen(latest, TRUE)) >= 2
    BY <2>1 DEF StatusSnapshot, TelemetryQuorum
  <2>3. PICK n \in Seen(latest, TRUE) : n \in HonestTelemetry
    BY <1>1, <2>2, HonestOfTwo
  <2>4. latest[n].level > 0 /\ latest[n].failed = TRUE
    BY <2>3 DEF Seen
  <2> QED BY <2>1, <2>3, <2>4 DEF Fits
<1>8. "OBSERVED_EXECUTION_SUCCESS" \in StatusSnapshot(latest) /\ ~forked => tx.level > 0 /\ ~tx.failed
  <2>1. SUFFICES ASSUME "OBSERVED_EXECUTION_SUCCESS" \in StatusSnapshot(latest), ~forked
                 PROVE  tx.level > 0 /\ ~tx.failed
    OBVIOUS
  <2>2. Cardinality(Seen(latest, FALSE)) >= 2
    BY <2>1 DEF StatusSnapshot, TelemetryQuorum
  <2>3. PICK n \in Seen(latest, FALSE) : n \in HonestTelemetry
    BY <1>1, <2>2, HonestOfTwo
  <2>4. latest[n].level > 0 /\ latest[n].failed = FALSE
    BY <2>3 DEF Seen
  <2> QED BY <2>1, <2>3, <2>4 DEF Fits
<1> QED BY <1>5, <1>6, <1>7, <1>8

\* What recording one reader's results of a poll leaves.
ReaderRecorded(e, n, result, at, after) ==
  /\ after \in Evaluations
  /\ after.latest = IF result.status = Unavailable THEN e.latest
                    ELSE [e.latest EXCEPT ![n] = result.status]
  /\ e.everSeen => after.everSeen
  /\ \A s \in QuorumStates :
       after.at[s] > 0 => e.at[s] > 0 \/ s \in StatusSnapshot(after.latest)
  /\ IF result.height = Unavailable
     THEN /\ after.heights = e.heights /\ after.paired = e.paired
          /\ after.expired = e.expired /\ after.support = e.support
     ELSE LET past == result.height.past IN
          /\ after.heights = HeightsAfter(e, n, past, result.status, at)
          /\ after.paired = PairedAfter(e, n, past, result.status)
          /\ after.expired <=> (e.expired \/ FoundAfter(e, n, past, result.status))
          /\ after.support = IF FoundAfter(e, n, past, result.status)
                             THEN FirstPast(after.heights) ELSE e.support

LEMMA ReaderIsRecorded ==
  ASSUME NEW e \in Evaluations, NEW n \in TelemetryReaders, NEW at \in Nat,
         NEW result \in Readings, result.status # Unread, result.height # Unread
  PROVE  ReaderRecorded(e, n, result, at, WithReader(e, n, result, at))
<1> DEFINE first == IF result.status = Unavailable THEN e ELSE WithStatus(e, n, result.status, at)
           after == WithReader(e, n, result, at)
<1>1. after = IF result.height = Unavailable THEN first
              ELSE WithHeight(first, n, result.height.past, result.status, at)
  BY Zenon DEF WithReader
<1>2. /\ result.status = Unavailable \/ result.status \in Statuses
      /\ result.height = Unavailable \/ result.height \in HeightAnswers
  BY DEF Readings
<1>3. /\ first \in Evaluations
      /\ first.latest = IF result.status = Unavailable THEN e.latest
                        ELSE [e.latest EXCEPT ![n] = result.status]
      /\ e.everSeen => first.everSeen
      /\ \A s \in QuorumStates :
           first.at[s] > 0 => e.at[s] > 0 \/ s \in StatusSnapshot(first.latest)
      /\ first.heights = e.heights /\ first.paired = e.paired
      /\ first.expired = e.expired /\ first.support = e.support
  <2>1. CASE result.status = Unavailable
    BY <2>1
  <2>2. CASE result.status # Unavailable
    <3>1. result.status \in Statuses
      BY <1>2, <2>2
    <3>2. first = WithStatus(e, n, result.status, at)
      BY <2>2
    <3> HIDE DEF first
    <3>3. StatusLeaves(e, n, result.status, first)
      BY <3>1, <3>2, StatusRecorded, Zenon
    <3> QED BY <2>2, <3>3, Zenon DEF StatusLeaves
  <2> QED BY <2>1, <2>2
<1> HIDE DEF first
<1>4. CASE result.height = Unavailable
  <2>1. after = first
    BY <1>1, <1>4
  <2> HIDE DEF after
  <2>2. ReaderRecorded(e, n, result, at, after)
    BY <1>3, <1>4, <2>1, Zenon DEF ReaderRecorded
  <2> QED BY <2>2 DEF after
<1>5. CASE result.height # Unavailable
  <2> DEFINE past == result.height.past
  <2>1. past \in BOOLEAN
    BY <1>2, <1>5 DEF HeightAnswers
  <2>2. after = WithHeight(first, n, past, result.status, at)
    BY <1>1, <1>5
  <2> HIDE DEF after, past
  <2>3. HeightLeaves(first, n, past, result.status, at, after)
    BY <1>3, <2>1, <2>2, HeightRecorded, Zenon
  <2>4. /\ HeightsAfter(first, n, past, result.status, at) = HeightsAfter(e, n, past, result.status, at)
        /\ PairedAfter(first, n, past, result.status) = PairedAfter(e, n, past, result.status)
    BY <1>3, Zenon DEF HeightsAfter, PairedAfter
  <2>5. FoundAfter(first, n, past, result.status) <=> FoundAfter(e, n, past, result.status)
    BY <1>3, <2>4, Zenon DEF FoundAfter
  <2>6. /\ after.expired <=> (e.expired \/ FoundAfter(e, n, past, result.status))
        /\ after.support = IF FoundAfter(e, n, past, result.status)
                           THEN FirstPast(after.heights) ELSE e.support
    BY <1>3, <2>3, <2>5, Zenon DEF HeightLeaves
  <2>7. /\ e.everSeen => after.everSeen
        /\ \A s \in QuorumStates :
             after.at[s] > 0 => e.at[s] > 0 \/ s \in StatusSnapshot(after.latest)
        /\ after.latest = IF result.status = Unavailable THEN e.latest
                          ELSE [e.latest EXCEPT ![n] = result.status]
        /\ after.heights = HeightsAfter(e, n, past, result.status, at)
        /\ after.paired = PairedAfter(e, n, past, result.status)
    BY <1>3, <2>3, <2>4, Zenon DEF HeightLeaves
  <2>8. ReaderRecorded(e, n, result, at, after)
    BY <1>5, <2>3, <2>6, <2>7, Zenon DEF ReaderRecorded, HeightLeaves, past
  <2> QED BY <2>8 DEF after
<1> QED BY <1>4, <1>5

----------------------------------------------------------------------------
\* The steps.

LEMMA TrackStarts == ASSUME TrackInit PROVE TrackInv
<1>1. /\ Asked \in Readings /\ Asked.status = Unread /\ Asked.height = Unread
      /\ NothingYet \in Evaluations
  <2>1. NoHeight \in HeightRecords
    BY DEF NoHeight, HeightRecords
  <2> QED BY <2>1, StatusTyped DEF Asked, Readings, NothingYet, Evaluations
<1>2. /\ NothingYet.latest = [n \in TelemetryReaders |-> NoStatus]
      /\ NothingYet.at = [s \in QuorumStates |-> 0] /\ ~NothingYet.expired
      /\ NothingYet.paired = {} /\ NothingYet.support = {}
      /\ NothingYet.heights = [n \in TelemetryReaders |-> NoHeight]
  BY DEF NothingYet
<1>3. TrackTypes
  <2>1. readings \in [TelemetryReaders -> Readings] /\ evaluation \in Evaluations
    BY <1>1 DEF TrackInit
  <2>2. trackElapsed \in 0 .. ObservationDeadline /\ outages \in 0 .. Outages
    BY TelemetryAssumption DEF TrackInit, ValidCoordinatorOptions
  <2> QED BY <2>1, <2>2, StatusTyped DEF TrackInit, TrackTypes
<1>4. ReadingStory
  <2>1. ASSUME NEW n \in HonestTelemetry PROVE Fits(evaluation.latest[n])
    <3>1. evaluation.latest[n] = NoStatus
      BY <1>2, <2>1 DEF TrackInit, HonestTelemetry
    <3> QED BY <3>1, StatusTyped DEF Fits
  <2>2. \A n \in HonestTelemetry : readings[n].status = Unread /\ readings[n].height = Unread
    BY <1>1 DEF TrackInit, HonestTelemetry
  <2> QED BY <1>2, <2>1, <2>2, AnswersDiffer DEF TrackInit, ReadingStory
<1>5. EstablishedStory
  <2>1. \A s \in QuorumStates : evaluation.at[s] = 0
    BY <1>2 DEF TrackInit
  <2> QED BY <1>2, <2>1, QuorumStatesAre DEF TrackInit, EstablishedStory
<1>6. ExpiryStory
  <2>1. Cardinality({}) = 0
    BY FS_EmptySet
  <2> QED BY <1>2, <2>1 DEF TrackInit, ExpiryStory, OfReader
<1> QED BY <1>3, <1>4, <1>5, <1>6 DEF TrackInv

LEMMA TrackSubmitsKeeps == ASSUME TrackInv, TrackSubmits PROVE TrackInv'
BY DEF TrackInv, TrackTypes, ReadingStory, EstablishedStory, ExpiryStory, Fits, TrackSubmits

LEMMA TrackSleepsKeeps == ASSUME TrackInv, TrackSleeps PROVE TrackInv'
<1>1. trackElapsed' \in 0 .. ObservationDeadline
  BY TelemetryAssumption DEF TrackInv, TrackTypes, TrackSleeps, ValidCoordinatorOptions
<1> QED BY <1>1 DEF TrackInv, TrackTypes, ReadingStory, EstablishedStory, ExpiryStory, Fits, TrackSleeps

LEMMA ReaderSettlesKeeps == ASSUME TrackInv, ReaderSettles PROVE TrackInv'
<1>1. ReadingStory'
  BY DEF TrackInv, ReadingStory, Fits, ReaderSettles, HonestTelemetry
<1> QED BY <1>1 DEF TrackInv, TrackTypes, EstablishedStory, ExpiryStory, ReaderSettles

LEMMA EndPollKeeps == ASSUME TrackInv, EndPoll PROVE TrackInv'
<1> DEFINE ended == Timeline \in {"FINALIZED", "EXPIRED"}
           late == trackElapsed >= ObservationDeadline
<1>1. /\ trackPc = "recording" /\ recorded' = 0
      /\ trackPc' = IF ended \/ late THEN "returned" ELSE "sleeping"
      /\ deadlineHit' = (~ended /\ late)
      /\ UNCHANGED <<trackElapsed, readings, evaluation, outages, negatives, tx, lifetimeOver, forked>>
  BY DEF EndPoll
<1>2. ended \in BOOLEAN /\ late \in BOOLEAN
  OBVIOUS
<1>3. evaluation.expired /\ ~evaluation.everSeen => ended
  BY DerivedFrom, EvaluationTyped DEF Timeline, TrackInv, TrackTypes
<1>4. trackPc' = "sleeping" => trackElapsed < ObservationDeadline
  BY <1>1, TelemetryAssumption DEF TrackInv, TrackTypes, ValidCoordinatorOptions
<1> HIDE DEF ended, late
<1>5. TrackTypes'
  BY <1>1, <1>2, <1>4 DEF TrackInv, TrackTypes
<1>6. ReadingStory' /\ EstablishedStory'
  BY <1>1 DEF TrackInv, ReadingStory, EstablishedStory, Fits
<1>7. deadlineHit' => trackPc' = "returned" /\ (evaluation.expired => evaluation.everSeen)
  BY <1>1, <1>2, <1>3
<1>8. ExpiryStory'
  BY <1>1, <1>7 DEF TrackInv, ExpiryStory
<1> QED BY <1>5, <1>6, <1>8 DEF TrackInv

LEMMA ReadStatusKeeps ==
  ASSUME TrackInv, NEW n \in TelemetryReaders, ReadStatus(n) PROVE TrackInv'
<1>1. /\ trackPc = "polling" /\ n \in HonestTelemetry
      /\ readings' = [readings EXCEPT ![n].status = tx]
      /\ UNCHANGED <<trackPc, trackElapsed, evaluation, recorded, deadlineHit, outages, negatives,
                     tx, lifetimeOver, forked>>
  BY DEF ReadStatus, Polling, HonestTelemetry
<1>2. /\ readings \in [TelemetryReaders -> Readings] /\ tx \in Statuses
      /\ \A m \in TelemetryReaders : readings[m] \in Readings
  BY DEF TrackInv, TrackTypes
<1>3. /\ \A m \in TelemetryReaders \ {n} : readings'[m] = readings[m]
      /\ readings'[n] = [readings[n] EXCEPT !.status = tx]
  BY <1>1, <1>2
<1>4. /\ readings'[n] \in Readings /\ readings'[n].status = tx
      /\ readings'[n].height = readings[n].height
  BY <1>2, <1>3 DEF Readings
<1>5. readings' \in [TelemetryReaders -> Readings]
  BY <1>1, <1>2, <1>4
<1>6. TrackTypes'
  BY <1>1, <1>5 DEF TrackInv, TrackTypes
<1>7. EstablishedStory' /\ ExpiryStory'
  BY <1>1 DEF TrackInv, EstablishedStory, ExpiryStory
<1>8. Fits(tx)
  BY <1>2, StatusTyped DEF Fits
<1>9. ReadingStory'
  BY <1>1, <1>3, <1>4, <1>8 DEF TrackInv, ReadingStory, Fits, HonestTelemetry
<1> QED BY <1>6, <1>7, <1>9 DEF TrackInv

LEMMA ReadHeightKeeps ==
  ASSUME TrackInv, NEW n \in TelemetryReaders, ReadHeight(n) PROVE TrackInv'
<1> DEFINE answer == [past |-> lifetimeOver]
<1>1. /\ trackPc = "polling" /\ n \in HonestTelemetry
      /\ readings' = [readings EXCEPT ![n].height = answer]
      /\ UNCHANGED <<trackPc, trackElapsed, evaluation, recorded, deadlineHit, outages, negatives,
                     tx, lifetimeOver, forked>>
  BY DEF ReadHeight, Polling, HonestTelemetry
<1>2. /\ readings \in [TelemetryReaders -> Readings] /\ lifetimeOver \in BOOLEAN
      /\ \A m \in TelemetryReaders : readings[m] \in Readings
  BY DEF TrackInv, TrackTypes
<1>3. answer \in HeightAnswers /\ answer.past = lifetimeOver
  BY <1>2 DEF HeightAnswers
<1> HIDE DEF answer
<1>4. /\ \A m \in TelemetryReaders \ {n} : readings'[m] = readings[m]
      /\ readings'[n] = [readings[n] EXCEPT !.height = answer]
  BY <1>1, <1>2
<1>5. /\ readings'[n] \in Readings /\ readings'[n].height = answer
      /\ readings'[n].status = readings[n].status
  BY <1>2, <1>3, <1>4 DEF Readings
<1>6. readings' \in [TelemetryReaders -> Readings]
  BY <1>1, <1>2, <1>5
<1>7. TrackTypes'
  BY <1>1, <1>6 DEF TrackInv, TrackTypes
<1>8. EstablishedStory' /\ ExpiryStory'
  BY <1>1 DEF TrackInv, EstablishedStory, ExpiryStory
<1>9. ReadingStory'
  BY <1>1, <1>3, <1>4, <1>5 DEF TrackInv, ReadingStory, Fits, HonestTelemetry
<1> QED BY <1>7, <1>8, <1>9 DEF TrackInv

LEMMA RequestFailsKeeps ==
  ASSUME TrackInv, NEW n \in TelemetryReaders, RequestFails(n) PROVE TrackInv'
<1>1. /\ trackPc = "polling" /\ n \in HonestTelemetry
      /\ outages > 0 /\ outages' = outages - 1
      /\ \/ readings' = [readings EXCEPT ![n].status = Unavailable]
         \/ readings' = [readings EXCEPT ![n].height = Unavailable]
      /\ UNCHANGED <<trackPc, trackElapsed, evaluation, recorded, deadlineHit, negatives,
                     tx, lifetimeOver, forked>>
  BY DEF RequestFails, Polling, HonestTelemetry
<1>2. /\ readings \in [TelemetryReaders -> Readings] /\ outages' \in 0 .. Outages
      /\ \A m \in TelemetryReaders : readings[m] \in Readings
  BY <1>1, TelemetryAssumption DEF TrackInv, TrackTypes
<1>3. /\ \A m \in TelemetryReaders \ {n} : readings'[m] = readings[m]
      /\ \/ readings'[n] = [readings[n] EXCEPT !.status = Unavailable]
         \/ readings'[n] = [readings[n] EXCEPT !.height = Unavailable]
  BY <1>1, <1>2
<1>4. /\ readings'[n] \in Readings
      /\ readings'[n].status \in {readings[n].status, Unavailable}
      /\ readings'[n].height \in {readings[n].height, Unavailable}
  BY <1>2, <1>3 DEF Readings
<1>5. readings' \in [TelemetryReaders -> Readings]
  BY <1>1, <1>2, <1>4
<1>6. TrackTypes'
  BY <1>1, <1>2, <1>5 DEF TrackInv, TrackTypes
<1>7. EstablishedStory' /\ ExpiryStory'
  BY <1>1 DEF TrackInv, EstablishedStory, ExpiryStory
<1>8. ReadingStory'
  BY <1>1, <1>3, <1>4, AnswersDiffer DEF TrackInv, ReadingStory, Fits, HonestTelemetry
<1> QED BY <1>6, <1>7, <1>8 DEF TrackInv

LEMMA TrackedChainMovesKeeps == ASSUME TrackInv, ChainMoves PROVE TrackInv'
<1>1. /\ trackPc = "polling"
      /\ UNCHANGED <<trackPc, trackElapsed, readings, evaluation, recorded, deadlineHit,
                     outages, negatives>>
      /\ tx \in Statuses /\ tx.level \in 0 .. 3 /\ tx.failed \in BOOLEAN
      /\ lifetimeOver \in BOOLEAN /\ forked \in BOOLEAN
  BY StatusTyped DEF ChainMoves, TrackInv, TrackTypes
<1>2. /\ tx' \in Statuses /\ lifetimeOver' \in BOOLEAN /\ forked' \in BOOLEAN
      /\ lifetimeOver => lifetimeOver'
      /\ forked => forked'
      /\ \/ tx.level = 0 /\ tx'.level = 1 /\ forked' = forked
         \/ /\ tx.level \in {1, 2} /\ tx'.level > tx.level /\ tx'.failed = tx.failed
            /\ forked' = forked
         \/ tx.level = 1 /\ forked' /\ tx'.level = 0
         \/ tx' = tx /\ forked' = forked
  <2>1. CASE /\ tx.level = 0 /\ ~lifetimeOver
             /\ \E failed \in BOOLEAN : tx' = [level |-> 1, failed |-> failed]
             /\ UNCHANGED <<lifetimeOver, forked>>
    <3>1. PICK failed \in BOOLEAN : tx' = [level |-> 1, failed |-> failed]
      BY <2>1
    <3>2. 1 \in Levels
      BY TelemetryAssumption
    <3>3. tx' \in Statuses /\ tx'.level = 1
      BY <3>1, <3>2 DEF Statuses
    <3> QED BY <1>1, <2>1, <3>3
  <2>2. CASE /\ tx.level \in {1, 2}
             /\ \E level \in Levels : level > tx.level /\ tx' = [tx EXCEPT !.level = level]
             /\ UNCHANGED <<lifetimeOver, forked>>
    <3>1. PICK level \in Levels : level > tx.level /\ tx' = [tx EXCEPT !.level = level]
      BY <2>2
    <3>2. tx \in [level : Levels, failed : BOOLEAN]
      BY <1>1 DEF Statuses
    <3>3. tx' \in [level : Levels, failed : BOOLEAN] /\ tx'.level = level /\ tx'.failed = tx.failed
      BY <3>1, <3>2
    <3>4. tx'.level # 0
      BY <1>1, <2>2, <3>1, <3>3
    <3>5. tx' \in Statuses
      BY <3>3, <3>4 DEF Statuses
    <3> QED BY <1>1, <2>2, <3>1, <3>3, <3>5
  <2>3. CASE tx.level = 1 /\ ~forked /\ tx' = NoStatus /\ forked' = TRUE /\ UNCHANGED lifetimeOver
    BY <1>1, <2>3, StatusTyped
  <2>4. CASE ~lifetimeOver /\ tx.level # 1 /\ lifetimeOver' = TRUE /\ UNCHANGED <<tx, forked>>
    BY <1>1, <2>4
  <2> QED BY <2>1, <2>2, <2>3, <2>4 DEF ChainMoves
<1>3. tx'.level \in 0 .. 3 /\ tx'.failed \in BOOLEAN
  BY <1>2, StatusTyped
<1>4. ASSUME NEW s \in Statuses, Fits(s)
      PROVE /\ s.level >= 2 => tx'.level >= s.level
            /\ s.level > 0 /\ ~forked' => tx'.level > 0 /\ (tx'.failed <=> s.failed)
  <2>1. s.level \in 0 .. 3 /\ s.failed \in BOOLEAN
    BY StatusTyped
  <2> QED BY <1>1, <1>2, <1>3, <1>4, <2>1 DEF Fits
<1>5. TrackTypes'
  BY <1>1, <1>2 DEF TrackInv, TrackTypes
<1>6. \A n \in HonestTelemetry : evaluation.latest[n] \in Statuses
  BY EvaluationTyped DEF TrackInv, TrackTypes, HonestTelemetry
<1>7. ReadingStory'
  BY <1>1, <1>2, <1>4, <1>6 DEF TrackInv, ReadingStory, Fits
<1>8. EstablishedStory'
  BY <1>1, <1>2, <1>3 DEF TrackInv, EstablishedStory
<1>9. ExpiryStory'
  BY <1>1 DEF TrackInv, ExpiryStory
<1> QED BY <1>5, <1>7, <1>8, <1>9 DEF TrackInv

LEMMA RecordReaderKeeps ==
  ASSUME TrackInv, NEW n \in TelemetryReaders, RecordReader(n) PROVE TrackInv'
<1> DEFINE at == EventNumber(trackElapsed, n)
<1>1. PICK result \in (IF n \in LyingTelemetry THEN Lies ELSE {readings[n]}) :
        /\ evaluation' = WithReader(evaluation, n, result, at)
        /\ negatives' = IF result = [status |-> NoStatus, height |-> [past |-> TRUE]]
                        THEN negatives \union {n} ELSE negatives
  BY DEF RecordReader
<1>2. /\ trackPc = "recording" /\ recorded = n - 1 /\ recorded' = n
      /\ readings' = [readings EXCEPT ![n] = Asked]
      /\ UNCHANGED <<trackPc, trackElapsed, deadlineHit, outages, tx, lifetimeOver, forked>>
  BY DEF RecordReader
<1>3. /\ n \in 1 .. 3 /\ at = 3 * trackElapsed + n /\ at \in Nat
      /\ trackElapsed \in Nat
  BY TelemetryReadersAre, EventNumberIs, TelemetryAssumption
     DEF TrackInv, TrackTypes, ValidCoordinatorOptions
<1> HIDE DEF at
<1>4. /\ result \in Readings /\ result.status # Unread /\ result.height # Unread
      /\ n \in LyingTelemetry => result.height = [past |-> TRUE]
      /\ n \notin LyingTelemetry => result = readings[n]
  <2>1. CASE n \in LyingTelemetry
    <3>1. result.status \in Statuses /\ result.height = [past |-> TRUE] /\ result \in Lies
      BY <1>1, <2>1 DEF Lies
    <3>2. result.height \in HeightAnswers
      BY <3>1 DEF HeightAnswers
    <3>3. result \in Readings
      BY <3>1, <3>2 DEF Lies, Readings, HeightAnswers
    <3> QED BY <2>1, <3>1, <3>2, <3>3, AnswersDiffer
  <2>2. CASE n \notin LyingTelemetry
    <3>1. n \in HonestTelemetry /\ result = readings[n]
      BY <1>1, <2>2 DEF HonestTelemetry
    <3>2. n > recorded
      BY <1>2, <1>3
    <3> QED BY <1>2, <2>2, <3>1, <3>2 DEF TrackInv, TrackTypes, ReadingStory
  <2> QED BY <2>1, <2>2
<1>5. evaluation \in Evaluations
  BY DEF TrackInv, TrackTypes
<1>6. ReaderRecorded(evaluation, n, result, at, evaluation')
  BY <1>1, <1>3, <1>4, <1>5, ReaderIsRecorded
<1>7. /\ evaluation' \in Evaluations
      /\ evaluation'.latest = IF result.status = Unavailable THEN evaluation.latest
                              ELSE [evaluation.latest EXCEPT ![n] = result.status]
      /\ evaluation.everSeen => evaluation'.everSeen
      /\ \A s \in QuorumStates :
           evaluation'.at[s] > 0 => evaluation.at[s] > 0 \/ s \in StatusSnapshot(evaluation'.latest)
  BY <1>6, Zenon DEF ReaderRecorded
<1> DEFINE past == result.height.past
           found == FoundAfter(evaluation, n, past, result.status)
<1>8. \/ /\ result.height = Unavailable
         /\ evaluation'.heights = evaluation.heights /\ evaluation'.paired = evaluation.paired
         /\ evaluation'.expired = evaluation.expired /\ evaluation'.support = evaluation.support
      \/ /\ result.height \in HeightAnswers
         /\ evaluation'.heights = HeightsAfter(evaluation, n, past, result.status, at)
         /\ evaluation'.paired = PairedAfter(evaluation, n, past, result.status)
         /\ evaluation'.expired <=> (evaluation.expired \/ found)
         /\ evaluation'.support = IF found THEN FirstPast(evaluation'.heights) ELSE evaluation.support
  <2>1. result.height = Unavailable \/ result.height \in HeightAnswers
    BY <1>4 DEF Readings
  <2>2. result.height \in HeightAnswers => result.height # Unavailable
    BY AnswersDiffer
  <2> QED BY <1>6, <2>1, <2>2, Zenon DEF ReaderRecorded
<1>9. /\ readings \in [TelemetryReaders -> Readings] /\ negatives \in SUBSET TelemetryReaders
      /\ readings' \in [TelemetryReaders -> Readings]
      /\ readings'[n].status = Unread /\ readings'[n].height = Unread
      /\ \A m \in TelemetryReaders \ {n} : readings'[m] = readings[m]
  <2>1. Asked \in Readings /\ Asked.status = Unread /\ Asked.height = Unread
    BY DEF Asked, Readings
  <2> QED BY <1>2, <2>1 DEF TrackInv, TrackTypes
<1>10. negatives \subseteq negatives' /\ negatives' \in SUBSET TelemetryReaders
  BY <1>1, <1>9
<1>11. TrackTypes'
  BY <1>2, <1>3, <1>7, <1>9, <1>10 DEF TrackInv, TrackTypes
<1>12. \A m \in TelemetryReaders :
         m \in evaluation'.paired =>
           \/ m \in evaluation.paired
           \/ m = n /\ result.height \in HeightAnswers /\ past /\ result.status = NoStatus
  BY <1>8 DEF PairedAfter, PairedNegative
<1>13. ASSUME NEW m \in HonestTelemetry PROVE Fits(evaluation'.latest[m])
  <2>1. m \in TelemetryReaders /\ Fits(evaluation.latest[m])
    BY DEF TrackInv, ReadingStory, HonestTelemetry
  <2>2. CASE m = n /\ result.status # Unavailable
    <3>1. result.status \in Statuses /\ evaluation'.latest[m] = result.status
      BY <1>4, <1>5, <1>7, <2>2, EvaluationTyped DEF Readings
    <3>2. result = readings[m]
      BY <1>4, <2>2 DEF HonestTelemetry
    <3> QED BY <3>1, <3>2 DEF TrackInv, ReadingStory
  <2>3. CASE m # n \/ result.status = Unavailable
    <3>1. evaluation'.latest[m] = evaluation.latest[m]
      BY <1>5, <1>7, <2>1, <2>3, EvaluationTyped
    <3> QED BY <2>1, <3>1
  <2> QED BY <2>2, <2>3
<1>14. ASSUME NEW m \in HonestTelemetry, m \in evaluation'.paired PROVE lifetimeOver
  <2>1. m \in TelemetryReaders
    BY DEF HonestTelemetry
  <2>2. CASE m \in evaluation.paired
    BY <2>2 DEF TrackInv, ReadingStory
  <2>3. CASE m = n /\ result.height \in HeightAnswers /\ past
    <3>1. result = readings[m]
      BY <1>4, <2>3 DEF HonestTelemetry
    <3> QED BY <2>3, <3>1 DEF TrackInv, ReadingStory
  <2> QED BY <1>12, <1>14, <2>1, <2>2, <2>3
<1>15. ReadingStory'
  <2> DEFINE StillFits(s) == /\ s.level >= 2 => tx'.level >= s.level
                             /\ s.level > 0 /\ ~forked' => tx'.level > 0 /\ (tx'.failed <=> s.failed)
  <2>0. \A s : Fits(s) => StillFits(s)
    BY <1>2 DEF Fits
  <2> HIDE DEF StillFits
  <2>1. \A m \in HonestTelemetry : m \in TelemetryReaders
    BY DEF HonestTelemetry
  <2>2. \A m \in HonestTelemetry : StillFits(evaluation'.latest[m])
    BY <1>13, <2>0
  <2>3. ASSUME NEW m \in HonestTelemetry
        PROVE  /\ readings'[m].status \in Statuses => StillFits(readings'[m].status)
               /\ readings'[m].height \in HeightAnswers /\ readings'[m].height.past => lifetimeOver'
               /\ m \in evaluation'.paired =>
                    /\ lifetimeOver'
                    /\ readings'[m].height \in HeightAnswers => readings'[m].height.past
               /\ trackPc' = "recording" /\ m > recorded' =>
                    readings'[m].status # Unread /\ readings'[m].height # Unread
    <3>1. CASE m = n
      <4>1. ~(m > recorded')
        BY <1>2, <1>3, <3>1
      <4>2. readings'[m].status \notin Statuses /\ readings'[m].height \notin HeightAnswers
        BY <1>9, <3>1, AnswersDiffer
      <4>3. m \in evaluation'.paired => lifetimeOver'
        BY <1>2, <1>14
      <4> QED BY <4>1, <4>2, <4>3
    <3>2. CASE m # n
      <4>1. readings'[m] = readings[m]
        BY <1>9, <2>1, <3>2
      <4>2. m \in evaluation'.paired => m \in evaluation.paired
        BY <1>12, <2>1, <3>2
      <4>3. m > recorded' => m > recorded
        BY <1>2, <1>3, <2>1, TelemetryReadersAre
      <4>4. /\ readings[m].status \in Statuses => Fits(readings[m].status)
            /\ readings[m].height \in HeightAnswers /\ readings[m].height.past => lifetimeOver
            /\ m \in evaluation.paired =>
                 /\ lifetimeOver
                 /\ readings[m].height \in HeightAnswers => readings[m].height.past
            /\ trackPc = "recording" /\ m > recorded =>
                 readings[m].status # Unread /\ readings[m].height # Unread
        BY DEF TrackInv, ReadingStory
      <4>5. Fits(readings[m].status) => StillFits(readings'[m].status)
        BY <2>0, <4>1
      <4> QED BY <1>2, <4>1, <4>2, <4>3, <4>4, <4>5
    <3> QED BY <3>1, <3>2
  <2> QED BY <2>2, <2>3 DEF ReadingStory, Fits, StillFits
<1>16. evaluation'.paired \subseteq negatives' /\ evaluation'.paired \in SUBSET TelemetryReaders
  <2>1. evaluation'.paired \in SUBSET TelemetryReaders
    BY <1>7, EvaluationTyped
  <2>2. ASSUME NEW m \in TelemetryReaders, m \in evaluation'.paired PROVE m \in negatives'
    <3>1. CASE m \in evaluation.paired
      BY <1>10, <3>1 DEF TrackInv, ExpiryStory
    <3>2. CASE m = n /\ result.height \in HeightAnswers /\ past /\ result.status = NoStatus
      <4>1. result.height = [past |-> TRUE]
        BY <3>2 DEF HeightAnswers
      <4>2. result = [status |-> NoStatus, height |-> [past |-> TRUE]]
        BY <1>4, <3>2, <4>1 DEF Readings
      <4> QED BY <1>1, <3>2, <4>2
    <3> QED BY <1>12, <2>2, <3>1, <3>2
  <2> QED BY <2>1, <2>2
<1>17. \A m \in TelemetryReaders : /\ m \in evaluation'.paired => evaluation'.heights[m].past
                                   /\ OfReader(m, evaluation'.heights[m])
  <2>1. \A m \in TelemetryReaders : /\ m \in evaluation.paired => evaluation.heights[m].past
                                    /\ OfReader(m, evaluation.heights[m])
    BY DEF TrackInv, ExpiryStory
  <2>2. CASE result.height = Unavailable
    BY <1>8, <2>1, <2>2, AnswersDiffer
  <2>3. CASE result.height \in HeightAnswers
    <3> DEFINE record == [at |-> at, past |-> past, negative |-> result.status = NoStatus]
    <3>1. /\ evaluation'.heights = [evaluation.heights EXCEPT ![n] = record]
          /\ evaluation'.paired = PairedAfter(evaluation, n, past, result.status)
      BY <1>8, <2>3, AnswersDiffer DEF HeightsAfter
    <3>2. record.at = at /\ record.past = past
      OBVIOUS
    <3> HIDE DEF record
    <3>3. /\ evaluation'.heights[n] = record
          /\ \A m \in TelemetryReaders \ {n} : evaluation'.heights[m] = evaluation.heights[m]
      BY <1>5, <3>1, EvaluationTyped
    <3>4. OfReader(n, record)
      BY <1>3, <3>2 DEF OfReader
    <3>5. n \in evaluation'.paired => past
      <4>1. CASE n \in LyingTelemetry
        BY <1>4, <4>1
      <4>2. CASE n \notin LyingTelemetry
        <5>1. n \in HonestTelemetry /\ readings[n] = result
          BY <1>4, <4>2 DEF HonestTelemetry
        <5>2. n \in evaluation.paired => past
          BY <2>3, <5>1 DEF TrackInv, ReadingStory
        <5> QED BY <1>12, <5>2
      <4> QED BY <4>1, <4>2
    <3>6. \A m \in TelemetryReaders \ {n} : m \in evaluation'.paired => m \in evaluation.paired
      BY <1>12
    <3> QED BY <2>1, <3>2, <3>3, <3>4, <3>5, <3>6
  <2> QED BY <1>8, <2>2, <2>3
<1>18. found /\ result.height \in HeightAnswers => Cardinality(evaluation'.paired) >= 2
  BY <1>8, AnswersDiffer DEF FoundAfter
<1>19. EstablishedStory'
  <2>1. SUFFICES ASSUME Cardinality(LyingTelemetry) < 2
                 PROVE  /\ evaluation'.at["FINALIZED"] > 0 => tx.level = 3
                        /\ evaluation'.at["CONFIRMED"] > 0 => tx.level >= 2
                        /\ evaluation'.at["OBSERVED_EXECUTION_FAILED"] > 0 /\ ~forked
                             => tx.level > 0 /\ tx.failed
                        /\ evaluation'.at["OBSERVED_EXECUTION_SUCCESS"] > 0 /\ ~forked
                             => tx.level > 0 /\ ~tx.failed
                        /\ evaluation'.expired => lifetimeOver
    BY <1>2 DEF EstablishedStory
  <2>2. evaluation'.latest \in [TelemetryReaders -> Statuses]
    BY <1>7, EvaluationTyped
  <2>3. TrackTypes
    BY DEF TrackInv
  <2> DEFINE shown == StatusSnapshot(evaluation'.latest)
  <2>4. /\ "FINALIZED" \in shown => tx.level = 3
        /\ "CONFIRMED" \in shown => tx.level >= 2
        /\ "OBSERVED_EXECUTION_FAILED" \in shown /\ ~forked => tx.level > 0 /\ tx.failed
        /\ "OBSERVED_EXECUTION_SUCCESS" \in shown /\ ~forked => tx.level > 0 /\ ~tx.failed
    BY <1>13, <2>1, <2>2, <2>3, SnapshotIsTrue
  <2> HIDE DEF shown
  <2>5. /\ evaluation.at["FINALIZED"] > 0 => tx.level = 3
        /\ evaluation.at["CONFIRMED"] > 0 => tx.level >= 2
        /\ evaluation.at["OBSERVED_EXECUTION_FAILED"] > 0 /\ ~forked => tx.level > 0 /\ tx.failed
        /\ evaluation.at["OBSERVED_EXECUTION_SUCCESS"] > 0 /\ ~forked => tx.level > 0 /\ ~tx.failed
        /\ evaluation.expired => lifetimeOver
    BY <2>1 DEF TrackInv, EstablishedStory
  <2>6. \A s \in QuorumStates : evaluation'.at[s] > 0 => evaluation.at[s] > 0 \/ s \in shown
    BY <1>7 DEF shown
  <2>7. evaluation'.expired => lifetimeOver
    <3>1. SUFFICES ASSUME evaluation'.expired, ~evaluation.expired PROVE lifetimeOver
      BY <2>5
    <3>2. Cardinality(evaluation'.paired) >= 2
      BY <1>8, <1>18, <3>1
    <3>3. PICK m \in evaluation'.paired : m \in HonestTelemetry
      BY <1>16, <2>1, <3>2, HonestOfTwo
    <3> QED BY <1>14, <3>3
  <2> QED BY <2>4, <2>5, <2>6, <2>7, QuorumStatesAre
<1>20. Cardinality(evaluation'.support) \in {0, 2}
  <2>1. Cardinality(evaluation.support) \in {0, 2}
    BY DEF TrackInv, ExpiryStory
  <2>2. CASE result.height = Unavailable
    BY <1>8, <2>1, <2>2, AnswersDiffer
  <2>3. CASE result.height \in HeightAnswers /\ ~found
    <3> HIDE DEF found
    <3> QED BY <1>8, <2>1, <2>3, AnswersDiffer
  <2>4. CASE result.height \in HeightAnswers /\ found
    <3>1. evaluation'.support = FirstPast(evaluation'.heights)
      BY <1>8, <2>4, AnswersDiffer
    <3>2. evaluation'.heights \in [TelemetryReaders -> HeightRecords]
      BY <1>7, EvaluationTyped
    <3>3. Cardinality(FirstPast(evaluation'.heights)) = 2
      BY <1>16, <1>17, <1>18, <2>4, <3>2, TwoCited
    <3> QED BY <3>1, <3>3
  <2> HIDE DEF found
  <2> QED BY <1>8, <2>2, <2>3, <2>4
<1>21. evaluation'.expired => Cardinality(negatives') >= 2
  <2>1. SUFFICES ASSUME evaluation'.expired PROVE Cardinality(negatives') >= 2
    OBVIOUS
  <2>2. IsFiniteSet(negatives')
    BY <1>10, TelemetryReadersAre, FS_Subset
  <2>3. CASE evaluation.expired
    <3>1. Cardinality(negatives) >= 2
      BY <2>3 DEF TrackInv, ExpiryStory
    <3>2. Cardinality(negatives) <= Cardinality(negatives') /\ IsFiniteSet(negatives)
      BY <1>10, <2>2, FS_Subset
    <3>3. Cardinality(negatives) \in Nat /\ Cardinality(negatives') \in Nat
      BY <2>2, <3>2, FS_CardinalityType
    <3> QED BY <3>1, <3>2, <3>3
  <2>4. CASE ~evaluation.expired
    <3>1. Cardinality(evaluation'.paired) >= 2
      BY <1>8, <1>18, <2>1, <2>4
    <3>2. Cardinality(evaluation'.paired) <= Cardinality(negatives') /\ IsFiniteSet(evaluation'.paired)
      BY <1>16, <2>2, FS_Subset
    <3>3. Cardinality(evaluation'.paired) \in Nat /\ Cardinality(negatives') \in Nat
      BY <2>2, <3>2, FS_CardinalityType
    <3> QED BY <3>1, <3>2, <3>3
  <2> QED BY <2>3, <2>4
<1>22. ~deadlineHit'
  BY <1>2 DEF TrackInv, ExpiryStory
<1>23. ExpiryStory'
  BY <1>16, <1>17, <1>20, <1>21, <1>22 DEF ExpiryStory
<1> QED BY <1>11, <1>15, <1>19, <1>23 DEF TrackInv

LEMMA TrackKeeps == ASSUME TrackInv, [TrackNext]_trackVars PROVE TrackInv'
<1>1. ASSUME UNCHANGED trackVars PROVE TrackInv'
  BY <1>1 DEF trackVars, TrackInv, TrackTypes, ReadingStory, EstablishedStory, ExpiryStory, Fits
<1>2. ASSUME NEW n \in TelemetryReaders,
             ReadStatus(n) \/ ReadHeight(n) \/ RequestFails(n) \/ RecordReader(n)
      PROVE  TrackInv'
  BY <1>2, ReadStatusKeeps, ReadHeightKeeps, RequestFailsKeeps, RecordReaderKeeps
<1> QED BY <1>1, <1>2, TrackSubmitsKeeps, ReaderSettlesKeeps, EndPollKeeps, TrackSleepsKeeps,
           TrackedChainMovesKeeps DEF TrackNext

\* TrackInv is inductive: what honest readers said, what two claims established
\* and what the expiry rests on.
THEOREM TrackInvariant == TrackSpec => []TrackInv
<1> QED BY TrackStarts, TrackKeeps, PTL DEF TrackSpec

LEMMA TrackInvImplies == ASSUME TrackInv PROVE TrackTypeOK /\ TimelineIsSound
<1>1. /\ evaluation \in Evaluations /\ evaluation.at \in [QuorumStates -> Nat]
      /\ deadlineHit \in BOOLEAN
  BY EvaluationTyped DEF TrackInv, TrackTypes
<1>2. TrackTypeOK
  <2>1. trackElapsed \in 0 .. (ObservationDeadline + 1)
    BY TelemetryAssumption DEF TrackInv, TrackTypes, ValidCoordinatorOptions
  <2>2. /\ evaluation.latest \in [TelemetryReaders -> Statuses]
        /\ evaluation.paired \subseteq TelemetryReaders
    BY <1>1, EvaluationTyped
  <2>3. recorded \in 0 .. Cardinality(TelemetryReaders)
    BY TelemetryReadersAre DEF TrackInv, TrackTypes
  <2>4. Cardinality(evaluation.support) \in {0, TelemetryQuorum}
    BY DEF TrackInv, ExpiryStory, TelemetryQuorum
  <2> QED BY <2>1, <2>2, <2>3, <2>4 DEF TrackTypeOK, TrackInv, TrackTypes
<1>3. /\ Timeline = "EXPIRED" <=> evaluation.expired /\ ~evaluation.everSeen
      /\ Timeline = "FINALIZED" => evaluation.at["FINALIZED"] > 0
      /\ Timeline = "CONFIRMED" => evaluation.at["CONFIRMED"] > 0
  BY <1>1, DerivedFrom DEF Timeline
<1>4. VerdictIsTrue
  <2>1. SUFFICES ASSUME Cardinality(LyingTelemetry) < 2 PROVE
    /\ Timeline = "FINALIZED" => tx.level = 3
    /\ Timeline = "CONFIRMED" => tx.level >= 2
    /\ Timeline = "EXPIRED" => lifetimeOver
    /\ evaluation.at["OBSERVED_EXECUTION_FAILED"] > 0 /\ ~forked => tx.level > 0 /\ tx.failed = TRUE
    /\ evaluation.at["OBSERVED_EXECUTION_SUCCESS"] > 0 /\ ~forked => tx.level > 0 /\ tx.failed = FALSE
    BY DEF VerdictIsTrue, TelemetryQuorum
  <2>2. tx.failed \in BOOLEAN
    BY StatusTyped DEF TrackInv, TrackTypes
  <2>3. EstablishedStory
    BY DEF TrackInv
  <2> QED BY <1>3, <2>1, <2>2, <2>3 DEF EstablishedStory
<1>5. ExpiryNeedsNegatives
  BY <1>1, <1>3 DEF ExpiryNeedsNegatives, TrackInv, ExpiryStory, TelemetryQuorum
<1> QED BY <1>2, <1>4, <1>5 DEF TimelineIsSound

\* Every variable of trackTransaction keeps its type, and an EXPIRED entry
\* cites two heights or none: two readers' events never have one number.
THEOREM TimelineTyped == TrackSpec => []TrackTypeOK
<1>1. TrackInv => TrackTypeOK
  BY TrackInvImplies
<1> QED BY <1>1, TrackInvariant, PTL

\* With at most one lying reader the verdict of trackTransaction is the
\* ledger's, and with any it expires only what two readers did not see.
THEOREM TimelineSound == TrackSpec => []TimelineIsSound
<1>1. TrackInv => TimelineIsSound
  BY TrackInvImplies
<1> QED BY <1>1, TrackInvariant, PTL
=============================================================================
