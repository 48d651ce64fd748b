-------------------------- MODULE LivePartsProofs --------------------------
(***************************************************************************)
(* Proofs about the parts that poll and wait: the evidence of a slot, the  *)
(* intelligence feed, the live monitor, the reactive router, and the types *)
(* of all of them together.                                                *)
(***************************************************************************)
EXTENDS MCLiveParts, ObservationProofs

----------------------------------------------------------------------------
(* The evidence of a slot.                                                 *)

EvidenceTypes ==
  /\ worker \in {"absent", "half", "whole"}
  /\ delivery \in Logs /\ collected \in Logs
  /\ deliveryCopy \in Logs /\ collectorRead \in Logs
  /\ copies \in [1..3 -> {"absent", "torn", "half", "whole"}]
  /\ evidence \in [DOMAIN EvidenceFiles -> {"absent", "torn", "whole"}]
  /\ slotEvent \in {"none", "QUALIFYING", "INVALID"}
  /\ at[1] \in {"advance", "copy", "complete", "reconcile", "persist", "stopped"}

\* A result is delivered after the Collector has it; a log has one line of it.
DeliveredWasCollected ==
  /\ collected.tail = "own" => collected.own = "absent"
  /\ collected.own # "DUPLICATE"
  /\ delivery.tail = "own" => delivery.own = "absent" /\ collected.own = "ACCEPTED"
  /\ delivery.own # "absent" => collected.own = "ACCEPTED"

\* A local copy says nothing its original does not.
CopiesOfOriginals ==
  /\ copies[1] = "whole" => worker = "whole"
  /\ deliveryCopy.own # "absent" => deliveryCopy.own = delivery.own
  /\ collectorRead.own # "absent" => collectorRead.own = collected.own

\* How far the coordinator is, and what it has by then.
CoordinatorHas ==
  /\ at[1] \in {"copy", "complete", "reconcile", "persist"} =>
       slotEvent = "none" /\ worker # "absent"
  /\ at[1] = "copy" =>
       at[2] \in 1..4 /\ \A i \in 1..3 : i < at[2] => copies[i] # "absent"
  /\ at[1] \in {"complete", "reconcile"} =>
       deliveryCopy.own # "absent" /\ \A i \in 1..3 : copies[i] # "absent"
  /\ at[1] = "reconcile" => collectorRead.own = "ACCEPTED"
  /\ at[1] = "persist" =>
       /\ at[2] \in 1 .. (Len(EvidenceFiles) + 1) /\ Reconciles
       /\ \A i \in DOMAIN EvidenceFiles : i < at[2] => evidence[i] = "whole"

EvidenceInv ==
  /\ EvidenceTypes /\ DeliveredWasCollected /\ CopiesOfOriginals /\ CoordinatorHas
  /\ VerdictHasItsEvidence

\* A step writes over nothing.
WritesOnce ==
  /\ \A i \in 1..3 : copies[i] # "absent" => copies'[i] = copies[i]
  /\ \A i \in DOMAIN EvidenceFiles : evidence[i] # "absent" => evidence'[i] = evidence[i]
  /\ slotEvent # "none" => slotEvent' = slotEvent

-----------------------------------------------------------------------------
LEMMA FilesNumbered ==
  Len(EvidenceFiles) \in Nat /\ DOMAIN EvidenceFiles = 1 .. Len(EvidenceFiles)
  BY EvidenceAssumption

\* The fields of a log.
LEMMA LogFields ==
  ASSUME NEW log \in Logs
  PROVE  log.own \in {"absent", "ACCEPTED", "DUPLICATE"} /\ log.tail \in {"whole", "own", "other"}
  BY DEF Logs

\* Lines are added to a log, and the slot's stays.
LEMMA LineBegun ==
  ASSUME NEW log \in Logs, NEW log_, BeginLine(log, log_)
  PROVE  log_ \in Logs /\ log_.own = log.own /\ (log_.tail = "own" => log.own = "absent")
  <1>1. ASSUME NEW tail \in {"own", "other"}
        PROVE  LET begun == [log EXCEPT !.tail = tail]
               IN  begun \in Logs /\ begun.own = log.own /\ begun.tail = tail
    BY DEF Logs
  <1> QED
    BY <1>1 DEF BeginLine

LEMMA LineEnded ==
  ASSUME NEW log \in Logs, NEW log_, NEW status \in {"ACCEPTED", "DUPLICATE"},
         EndLine(log, log_, status)
  PROVE  /\ log_ \in Logs /\ log_.tail = "whole"
         /\ log.tail = "own" => log_.own = status
         /\ log.tail # "own" => log_.own = log.own
  BY DEF EndLine, Logs

\* What the remote side may do while the coordinator is where it is.
LEMMA RemoteKeeps ==
  ASSUME EvidenceInv, WorkerWrites \/ CollectorWrites \/ DeliveryRuntimeWrites \/ AssignmentEnds
  PROVE  EvidenceInv' /\ WritesOnce
  <1>1. UNCHANGED <<localSide, at, clockAhead>> /\ (assignmentOver => assignmentOver')
    BY DEF WorkerWrites, CollectorWrites, DeliveryRuntimeWrites, AssignmentEnds, Elsewhere
  <1>2. /\ worker' \in {"absent", "half", "whole"}
        /\ worker # "absent" => worker' # "absent"
        /\ worker = "whole" => worker' = "whole"
    BY DEF WorkerWrites, CollectorWrites, DeliveryRuntimeWrites, AssignmentEnds,
           EvidenceInv, EvidenceTypes
  <1>3. /\ delivery' \in Logs /\ collected' \in Logs /\ DeliveredWasCollected'
        /\ delivery.own # "absent" => delivery'.own = delivery.own
        /\ collected.own # "absent" => collected'.own = collected.own
    <2>1. /\ delivery \in Logs /\ collected \in Logs /\ DeliveredWasCollected
      BY DEF EvidenceInv, EvidenceTypes
    <2>2. CASE WorkerWrites \/ AssignmentEnds
      BY <2>1, <2>2 DEF WorkerWrites, AssignmentEnds, DeliveredWasCollected
    <2>3. CASE CollectorWrites
      <3>1. delivery' = delivery
        BY <2>3 DEF CollectorWrites
      <3>2. CASE BeginLine(collected, collected')
        BY <2>1, <3>1, <3>2, LineBegun DEF DeliveredWasCollected
      <3>3. CASE EndLine(collected, collected', "ACCEPTED")
        BY <2>1, <3>1, <3>3, LineEnded DEF DeliveredWasCollected
      <3> QED
        BY <2>3, <3>2, <3>3 DEF CollectorWrites
    <2>4. CASE DeliveryRuntimeWrites
      <3>1. collected' = collected
        BY <2>4 DEF DeliveryRuntimeWrites
      <3>2. CASE BeginLine(delivery, delivery') /\ (delivery'.tail = "own" => collected.own = "ACCEPTED")
        BY <2>1, <3>1, <3>2, LineBegun DEF DeliveredWasCollected
      <3>3. CASE \E status \in {"ACCEPTED", "DUPLICATE"} : EndLine(delivery, delivery', status)
        <4>1. PICK status \in {"ACCEPTED", "DUPLICATE"} : EndLine(delivery, delivery', status)
          BY <3>3
        <4> QED
          BY <2>1, <3>1, <4>1, LineEnded DEF DeliveredWasCollected
      <3> QED
        BY <2>4, <3>2, <3>3 DEF DeliveryRuntimeWrites
    <2> QED
      BY <2>2, <2>3, <2>4
  <1>4. EvidenceTypes' /\ CopiesOfOriginals' /\ CoordinatorHas'
    BY <1>1, <1>2, <1>3 DEF EvidenceInv, EvidenceTypes, CopiesOfOriginals, CoordinatorHas,
                            localSide, Reconciles, Whole, Readable
  <1>5. VerdictHasItsEvidence'
    BY <1>1, <1>2, <1>3 DEF EvidenceInv, VerdictHasItsEvidence, QualifyingIsEvidenced,
                            InvalidHasItsCause, localSide, Whole, Readable
  <1>6. WritesOnce
    BY <1>1 DEF WritesOnce, localSide
  <1> QED
    BY <1>3, <1>4, <1>5, <1>6 DEF EvidenceInv

-----------------------------------------------------------------------------
(***************************************************************************)
(* The coordinator's steps, which leave the remote side alone.             *)
(***************************************************************************)

\* Refusing a slot with a cause, while it has no event.
LEMMA MarkKeeps ==
  ASSUME EvidenceInv, MarkSlotInvalid, slotEvent = "none",
         UNCHANGED <<remoteSide, copies, deliveryCopy, collectorRead, evidence>>,
         \/ assignmentOver \/ clockAhead \/ deliveryCopy.own = "DUPLICATE"
         \/ ~Readable(deliveryCopy) \/ ~Readable(collectorRead)
         \/ \E i \in DOMAIN EvidenceFiles : evidence[i] = "torn"
         \/ \E i \in 1..3 : copies[i] \in {"half", "torn"}
  PROVE  EvidenceInv' /\ WritesOnce
  <1>1. slotEvent' = "INVALID" /\ at' = <<"advance">>
    BY DEF MarkSlotInvalid
  <1>2. EvidenceTypes' /\ DeliveredWasCollected' /\ CopiesOfOriginals' /\ CoordinatorHas'
    BY <1>1 DEF EvidenceInv, EvidenceTypes, DeliveredWasCollected, CopiesOfOriginals,
                CoordinatorHas, remoteSide
  <1>3. VerdictHasItsEvidence'
    BY <1>1 DEF VerdictHasItsEvidence, QualifyingIsEvidenced, InvalidHasItsCause,
                remoteSide, Readable
  <1>4. WritesOnce
    BY DEF WritesOnce
  <1> QED
    BY <1>2, <1>3, <1>4 DEF EvidenceInv

LEMMA LookKeeps ==
  ASSUME EvidenceInv, LookForCompletion
  PROVE  EvidenceInv' /\ WritesOnce
  <1>1. UNCHANGED <<remoteSide, copies, deliveryCopy, collectorRead, evidence>> /\ slotEvent = "none"
    BY DEF LookForCompletion, Coordinator
  <1>2. CASE assignmentOver /\ MarkSlotInvalid
    BY <1>1, <1>2, MarkKeeps
  <1>3. CASE worker # "absent" /\ at' = <<"copy", 1>> /\ UNCHANGED slotEvent
    <2>1. at'[1] = "copy" /\ at'[2] = 1
      BY <1>3
    <2>2. EvidenceTypes' /\ DeliveredWasCollected' /\ CopiesOfOriginals'
      BY <1>1, <1>3, <2>1 DEF EvidenceInv, EvidenceTypes, DeliveredWasCollected,
                              CopiesOfOriginals, remoteSide
    <2>3. CoordinatorHas'
      BY <1>1, <1>3, <2>1 DEF CoordinatorHas, remoteSide
    <2>4. VerdictHasItsEvidence' /\ WritesOnce
      BY <1>1, <1>3 DEF VerdictHasItsEvidence, QualifyingIsEvidenced, InvalidHasItsCause,
                        WritesOnce
    <2> QED
      BY <2>2, <2>3, <2>4 DEF EvidenceInv
  <1> QED
    BY <1>2, <1>3 DEF LookForCompletion

LEMMA CopyRemoteKeeps ==
  ASSUME EvidenceInv, CopyRemote
  PROVE  EvidenceInv' /\ WritesOnce
  <1> DEFINE i == at[2]
             read == IF i = 1 THEN worker ELSE "whole"
  <1>1. /\ at[1] = "copy" /\ i \in 1..3 /\ slotEvent = "none" /\ worker # "absent"
        /\ \A j \in 1..3 : j < i => copies[j] # "absent"
        /\ UNCHANGED <<remoteSide, deliveryCopy, collectorRead, evidence, slotEvent>>
    BY DEF CopyRemote, Coordinator, EvidenceInv, CoordinatorHas
  <1>2. read \in {"half", "whole"}
    BY <1>1 DEF EvidenceInv, EvidenceTypes
  <1>3. CASE copies[i] \in {"absent", read}
    <2>1. copies' = [copies EXCEPT ![i] = read] /\ at' = <<"copy", i + 1>>
      BY <1>3 DEF CopyRemote
    <2>2. /\ copies' \in [1..3 -> {"absent", "torn", "half", "whole"}] /\ copies'[i] = read
          /\ \A j \in 1..3 : j # i => copies'[j] = copies[j]
      BY <1>1, <1>2, <2>1 DEF EvidenceInv, EvidenceTypes
    <2>3. at'[1] = "copy" /\ at'[2] = i + 1
      BY <2>1
    <2> HIDE DEF i
    <2>4. EvidenceTypes' /\ DeliveredWasCollected'
      BY <1>1, <2>2, <2>3 DEF EvidenceInv, EvidenceTypes, DeliveredWasCollected, remoteSide
    <2>5. CopiesOfOriginals'
      BY <1>1, <1>2, <2>2 DEF EvidenceInv, CopiesOfOriginals, remoteSide
    <2>6. CoordinatorHas'
      BY <1>1, <1>2, <2>2, <2>3 DEF CoordinatorHas, remoteSide
    <2>7. VerdictHasItsEvidence' /\ WritesOnce
      BY <1>1, <1>3, <2>2 DEF VerdictHasItsEvidence, QualifyingIsEvidenced,
                              InvalidHasItsCause, WritesOnce
    <2> QED
      BY <2>4, <2>5, <2>6, <2>7 DEF EvidenceInv
  <1>4. CASE copies[i] \notin {"absent", read}
    <2>1. UNCHANGED copies /\ at' = <<"stopped">>
      BY <1>4 DEF CopyRemote
    <2>2. EvidenceTypes' /\ DeliveredWasCollected' /\ CopiesOfOriginals' /\ CoordinatorHas'
      BY <1>1, <2>1 DEF EvidenceInv, EvidenceTypes, DeliveredWasCollected,
                        CopiesOfOriginals, CoordinatorHas, remoteSide
    <2>3. VerdictHasItsEvidence' /\ WritesOnce
      BY <1>1, <2>1 DEF VerdictHasItsEvidence, QualifyingIsEvidenced, InvalidHasItsCause,
                        WritesOnce
    <2> QED
      BY <2>2, <2>3 DEF EvidenceInv
  <1> QED
    BY <1>3, <1>4

LEMMA CopyDeliveryLogKeeps ==
  ASSUME EvidenceInv, CopyDeliveryLog
  PROVE  EvidenceInv' /\ WritesOnce
  <1>1. /\ at[1] = "copy" /\ at[2] = 4 /\ slotEvent = "none" /\ worker # "absent"
        /\ \A j \in 1..3 : copies[j] # "absent"
        /\ deliveryCopy' = delivery
        /\ UNCHANGED <<remoteSide, copies, collectorRead, evidence>>
    BY DEF CopyDeliveryLog, Coordinator, EvidenceInv, CoordinatorHas
  <1>2. /\ slotEvent' \in {"none", "INVALID"}
        /\ slotEvent' = "INVALID" => assignmentOver
        /\ at'[1] \in {"complete", "advance"}
        /\ at'[1] = "complete" => slotEvent' = "none" /\ delivery.own # "absent"
    BY <1>1 DEF CopyDeliveryLog, MarkSlotInvalid
  <1>3. EvidenceTypes' /\ DeliveredWasCollected' /\ CopiesOfOriginals' /\ CoordinatorHas'
    BY <1>1, <1>2 DEF EvidenceInv, EvidenceTypes, DeliveredWasCollected,
                      CopiesOfOriginals, CoordinatorHas, remoteSide
  <1>4. VerdictHasItsEvidence' /\ WritesOnce
    BY <1>1, <1>2 DEF VerdictHasItsEvidence, QualifyingIsEvidenced, InvalidHasItsCause,
                      WritesOnce, remoteSide
  <1> QED
    BY <1>3, <1>4 DEF EvidenceInv

LEMMA ReadCollectorLogKeeps ==
  ASSUME EvidenceInv, ReadCollectorLog
  PROVE  EvidenceInv' /\ WritesOnce
  <1>1. /\ slotEvent = "none" /\ worker # "absent" /\ deliveryCopy.own # "absent"
        /\ \A j \in 1..3 : copies[j] # "absent"
        /\ collectorRead' = collected /\ at'[1] = "reconcile"
        /\ UNCHANGED <<remoteSide, copies, deliveryCopy, evidence, slotEvent>>
    BY DEF ReadCollectorLog, Coordinator, EvidenceInv, CoordinatorHas
  <1>2. collected.own = "ACCEPTED"
    BY <1>1 DEF EvidenceInv, CopiesOfOriginals, DeliveredWasCollected
  <1>3. EvidenceTypes' /\ DeliveredWasCollected' /\ CopiesOfOriginals' /\ CoordinatorHas'
    BY <1>1, <1>2 DEF EvidenceInv, EvidenceTypes, DeliveredWasCollected,
                      CopiesOfOriginals, CoordinatorHas, remoteSide
  <1>4. VerdictHasItsEvidence' /\ WritesOnce
    BY <1>1 DEF VerdictHasItsEvidence, QualifyingIsEvidenced, InvalidHasItsCause, WritesOnce
  <1> QED
    BY <1>3, <1>4 DEF EvidenceInv

\* What does not reconcile has a cause the operator can be told.
LEMMA ReconcileKeeps ==
  ASSUME EvidenceInv, ReconcileSlot
  PROVE  EvidenceInv' /\ WritesOnce
  <1>1. /\ slotEvent = "none" /\ worker # "absent"
        /\ deliveryCopy.own # "absent" /\ collectorRead.own = "ACCEPTED"
        /\ \A j \in 1..3 : copies[j] # "absent"
        /\ UNCHANGED <<remoteSide, copies, deliveryCopy, collectorRead, evidence>>
    BY DEF ReconcileSlot, Coordinator, EvidenceInv, CoordinatorHas
  <1>2. CASE ~Reconciles
    <2>1. \/ clockAhead \/ deliveryCopy.own = "DUPLICATE"
          \/ ~Readable(deliveryCopy) \/ ~Readable(collectorRead)
          \/ \E i \in 1..3 : copies[i] \in {"half", "torn"}
      <3>1. copies \in [1..3 -> {"absent", "torn", "half", "whole"}]
        BY DEF EvidenceInv, EvidenceTypes
      <3>2. deliveryCopy.own \in {"absent", "ACCEPTED", "DUPLICATE"}
        BY LogFields DEF EvidenceInv, EvidenceTypes
      <3> QED
        BY <1>1, <1>2, <3>1, <3>2 DEF Reconciles, Whole
    <2> QED
      BY <1>1, <1>2, <2>1, MarkKeeps DEF ReconcileSlot
  <1>3. CASE Reconciles
    <2>1. at'[1] = "persist" /\ at'[2] = 1 /\ UNCHANGED slotEvent
      BY <1>3 DEF ReconcileSlot
    <2>2. EvidenceTypes' /\ DeliveredWasCollected' /\ CopiesOfOriginals'
      BY <1>1, <2>1 DEF EvidenceInv, EvidenceTypes, DeliveredWasCollected,
                        CopiesOfOriginals, remoteSide
    <2>3. CoordinatorHas'
      BY <1>1, <1>3, <2>1, FilesNumbered DEF CoordinatorHas, remoteSide, Reconciles
    <2>4. VerdictHasItsEvidence' /\ WritesOnce
      BY <1>1, <2>1 DEF VerdictHasItsEvidence, QualifyingIsEvidenced, InvalidHasItsCause,
                        WritesOnce
    <2> QED
      BY <2>2, <2>3, <2>4 DEF EvidenceInv
  <1> QED
    BY <1>2, <1>3

LEMMA PersistKeeps ==
  ASSUME EvidenceInv, PersistFile
  PROVE  EvidenceInv' /\ WritesOnce
  <1> DEFINE i == at[2]
  <1>1. /\ at[1] = "persist" /\ slotEvent = "none" /\ worker # "absent" /\ Reconciles
        /\ i \in DOMAIN EvidenceFiles /\ i \in Nat
        /\ \A j \in DOMAIN EvidenceFiles : j < i => evidence[j] = "whole"
        /\ UNCHANGED <<remoteSide, copies, deliveryCopy, collectorRead>>
    BY FilesNumbered DEF PersistFile, Coordinator, EvidenceInv, CoordinatorHas
  <1>2. CASE evidence[i] = "torn"
    BY <1>1, <1>2, MarkKeeps DEF PersistFile
  <1>3. CASE evidence[i] # "torn"
    <2>1. evidence' = [evidence EXCEPT ![i] = "whole"] /\ at' = <<"persist", i + 1>>
          /\ UNCHANGED slotEvent
      BY <1>3 DEF PersistFile
    <2>2. /\ evidence' \in [DOMAIN EvidenceFiles -> {"absent", "torn", "whole"}]
          /\ evidence'[i] = "whole" /\ evidence[i] \in {"absent", "whole"}
          /\ \A j \in DOMAIN EvidenceFiles : j # i => evidence'[j] = evidence[j]
      BY <1>1, <1>3, <2>1 DEF EvidenceInv, EvidenceTypes
    <2>3. at'[1] = "persist" /\ at'[2] = i + 1 /\ i + 1 \in 1 .. (Len(EvidenceFiles) + 1)
      BY <1>1, <2>1, FilesNumbered
    <2> HIDE DEF i
    <2>4. EvidenceTypes' /\ DeliveredWasCollected' /\ CopiesOfOriginals'
      BY <1>1, <2>1, <2>2, <2>3 DEF EvidenceInv, EvidenceTypes, DeliveredWasCollected,
                                    CopiesOfOriginals, remoteSide
    <2>5. CoordinatorHas'
      <3>1. \A j \in DOMAIN EvidenceFiles : j < i + 1 => evidence'[j] = "whole"
        BY <1>1, <2>2, FilesNumbered
      <3>2. Reconciles'
        BY <1>1 DEF Reconciles, remoteSide, Readable
      <3> QED
        BY <1>1, <2>1, <2>3, <3>1, <3>2 DEF CoordinatorHas, remoteSide
    <2>6. VerdictHasItsEvidence' /\ WritesOnce
      BY <1>1, <2>1, <2>2 DEF VerdictHasItsEvidence, QualifyingIsEvidenced,
                              InvalidHasItsCause, WritesOnce
    <2> QED
      BY <2>4, <2>5, <2>6 DEF EvidenceInv
  <1> QED
    BY <1>2, <1>3

\* The event is written when all the evidence is.
LEMMA AppendQualifyingKeeps ==
  ASSUME EvidenceInv, AppendQualifying
  PROVE  EvidenceInv' /\ WritesOnce
  <1>1. /\ at[1] = "persist" /\ at[2] = Len(EvidenceFiles) + 1 /\ slotEvent = "none"
        /\ Reconciles /\ slotEvent' = "QUALIFYING" /\ at'[1] = "advance"
        /\ UNCHANGED <<remoteSide, copies, deliveryCopy, collectorRead, evidence>>
    BY DEF AppendQualifying, Coordinator, EvidenceInv, CoordinatorHas
  <1>2. \A i \in DOMAIN EvidenceFiles : evidence[i] = "whole"
    BY <1>1, FilesNumbered DEF EvidenceInv, CoordinatorHas
  <1>3. worker = "whole" /\ delivery.own = "ACCEPTED" /\ collected.own = "ACCEPTED"
    BY <1>1 DEF Reconciles, Whole, EvidenceInv, CopiesOfOriginals
  <1>4. EvidenceTypes' /\ DeliveredWasCollected' /\ CopiesOfOriginals' /\ CoordinatorHas'
    BY <1>1 DEF EvidenceInv, EvidenceTypes, DeliveredWasCollected, CopiesOfOriginals,
                CoordinatorHas, remoteSide
  <1>5. VerdictHasItsEvidence' /\ WritesOnce
    BY <1>1, <1>2, <1>3 DEF VerdictHasItsEvidence, QualifyingIsEvidenced,
                            InvalidHasItsCause, WritesOnce, remoteSide, Reconciles, Whole
  <1> QED
    BY <1>4, <1>5 DEF EvidenceInv

\* A death tears at most a file that was not there, and the next process starts
\* from the beginning.
LEMMA DiesKeeps ==
  ASSUME EvidenceInv, CoordinatorDies
  PROVE  EvidenceInv' /\ WritesOnce
  <1>1. /\ at'[1] = "stopped"
        /\ UNCHANGED <<remoteSide, deliveryCopy, collectorRead, slotEvent>>
    BY DEF CoordinatorDies
  <1>2. /\ copies' \in [1..3 -> {"absent", "torn", "half", "whole"}]
        /\ \A i \in 1..3 : copies[i] # "absent" => copies'[i] = copies[i]
        /\ \A i \in 1..3 : copies'[i] = "whole" => copies[i] = "whole"
    BY DEF CoordinatorDies, EvidenceInv, EvidenceTypes
  <1>3. /\ evidence' \in [DOMAIN EvidenceFiles -> {"absent", "torn", "whole"}]
        /\ \A i \in DOMAIN EvidenceFiles : evidence[i] # "absent" => evidence'[i] = evidence[i]
    BY DEF CoordinatorDies, EvidenceInv, EvidenceTypes
  <1>4. EvidenceTypes' /\ DeliveredWasCollected' /\ CopiesOfOriginals' /\ CoordinatorHas'
    BY <1>1, <1>2, <1>3 DEF EvidenceInv, EvidenceTypes, DeliveredWasCollected,
                            CopiesOfOriginals, CoordinatorHas, remoteSide
  <1>5. VerdictHasItsEvidence'
    BY <1>1, <1>2, <1>3 DEF EvidenceInv, VerdictHasItsEvidence, QualifyingIsEvidenced,
                            InvalidHasItsCause, remoteSide, Whole, Readable
  <1>6. WritesOnce
    BY <1>1, <1>2, <1>3 DEF WritesOnce
  <1> QED
    BY <1>4, <1>5, <1>6 DEF EvidenceInv

LEMMA RestartsKeeps ==
  ASSUME EvidenceInv, CoordinatorRestarts
  PROVE  EvidenceInv' /\ WritesOnce
  <1>1. at'[1] = "advance" /\ UNCHANGED <<remoteSide, localSide>>
    BY DEF CoordinatorRestarts, Coordinator
  <1>2. EvidenceTypes' /\ DeliveredWasCollected' /\ CopiesOfOriginals' /\ CoordinatorHas'
    BY <1>1 DEF EvidenceInv, EvidenceTypes, DeliveredWasCollected, CopiesOfOriginals,
                CoordinatorHas, remoteSide, localSide
  <1>3. VerdictHasItsEvidence' /\ WritesOnce
    BY <1>1 DEF EvidenceInv, VerdictHasItsEvidence, QualifyingIsEvidenced,
                InvalidHasItsCause, WritesOnce, remoteSide, localSide
  <1> QED
    BY <1>2, <1>3 DEF EvidenceInv

-----------------------------------------------------------------------------
LEMMA EvidenceStep ==
  ASSUME EvidenceInv, [EvidenceNext]_evidenceVars
  PROVE  EvidenceInv' /\ WritesOnce
  <1>1. CASE EvidenceNext
    BY <1>1, LookKeeps, CopyRemoteKeeps, CopyDeliveryLogKeeps, ReadCollectorLogKeeps,
       ReconcileKeeps, PersistKeeps, AppendQualifyingKeeps, RestartsKeeps, DiesKeeps,
       RemoteKeeps DEF EvidenceNext, CoordinatorStep
  <1>2. CASE UNCHANGED evidenceVars
    <2> USE <1>2 DEF evidenceVars, remoteSide, localSide
    <2>1. EvidenceTypes' /\ DeliveredWasCollected' /\ CopiesOfOriginals'
      BY DEF EvidenceInv, EvidenceTypes, DeliveredWasCollected, CopiesOfOriginals
    <2>2. CoordinatorHas' /\ WritesOnce
      BY DEF EvidenceInv, CoordinatorHas, Reconciles, Readable, WritesOnce
    <2>3. VerdictHasItsEvidence'
      BY DEF EvidenceInv, VerdictHasItsEvidence, QualifyingIsEvidenced,
             InvalidHasItsCause, Readable
    <2> QED
      BY <2>1, <2>2, <2>3 DEF EvidenceInv
  <1> QED
    BY <1>1, <1>2

\* Whatever dies or is half-written, the invariant holds.
THEOREM EvidenceInvariant == EvidenceSpec => []EvidenceInv
<1>1. EvidenceInit => EvidenceInv
  <2> SUFFICES ASSUME EvidenceInit PROVE EvidenceInv
    OBVIOUS
  <2> USE DEF EvidenceInit, EmptyLog
  <2>1. EvidenceTypes
    BY DEF EvidenceTypes, Logs
  <2>2. DeliveredWasCollected /\ CopiesOfOriginals /\ CoordinatorHas
    BY DEF DeliveredWasCollected, CopiesOfOriginals, CoordinatorHas
  <2>3. VerdictHasItsEvidence
    BY DEF VerdictHasItsEvidence, QualifyingIsEvidenced, InvalidHasItsCause
  <2> QED
    BY <2>1, <2>2, <2>3 DEF EvidenceInv
<1> QED
  BY <1>1, EvidenceStep, PTL DEF EvidenceSpec

\* A slot that counts has its evidence, whole, at both ends, one that is refused
\* has its cause, and nothing written is ever written over: for any number of
\* files and faults.
THEOREM EvidenceSound == EvidenceSpec => EvidenceIsSound
<1>1. EvidenceInv /\ [EvidenceNext]_evidenceVars => [VerdictHasItsEvidence']_evidenceVars
  BY EvidenceStep DEF EvidenceInv
<1>2. EvidenceInv /\ [EvidenceNext]_evidenceVars => [WritesOnce]_evidenceVars
  BY EvidenceStep
<1>3. [][WritesOnce]_evidenceVars => EvidenceIsWriteOnce
  BY PTL DEF EvidenceIsWriteOnce, WritesOnce
<1> QED
  BY <1>1, <1>2, <1>3, EvidenceInvariant, PTL DEF EvidenceSpec, EvidenceIsSound

\* The files of a slot, its logs and its conclusion keep their types.
THEOREM EvidenceTyped == EvidenceSpec => []EvidenceTypeOK
<1>1. EvidenceInv => EvidenceTypeOK
  BY DEF EvidenceInv, EvidenceTypes, EvidenceTypeOK
<1> QED
  BY <1>1, EvidenceInvariant, PTL

----------------------------------------------------------------------------
(* The intelligence feed.                                                  *)

\* The longest run of the set that ends at n has c members.
TrailingRun(S, n, c) == c \in 0 .. n /\ (n - c + 1) .. n \subseteq S /\ n - c \notin S

StateOf(k) == IF k \in DOMAIN hysteresis THEN hysteresis[k] ELSE Blank

Summaries == UNION {[R -> Classifications] : R \in SUBSET Routes}
Counters == [avoidCount : Nat, restoreCount : Nat, avoided : BOOLEAN]

FeedTypes ==
  /\ feedClock \in 0 .. FeedEnd
  /\ published \in Snapshots /\ lastApplied \in Snapshots
  /\ polls \in [Pollers -> [phase : {"idle", "asked", "answered"}, at : 0 .. FeedEnd,
                            answer : Snapshots]]
  /\ DOMAIN hysteresis \subseteq Keys
  /\ \A k \in DOMAIN hysteresis : hysteresis[k] \in Counters
  /\ feedAvailable \in BOOLEAN
  /\ votes \in Seq(Summaries)

\* What is applied was credible once, its votes are the last, and decision()
\* has its times.
AppliedStory ==
  /\ active = TimesOf(lastApplied)
  /\ lastApplied.version = 0 => votes = <<>> /\ ~feedAvailable
  /\ lastApplied.version > 0 =>
       /\ votes # <<>> /\ votes[Len(votes)] = lastApplied.classes
       /\ VerifiedEnvelope(lastApplied)
       /\ lastApplied.generated < lastApplied.expires
       /\ \A o \in SourcesOf(lastApplied) : o <= lastApplied.generated

\* The counters are the runs at the end of the votes, and the flag what the
\* votes say.
CountersStory ==
  \A k \in Keys :
    /\ TrailingRun(AvoidVotes(k), Len(votes), StateOf(k).avoidCount)
    /\ TrailingRun(HealthyVotes(k), Len(votes), StateOf(k).restoreCount)
    /\ StateOf(k).avoided <=> AvoidedByVotes(k)

FeedInv == FeedTypes /\ AppliedStory /\ CountersStory

----------------------------------------------------------------------------
\* Runs of votes.

LEMMA RunGrows ==
  ASSUME NEW n \in Nat, NEW S \in SUBSET (1 .. n), NEW c, TrailingRun(S, n, c)
  PROVE  TrailingRun(S \union {n + 1}, n + 1, c + 1) /\ TrailingRun(S, n + 1, 0)
BY DEF TrailingRun

\* A run of m that ends at n is no longer than the longest.
LEMMA RunIsLongest ==
  ASSUME NEW n \in Nat, NEW S \in SUBSET (1 .. n), NEW c, TrailingRun(S, n, c), NEW m \in Nat, m <= n
  PROVE  ((n - m + 1) .. n \subseteq S) <=> m <= c
<1>1. c \in Nat /\ c <= n /\ n - c \notin S /\ (n - c + 1) .. n \subseteq S
  BY DEF TrailingRun
<1>2. ASSUME m > c PROVE n - c \in (n - m + 1) .. n
  BY <1>1, <1>2
<1>3. ASSUME m <= c PROVE (n - m + 1) .. n \subseteq (n - c + 1) .. n
  BY <1>1, <1>3
<1> QED BY <1>1, <1>2, <1>3

\* One vote more: to avoid, healthy, or neither.
LEMMA AvoidVoteCounts ==
  ASSUME NEW n \in Nat, NEW A \in SUBSET (1 .. n), NEW H \in SUBSET (1 .. n), NEW c, TrailingRun(A, n, c)
  PROVE  Earned(n + 1, A \union {n + 1}, H) <=> Earned(n, A, H) \/ c + 1 >= AvoidAfter
<1> DEFINE B == A \union {n + 1}
<1>0. AvoidAfter \in Nat \ {0} /\ RestoreAfter \in Nat \ {0} /\ c \in Nat /\ c <= n
  BY FeedAssumption DEF TrailingRun
<1>1. TrailingRun(B, n + 1, c + 1) /\ B \in SUBSET (1 .. (n + 1))
  BY RunGrows
<1>a. AvoidAfter <= n + 1 => ((n + 1 - AvoidAfter + 1) .. (n + 1) \subseteq B <=> AvoidAfter <= c + 1)
  <2> HIDE DEF B
  <2>1. n + 1 \in Nat /\ AvoidAfter \in Nat
    BY <1>0
  <2> QED BY <1>1, <2>1, RunIsLongest
<1>2. ASSUME Earned(n, A, H) PROVE Earned(n + 1, B, H)
  <2>1. PICK i \in 1 .. n :
          /\ i >= AvoidAfter /\ (i - AvoidAfter + 1) .. i \subseteq A
          /\ \A j \in (i + 1) .. n :
               /\ j \in A \union H
               /\ j >= i + RestoreAfter => ~((j - RestoreAfter + 1) .. j \subseteq H)
    BY <1>2 DEF Earned
  <2>2. i \in 1 .. (n + 1) /\ (i - AvoidAfter + 1) .. i \subseteq B
    BY <2>1
  <2>3. ASSUME NEW j \in (i + 1) .. (n + 1)
        PROVE  /\ j \in B \union H
               /\ j >= i + RestoreAfter => ~((j - RestoreAfter + 1) .. j \subseteq H)
    <3>1. CASE j \in (i + 1) .. n
      BY <2>1, <3>1
    <3>2. CASE j = n + 1
      <4>1. n + 1 \in (j - RestoreAfter + 1) .. j /\ n + 1 \notin H
        BY <1>0, <3>2
      <4> QED BY <3>2, <4>1
    <3> QED BY <2>3, <3>1, <3>2
  <2> QED BY <2>1, <2>2, <2>3 DEF Earned
<1>3. ASSUME c + 1 >= AvoidAfter PROVE Earned(n + 1, B, H)
  <2>1. n + 1 \in 1 .. (n + 1) /\ n + 1 >= AvoidAfter
    BY <1>0, <1>3
  <2>2. (n + 1 - AvoidAfter + 1) .. (n + 1) \subseteq B
    BY <1>0, <1>a, <1>3, <2>1
  <2>3. ASSUME NEW j \in ((n + 1) + 1) .. (n + 1) PROVE FALSE
    BY <2>3
  <2> HIDE DEF B
  <2>4. \E i \in 1 .. (n + 1) :
          /\ i >= AvoidAfter /\ (i - AvoidAfter + 1) .. i \subseteq B
          /\ \A j \in (i + 1) .. (n + 1) :
               /\ j \in B \union H
               /\ j >= i + RestoreAfter => ~((j - RestoreAfter + 1) .. j \subseteq H)
    <3> WITNESS n + 1 \in 1 .. (n + 1)
    <3> QED BY <1>0, <2>1, <2>2, <2>3
  <2> QED BY <2>4 DEF Earned
<1>4. ASSUME Earned(n + 1, B, H) PROVE Earned(n, A, H) \/ c + 1 >= AvoidAfter
  <2>1. PICK i \in 1 .. (n + 1) :
          /\ i >= AvoidAfter /\ (i - AvoidAfter + 1) .. i \subseteq B
          /\ \A j \in (i + 1) .. (n + 1) :
               /\ j \in B \union H
               /\ j >= i + RestoreAfter => ~((j - RestoreAfter + 1) .. j \subseteq H)
    BY <1>4 DEF Earned
  <2>2. CASE i = n + 1
    BY <1>0, <1>a, <2>1, <2>2
  <2>3. CASE i \in 1 .. n
    <3>1. (i - AvoidAfter + 1) .. i \subseteq A
      BY <2>1, <2>3
    <3>2. \A j \in (i + 1) .. n : j \in (i + 1) .. (n + 1) /\ (j \in B => j \in A)
      BY <2>3
    <3> QED BY <2>1, <2>3, <3>1, <3>2 DEF Earned
  <2> QED BY <2>2, <2>3
<1> QED BY <1>2, <1>3, <1>4

LEMMA HealthyVoteCounts ==
  ASSUME NEW n \in Nat, NEW A \in SUBSET (1 .. n), NEW H \in SUBSET (1 .. n), A \intersect H = {},
         NEW r, TrailingRun(H, n, r)
  PROVE  Earned(n + 1, A, H \union {n + 1}) <=> Earned(n, A, H) /\ r + 1 < RestoreAfter
<1> DEFINE G == H \union {n + 1}
<1>0. AvoidAfter \in Nat \ {0} /\ RestoreAfter \in Nat \ {0} /\ r \in Nat /\ r <= n
  BY FeedAssumption DEF TrailingRun
<1>1. TrailingRun(G, n + 1, r + 1) /\ G \in SUBSET (1 .. (n + 1))
  BY RunGrows
<1>a. RestoreAfter <= n + 1 => ((n + 1 - RestoreAfter + 1) .. (n + 1) \subseteq G <=> RestoreAfter <= r + 1)
  <2> HIDE DEF G
  <2>1. n + 1 \in Nat /\ RestoreAfter \in Nat
    BY <1>0
  <2> QED BY <1>1, <2>1, RunIsLongest
<1>2. ASSUME Earned(n, A, H), r + 1 < RestoreAfter PROVE Earned(n + 1, A, G)
  <2>1. PICK i \in 1 .. n :
          /\ i >= AvoidAfter /\ (i - AvoidAfter + 1) .. i \subseteq A
          /\ \A j \in (i + 1) .. n :
               /\ j \in A \union H
               /\ j >= i + RestoreAfter => ~((j - RestoreAfter + 1) .. j \subseteq H)
    BY <1>2 DEF Earned
  <2>2. ASSUME NEW j \in (i + 1) .. (n + 1)
        PROVE  /\ j \in A \union G
               /\ j >= i + RestoreAfter => ~((j - RestoreAfter + 1) .. j \subseteq G)
    <3>1. CASE j \in (i + 1) .. n
      <4>1. (j - RestoreAfter + 1) .. j \subseteq G => (j - RestoreAfter + 1) .. j \subseteq H
        <5>1. n + 1 \notin (j - RestoreAfter + 1) .. j
          BY <1>0, <3>1
        <5> QED BY <5>1
      <4> QED BY <2>1, <3>1, <4>1
    <3>2. CASE j = n + 1
      <4>1. RestoreAfter <= n + 1 => ~((n + 1 - RestoreAfter + 1) .. (n + 1) \subseteq G)
        BY <1>0, <1>a, <1>2
      <4>2. j >= i + RestoreAfter => RestoreAfter <= n + 1
        BY <1>0, <2>1, <3>2
      <4>3. n + 1 \in A \union G
        OBVIOUS
      <4> HIDE DEF G
      <4> QED BY <1>0, <3>2, <4>1, <4>2, <4>3
    <3> QED BY <2>2, <3>1, <3>2
  <2>3. i \in 1 .. (n + 1)
    BY <2>1
  <2> HIDE DEF G
  <2> QED BY <2>1, <2>2, <2>3 DEF Earned
<1>3. ASSUME Earned(n + 1, A, G) PROVE Earned(n, A, H) /\ r + 1 < RestoreAfter
  <2>1. PICK i \in 1 .. (n + 1) :
          /\ i >= AvoidAfter /\ (i - AvoidAfter + 1) .. i \subseteq A
          /\ \A j \in (i + 1) .. (n + 1) :
               /\ j \in A \union G
               /\ j >= i + RestoreAfter => ~((j - RestoreAfter + 1) .. j \subseteq G)
    BY <1>3 DEF Earned
  <2>2. i \in A
    <3>1. i \in (i - AvoidAfter + 1) .. i
      BY <1>0, <2>1
    <3> QED BY <2>1, <3>1
  <2>3. i \in 1 .. n
    BY <2>1, <2>2
  <2>4. \A j \in (i + 1) .. n :
          /\ j \in (i + 1) .. (n + 1) /\ (j \in G => j \in H)
          /\ (j - RestoreAfter + 1) .. j \subseteq H => (j - RestoreAfter + 1) .. j \subseteq G
    BY <2>3
  <2>5. Earned(n, A, H)
    BY <2>1, <2>3, <2>4 DEF Earned
  <2>6. ASSUME r + 1 >= RestoreAfter PROVE FALSE
    <3>1. (n + 1 - RestoreAfter + 1) .. (n + 1) \subseteq G /\ RestoreAfter <= n + 1
      BY <1>0, <1>a, <2>6
    <3>2. i \notin G
      BY <2>2, <2>3
    <3>3. i < n + 1 - RestoreAfter + 1
      BY <1>0, <2>3, <3>1, <3>2
    <3>4. n + 1 >= i + RestoreAfter /\ n + 1 \in (i + 1) .. (n + 1)
      BY <1>0, <2>3, <3>3
    <3> HIDE DEF G
    <3>5. n + 1 >= i + RestoreAfter => ~((n + 1 - RestoreAfter + 1) .. (n + 1) \subseteq G)
      BY <1>0, <2>1, <3>4
    <3> QED BY <3>1, <3>4, <3>5
  <2> QED BY <1>0, <2>5, <2>6
<1> QED BY <1>2, <1>3

LEMMA OtherVoteClears ==
  ASSUME NEW n \in Nat, NEW A \in SUBSET (1 .. n), NEW H \in SUBSET (1 .. n)
  PROVE  ~Earned(n + 1, A, H)
<1>0. AvoidAfter \in Nat \ {0}
  BY FeedAssumption
<1> SUFFICES ASSUME NEW i \in 1 .. (n + 1), i >= AvoidAfter, (i - AvoidAfter + 1) .. i \subseteq A,
                    \A j \in (i + 1) .. (n + 1) : j \in A \union H
             PROVE  FALSE
  BY DEF Earned
<1>1. i \in A
  BY <1>0
<1>2. n + 1 \in (i + 1) .. (n + 1)
  BY <1>1
<1> QED BY <1>2

----------------------------------------------------------------------------
\* Counting one entry.

LEMMA CountsAvoid ==
  ASSUME NEW st, NEW k, NEW class, AvoidSignal(k, class)
  PROVE  Counted(st, k, class) =
           [avoidCount |-> st.avoidCount + 1, restoreCount |-> 0,
            avoided |-> st.avoided \/ st.avoidCount + 1 >= AvoidAfter]
BY Zenon DEF Counted

LEMMA CountsHealthy ==
  ASSUME NEW st, NEW k, NEW class, ~AvoidSignal(k, class), class = "HEALTHY"
  PROVE  Counted(st, k, class) =
           [avoidCount |-> 0, restoreCount |-> st.restoreCount + 1,
            avoided |-> st.avoided /\ st.restoreCount + 1 < RestoreAfter]
BY Zenon DEF Counted

LEMMA CountsOther ==
  ASSUME NEW st, NEW k, NEW class, ~AvoidSignal(k, class), class # "HEALTHY"
  PROVE  Counted(st, k, class) = Blank
BY Zenon DEF Counted

\* What one vote more does to the sets of votes.
LEMMA NewVote ==
  ASSUME NEW c \in Summaries, FeedTypes, votes' = Append(votes, c), NEW k
  PROVE  /\ Len(votes') = Len(votes) + 1 /\ votes' \in Seq(Summaries)
         /\ AvoidVotes(k)' = IF VotesAvoid(k, c) THEN AvoidVotes(k) \union {Len(votes) + 1}
                             ELSE AvoidVotes(k)
         /\ HealthyVotes(k)' = IF VotesHealthy(k, c) THEN HealthyVotes(k) \union {Len(votes) + 1}
                               ELSE HealthyVotes(k)
<1> DEFINE n == Len(votes)
<1>1. votes \in Seq(Summaries) /\ n \in Nat
  BY DEF FeedTypes
<1>2. Len(votes') = n + 1 /\ votes' \in Seq(Summaries)
  BY <1>1
<1>3. votes'[n + 1] = c /\ \A i \in 1 .. n : votes'[i] = votes[i]
  BY <1>1
<1>4. 1 .. (n + 1) = (1 .. n) \union {n + 1}
  BY <1>1
<1>5. AvoidVotes(k)' = {i \in 1 .. (n + 1) : VotesAvoid(k, votes'[i])}
  BY <1>2 DEF AvoidVotes
<1>6. HealthyVotes(k)' = {i \in 1 .. (n + 1) : VotesHealthy(k, votes'[i])}
  BY <1>2 DEF HealthyVotes
<1> HIDE DEF n
<1>7. AvoidVotes(k) = {i \in 1 .. n : VotesAvoid(k, votes[i])}
  BY DEF AvoidVotes, n
<1>8. HealthyVotes(k) = {i \in 1 .. n : VotesHealthy(k, votes[i])}
  BY DEF HealthyVotes, n
<1>9. AvoidVotes(k)' = IF VotesAvoid(k, c) THEN AvoidVotes(k) \union {n + 1} ELSE AvoidVotes(k)
  BY <1>3, <1>4, <1>5, <1>7
<1>10. HealthyVotes(k)' = IF VotesHealthy(k, c) THEN HealthyVotes(k) \union {n + 1}
                          ELSE HealthyVotes(k)
  BY <1>3, <1>4, <1>6, <1>8
<1> QED BY <1>2, <1>9, <1>10 DEF n

\* A healthy entry is no signal to avoid.
LEMMA VotesDisjoint ==
  ASSUME NEW k PROVE AvoidVotes(k) \intersect HealthyVotes(k) = {}
BY DEF AvoidVotes, HealthyVotes, VotesAvoid, VotesHealthy, AvoidSignal

LEMMA EntriesDomain ==
  ASSUME NEW c PROVE DOMAIN EntriesFromSummary(c) = {key \in Keys : key[1] \in DOMAIN c}
BY DEF EntriesFromSummary

LEMMA StateAfterVote ==
  ASSUME FeedTypes, NEW s \in Snapshots, hysteresis' = Apply(hysteresis, s), NEW k \in Keys
  PROVE  /\ DOMAIN hysteresis' = DOMAIN EntriesFromSummary(s.classes)
         /\ k \in DOMAIN EntriesFromSummary(s.classes) =>
              StateOf(k)' = Counted(StateOf(k), k, EntriesFromSummary(s.classes)[k])
         /\ k \notin DOMAIN EntriesFromSummary(s.classes) => StateOf(k)' = Blank
<1> DEFINE e == EntriesFromSummary(s.classes)
<1>1. hysteresis' = [q \in DOMAIN e |->
         Counted(IF q \in DOMAIN hysteresis THEN hysteresis[q] ELSE Blank, q, e[q])]
  BY DEF Apply
<1> HIDE DEF e
<1>2. DOMAIN hysteresis' = DOMAIN e
  BY <1>1
<1>3. k \in DOMAIN e => hysteresis'[k] = Counted(StateOf(k), k, e[k])
  BY <1>1 DEF StateOf
<1> QED BY <1>2, <1>3 DEF StateOf, e

LEMMA StateTyped ==
  ASSUME FeedTypes, NEW k \in Keys PROVE StateOf(k) \in Counters
BY DEF FeedTypes, StateOf, Counters, Blank

\* A snapshot applied keeps the counters what the votes say.
LEMMA VoteKeepsCounters ==
  ASSUME FeedInv, NEW s \in Snapshots, hysteresis' = Apply(hysteresis, s),
         votes' = Append(votes, s.classes), NEW k \in Keys
  PROVE  /\ StateOf(k)' \in Counters
         /\ TrailingRun(AvoidVotes(k), Len(votes), StateOf(k).avoidCount)'
         /\ TrailingRun(HealthyVotes(k), Len(votes), StateOf(k).restoreCount)'
         /\ (StateOf(k).avoided <=> AvoidedByVotes(k))'
<1> DEFINE n == Len(votes) A == AvoidVotes(k) H == HealthyVotes(k)
           e == EntriesFromSummary(s.classes)
           st == StateOf(k)
<1>1. FeedTypes /\ s.classes \in Summaries
  BY DEF FeedInv, Snapshots, Summaries
<1>2. /\ Len(votes') = n + 1
      /\ A' = IF VotesAvoid(k, s.classes) THEN A \union {n + 1} ELSE A
      /\ H' = IF VotesHealthy(k, s.classes) THEN H \union {n + 1} ELSE H
  BY <1>1, NewVote
<1>3. n \in Nat /\ A \in SUBSET (1 .. n) /\ H \in SUBSET (1 .. n) /\ A \intersect H = {}
  <2>1. n \in Nat
    BY <1>1 DEF FeedTypes
  <2>2. A \in SUBSET (1 .. n)
    BY DEF AvoidVotes
  <2>3. H \in SUBSET (1 .. n)
    BY DEF HealthyVotes
  <2>4. A \intersect H = {}
    BY VotesDisjoint
  <2> QED BY <2>1, <2>2, <2>3, <2>4
<1>4. /\ st \in Counters /\ TrailingRun(A, n, st.avoidCount) /\ TrailingRun(H, n, st.restoreCount)
      /\ st.avoided <=> Earned(n, A, H)
  BY <1>1, StateTyped DEF FeedInv, CountersStory, AvoidedByVotes
<1>5. AvoidedByVotes(k)' <=> Earned(n + 1, A', H')
  BY <1>2 DEF AvoidedByVotes
<1>6. /\ k \in DOMAIN e => st' = Counted(st, k, e[k])
      /\ k \notin DOMAIN e => st' = Blank
  BY <1>1, StateAfterVote
<1>7. /\ VotesAvoid(k, s.classes) <=> k \in DOMAIN e /\ AvoidSignal(k, e[k])
      /\ VotesHealthy(k, s.classes) <=> k \in DOMAIN e /\ e[k] = "HEALTHY"
  BY DEF VotesAvoid, VotesHealthy
<1>8. AvoidSignal(k, e[k]) => e[k] # "HEALTHY"
  BY DEF AvoidSignal
<1>9. st.avoidCount \in Nat /\ st.restoreCount \in Nat /\ st.avoided \in BOOLEAN
  BY <1>4 DEF Counters
<1>a. AvoidAfter \in Nat /\ RestoreAfter \in Nat
  BY FeedAssumption
<1>10. SUFFICES /\ st' \in Counters
                /\ TrailingRun(A', n + 1, st'.avoidCount) /\ TrailingRun(H', n + 1, st'.restoreCount)
                /\ st'.avoided <=> Earned(n + 1, A', H')
  BY <1>2, <1>5
<1> HIDE DEF n, A, H, e, st
<1>11. CASE k \in DOMAIN e /\ AvoidSignal(k, e[k])
  <2>1. st' = [avoidCount |-> st.avoidCount + 1, restoreCount |-> 0,
               avoided |-> st.avoided \/ st.avoidCount + 1 >= AvoidAfter]
    BY <1>6, <1>11, CountsAvoid
  <2>2. A' = A \union {n + 1} /\ H' = H
    BY <1>2, <1>7, <1>8, <1>11
  <2>3. TrailingRun(A', n + 1, st.avoidCount + 1) /\ TrailingRun(H', n + 1, 0)
    BY <1>3, <1>4, <2>2, RunGrows
  <2>4. Earned(n + 1, A', H') <=> Earned(n, A, H) \/ st.avoidCount + 1 >= AvoidAfter
    BY <1>3, <1>4, <2>2, AvoidVoteCounts
  <2>5. (st.avoidCount + 1 >= AvoidAfter) \in BOOLEAN /\ st.avoidCount + 1 \in Nat
    BY <1>9, <1>a
  <2>6. st' \in Counters
    BY <1>9, <1>a, <2>1, <2>5 DEF Counters
  <2>7. st'.avoidCount = st.avoidCount + 1 /\ st'.restoreCount = 0
        /\ st'.avoided = (st.avoided \/ st.avoidCount + 1 >= AvoidAfter)
    BY <2>1
  <2> QED BY <1>4, <2>3, <2>4, <2>6, <2>7
<1>12. CASE k \in DOMAIN e /\ ~AvoidSignal(k, e[k]) /\ e[k] = "HEALTHY"
  <2>1. st' = [avoidCount |-> 0, restoreCount |-> st.restoreCount + 1,
               avoided |-> st.avoided /\ st.restoreCount + 1 < RestoreAfter]
    BY <1>6, <1>12, CountsHealthy
  <2>2. H' = H \union {n + 1} /\ A' = A
    BY <1>2, <1>7, <1>12
  <2>3. TrailingRun(H', n + 1, st.restoreCount + 1) /\ TrailingRun(A', n + 1, 0)
    BY <1>3, <1>4, <2>2, RunGrows
  <2>4. Earned(n + 1, A', H') <=> Earned(n, A, H) /\ st.restoreCount + 1 < RestoreAfter
    BY <1>3, <1>4, <2>2, HealthyVoteCounts
  <2>5. (st.restoreCount + 1 < RestoreAfter) \in BOOLEAN /\ st.restoreCount + 1 \in Nat
    BY <1>9, <1>a
  <2>6. st' \in Counters
    BY <1>9, <1>a, <2>1, <2>5 DEF Counters
  <2>7. st'.avoidCount = 0 /\ st'.restoreCount = st.restoreCount + 1
        /\ st'.avoided = (st.avoided /\ st.restoreCount + 1 < RestoreAfter)
    BY <2>1
  <2> QED BY <1>4, <2>3, <2>4, <2>6, <2>7
<1>13. CASE ~(k \in DOMAIN e /\ (AvoidSignal(k, e[k]) \/ e[k] = "HEALTHY"))
  <2>1. st' = Blank
    BY <1>6, <1>13, CountsOther
  <2>2. A' = A /\ H' = H
    BY <1>2, <1>7, <1>13
  <2>3. TrailingRun(A', n + 1, 0) /\ TrailingRun(H', n + 1, 0)
    BY <1>3, <1>4, <2>2, RunGrows
  <2>4. ~Earned(n + 1, A', H')
    BY <1>3, <2>2, OtherVoteClears
  <2> QED BY <2>1, <2>3, <2>4 DEF Blank, Counters
<1> QED BY <1>11, <1>12, <1>13

----------------------------------------------------------------------------
\* The invariant.

LEMMA NoSnapshotTyped == NoSnapshot \in Snapshots
<1>1. NoSnapshot.classes \in [{} -> Classifications]
  BY DEF NoSnapshot
<1>2. NoSnapshot.classes \in UNION {[R -> Classifications] : R \in SUBSET Routes}
  BY <1>1
<1> QED BY <1>2, FeedAssumption DEF NoSnapshot, Snapshots

LEMMA FeedStarts == FeedInit => FeedInv
<1> SUFFICES ASSUME FeedInit PROVE FeedInv
  OBVIOUS
<1>1. FeedTypes
  <2>1. feedClock \in 0 .. FeedEnd /\ published \in Snapshots /\ lastApplied \in Snapshots
    BY NoSnapshotTyped, FeedAssumption DEF FeedInit
  <2>2. polls \in [Pollers -> [phase : {"idle", "asked", "answered"}, at : 0 .. FeedEnd,
                              answer : Snapshots]]
    BY NoSnapshotTyped, FeedAssumption DEF FeedInit, IdlePoll
  <2>3. votes \in Seq(Summaries)
    BY EmptySeq DEF FeedInit
  <2>5. feedAvailable \in BOOLEAN
    BY DEF FeedInit
  <2>4. DOMAIN hysteresis = {}
    BY DEF FeedInit
  <2> QED BY <2>1, <2>2, <2>3, <2>4, <2>5 DEF FeedTypes
<1>2. AppliedStory
  BY DEF FeedInit, AppliedStory, NoSnapshot
<1>3. ASSUME NEW k \in Keys
      PROVE  /\ TrailingRun(AvoidVotes(k), Len(votes), StateOf(k).avoidCount)
             /\ TrailingRun(HealthyVotes(k), Len(votes), StateOf(k).restoreCount)
             /\ StateOf(k).avoided <=> AvoidedByVotes(k)
  <2>1. StateOf(k) = Blank /\ Len(votes) = 0
    BY DEF FeedInit, StateOf
  <2>2. AvoidVotes(k) = {} /\ HealthyVotes(k) = {}
    BY <2>1 DEF AvoidVotes, HealthyVotes
  <2>3. TrailingRun({}, 0, 0)
    BY DEF TrailingRun
  <2>4. ~Earned(0, {}, {})
    BY DEF Earned
  <2> QED BY <2>1, <2>2, <2>3, <2>4 DEF Blank, AvoidedByVotes
<1> QED BY <1>1, <1>2, <1>3 DEF FeedInv, CountersStory

\* What does not change the applied snapshot, its counters and votes.
LEMMA FeedKept ==
  ASSUME FeedInv, UNCHANGED <<lastApplied, active, hysteresis, votes>>,
         feedAvailable' = feedAvailable \/ feedAvailable' = FALSE
  PROVE  /\ AppliedStory' /\ CountersStory'
         /\ lastApplied' \in Snapshots /\ DOMAIN hysteresis' \subseteq Keys
         /\ (\A k \in DOMAIN hysteresis : hysteresis[k] \in Counters)'
         /\ feedAvailable' \in BOOLEAN /\ votes' \in Seq(Summaries)
<1>1. AppliedStory'
  BY DEF FeedInv, AppliedStory
<1>2. ASSUME NEW k \in Keys
      PROVE  /\ AvoidVotes(k)' = AvoidVotes(k) /\ HealthyVotes(k)' = HealthyVotes(k)
             /\ StateOf(k)' = StateOf(k)
  BY DEF AvoidVotes, HealthyVotes, StateOf
<1>3. CountersStory'
  BY <1>2 DEF FeedInv, CountersStory, AvoidedByVotes
<1> QED BY <1>1, <1>3 DEF FeedInv, FeedTypes

LEMMA PublishedIsTyped ==
  ASSUME FeedInv, NEW version \in 0 .. MaxVersion, NEW ttl \in {Ttl, Ttl + 1},
         FeedPublishes(version, ttl)
  PROVE  published' \in Snapshots
<1>1. PICK R \in SUBSET Routes : \E c \in [R -> Classifications] :
        published' = [version |-> version, generated |-> feedClock,
                      expires |-> feedClock + ttl, classes |-> c,
                      observed |-> IF feedClock > SourceLag THEN feedClock - SourceLag ELSE 0]
  BY DEF FeedPublishes
<1>2. PICK c \in [R -> Classifications] :
        published' = [version |-> version, generated |-> feedClock,
                      expires |-> feedClock + ttl, classes |-> c,
                      observed |-> IF feedClock > SourceLag THEN feedClock - SourceLag ELSE 0]
  BY <1>1
<1>3. c \in UNION {[Q -> Classifications] : Q \in SUBSET Routes}
  BY <1>2
<1>4. feedClock \in 0 .. FeedEnd /\ FeedEnd \in Nat /\ SourceLag \in Nat /\ Ttl \in Nat
  BY FeedAssumption DEF FeedInv, FeedTypes
<1>5. feedClock + ttl \in 0 .. (FeedEnd + Ttl + 1)
  BY <1>4
<1>6. (IF feedClock > SourceLag THEN feedClock - SourceLag ELSE 0) \in 0 .. FeedEnd
  BY <1>4
<1> QED BY <1>2, <1>3, <1>4, <1>5, <1>6 DEF Snapshots

PollStates == [phase : {"idle", "asked", "answered"}, at : 0 .. FeedEnd, answer : Snapshots]

\* A step of the publisher or of the clock.
LEMMA OutsideStepKeeps ==
  ASSUME FeedInv, FeedPublishesNext \/ FeedReissues \/ FeedTick \/ FeedClockSetBack
  PROVE  FeedInv'
<1>1. /\ UNCHANGED <<lastApplied, active, hysteresis, votes, feedAvailable, polls>>
  BY DEF FeedPublishesNext, FeedReissues, FeedTick, FeedClockSetBack, FeedPublishes
<1>2. feedClock' \in 0 .. FeedEnd
  BY FeedAssumption DEF FeedInv, FeedTypes, FeedPublishesNext, FeedReissues, FeedTick,
     FeedClockSetBack, FeedPublishes
<1>3. published' \in Snapshots
  <2>1. published.version \in 0 .. MaxVersion /\ MaxVersion \in Nat
    BY FeedAssumption DEF FeedInv, FeedTypes, Snapshots
  <2>2. CASE FeedPublishesNext
    <3>1. published.version + 1 \in 0 .. MaxVersion
      BY <2>1, <2>2 DEF FeedPublishesNext
    <3> QED BY <2>2, <3>1, PublishedIsTyped DEF FeedPublishesNext
  <2>3. CASE FeedReissues
    BY <2>1, <2>3, PublishedIsTyped DEF FeedReissues
  <2>4. CASE FeedTick \/ FeedClockSetBack
    BY <2>4 DEF FeedInv, FeedTypes, FeedTick, FeedClockSetBack
  <2> QED BY <2>2, <2>3, <2>4
<1>4. AppliedStory' /\ CountersStory'
  BY <1>1, FeedKept
<1> QED BY <1>1, <1>2, <1>3, <1>4 DEF FeedInv, FeedTypes

\* A poll that starts, is answered or fails, and a decision that gives up.
LEMMA PollStepKeeps ==
  ASSUME FeedInv,
         DecisionTurnsOff \/ \E p \in Pollers : PollStarts(p) \/ FeedAnswers(p) \/ PollFails(p)
  PROVE  FeedInv'
<1>1. /\ UNCHANGED <<lastApplied, active, hysteresis, votes, feedClock, published>>
      /\ feedAvailable' = feedAvailable \/ feedAvailable' = FALSE
  BY DEF DecisionTurnsOff, PollStarts, FeedAnswers, PollFails, FailOpen
<1>2. polls' \in [Pollers -> PollStates]
  <2>0. /\ polls \in [Pollers -> PollStates] /\ feedClock \in 0 .. FeedEnd /\ FeedEnd \in Nat
        /\ published \in Snapshots
    BY FeedAssumption DEF FeedInv, FeedTypes, PollStates
  <2>1. IdlePoll \in PollStates
    BY <2>0, NoSnapshotTyped DEF IdlePoll, PollStates
  <2>2. [IdlePoll EXCEPT !.phase = "asked", !.at = feedClock] \in PollStates
    BY <2>0, NoSnapshotTyped DEF IdlePoll, PollStates
  <2>3. ASSUME NEW p \in Pollers
        PROVE  [polls[p] EXCEPT !.phase = "answered", !.answer = published] \in PollStates
    BY <2>0 DEF PollStates
  <2>4. CASE DecisionTurnsOff
    BY <2>0, <2>4 DEF DecisionTurnsOff
  <2>5. ASSUME NEW p \in Pollers, PollStarts(p) \/ PollFails(p)
        PROVE  polls' \in [Pollers -> PollStates]
    BY <2>0, <2>1, <2>2, <2>5 DEF PollStarts, PollFails
  <2>6. ASSUME NEW p \in Pollers, FeedAnswers(p) PROVE polls' \in [Pollers -> PollStates]
    <3>1. polls' = [polls EXCEPT ![p] = [polls[p] EXCEPT !.phase = "answered", !.answer = published]]
      BY <2>0, <2>6 DEF FeedAnswers, PollStates
    <3> QED BY <2>0, <2>3, <3>1
  <2> QED BY <2>4, <2>5, <2>6
<1>3. AppliedStory' /\ CountersStory'
  BY <1>1, FeedKept
<1> QED BY <1>1, <1>2, <1>3 DEF FeedInv, FeedTypes, PollStates

\* What a poll that settles finds, and what it may do about it.
LEMMA SettledPoll ==
  ASSUME FeedInv, NEW p \in Pollers, PollSettles(p)
  PROVE  \E s \in Snapshots :
           \/ FailOpen
           \/ /\ s = lastApplied /\ s.version > 0 /\ active' = TimesOf(s) /\ feedAvailable' = TRUE
              /\ UNCHANGED <<lastApplied, hysteresis, votes>>
           \/ /\ s.version > lastApplied.version /\ VerifiedEnvelope(s) /\ s.generated < s.expires
              /\ \A o \in SourcesOf(s) : o <= s.generated
              /\ lastApplied' = s /\ hysteresis' = Apply(hysteresis, s)
              /\ active' = TimesOf(s) /\ feedAvailable' = TRUE
              /\ votes' = Append(votes, s.classes)
<1> DEFINE s == polls[p].answer
           asked == polls[p].at
<1>1. s \in Snapshots /\ s.version \in Nat /\ lastApplied.version \in Nat
  BY DEF FeedInv, FeedTypes, Snapshots
<1>2. CASE ~Credible(s, asked) \/ Rollback(s) \/ Equivocation(s)
  BY <1>1, <1>2 DEF PollSettles, PollVerdict, Verdict
<1>3. CASE ~(~Credible(s, asked) \/ Rollback(s) \/ Equivocation(s))
  <2>1. /\ VerifiedEnvelope(s) /\ s.generated < s.expires
        /\ \A o \in SourcesOf(s) : o <= s.generated
    BY <1>3 DEF Credible, TemporallyValid
  <2>2. s.version > 0 /\ s.version >= lastApplied.version
    BY <1>1, <1>3, <2>1 DEF Rollback, VerifiedEnvelope
  <2>3. CASE s.version = lastApplied.version
    <3>1. s = lastApplied
      BY <1>3, <2>3 DEF Equivocation, SameContent
    <3>2. PollVerdict(s, asked) = "UNCHANGED"
      BY <1>3, <2>3 DEF PollVerdict, Verdict
    <3>3. active' = TimesOf(s) /\ feedAvailable' = TRUE /\ UNCHANGED <<lastApplied, hysteresis, votes>>
      BY <3>2 DEF PollSettles
    <3> QED BY <1>1, <2>2, <3>1, <3>3
  <2>4. CASE s.version # lastApplied.version
    <3>1. PollVerdict(s, asked) = "APPLIED"
      BY <1>3, <2>4 DEF PollVerdict, Verdict
    <3>2. /\ lastApplied' = s /\ hysteresis' = Apply(hysteresis, s)
          /\ active' = TimesOf(s) /\ feedAvailable' = TRUE
          /\ votes' = Append(votes, s.classes)
      BY <3>1 DEF PollSettles
    <3>3. s.version > lastApplied.version
      BY <1>1, <2>2, <2>4
    <3> QED BY <1>1, <2>1, <3>2, <3>3
  <2> QED BY <2>3, <2>4
<1> QED BY <1>2, <1>3

LEMMA SettlingKeeps ==
  ASSUME FeedInv, NEW p \in Pollers, PollSettles(p) PROVE FeedInv'
<1>0. polls' = [polls EXCEPT ![p] = IdlePoll] /\ UNCHANGED <<feedClock, published>>
  BY DEF PollSettles
<1>1. polls' \in [Pollers -> PollStates] /\ feedClock' \in 0 .. FeedEnd /\ published' \in Snapshots
  BY <1>0, NoSnapshotTyped, FeedAssumption DEF FeedInv, FeedTypes, PollStates, IdlePoll
<1>2. PICK s \in Snapshots :
           \/ FailOpen
           \/ /\ s = lastApplied /\ s.version > 0 /\ active' = TimesOf(s) /\ feedAvailable' = TRUE
              /\ UNCHANGED <<lastApplied, hysteresis, votes>>
           \/ /\ s.version > lastApplied.version /\ VerifiedEnvelope(s) /\ s.generated < s.expires
              /\ \A o \in SourcesOf(s) : o <= s.generated
              /\ lastApplied' = s /\ hysteresis' = Apply(hysteresis, s)
              /\ active' = TimesOf(s) /\ feedAvailable' = TRUE
              /\ votes' = Append(votes, s.classes)
  BY SettledPoll
<1>3. CASE FailOpen
  BY <1>1, <1>3, FeedKept DEF FailOpen, FeedInv, FeedTypes, PollStates
<1>4. CASE /\ s = lastApplied /\ s.version > 0 /\ active' = TimesOf(s) /\ feedAvailable' = TRUE
           /\ UNCHANGED <<lastApplied, hysteresis, votes>>
  <2>1. AppliedStory'
    <3>1. lastApplied.version \in Nat
      BY DEF FeedInv, FeedTypes, Snapshots
    <3> QED BY <1>4, <3>1 DEF FeedInv, AppliedStory
  <2>2. ASSUME NEW k \in Keys
        PROVE  /\ AvoidVotes(k)' = AvoidVotes(k) /\ HealthyVotes(k)' = HealthyVotes(k)
               /\ StateOf(k)' = StateOf(k)
    BY <1>4 DEF AvoidVotes, HealthyVotes, StateOf
  <2>3. CountersStory'
    BY <1>4, <2>2 DEF FeedInv, CountersStory, AvoidedByVotes
  <2> QED BY <1>1, <1>4, <2>1, <2>3 DEF FeedInv, FeedTypes, PollStates
<1>5. CASE /\ s.version > lastApplied.version /\ VerifiedEnvelope(s) /\ s.generated < s.expires
           /\ \A o \in SourcesOf(s) : o <= s.generated
           /\ lastApplied' = s /\ hysteresis' = Apply(hysteresis, s)
           /\ active' = TimesOf(s) /\ feedAvailable' = TRUE
           /\ votes' = Append(votes, s.classes)
  <2>1. FeedTypes /\ s.classes \in Summaries /\ lastApplied.version \in Nat /\ s.version \in Nat
    <3>1. FeedTypes /\ s.classes \in Summaries
      BY DEF FeedInv, Snapshots, Summaries
    <3>2. lastApplied.version \in Nat /\ s.version \in Nat
      BY <3>1 DEF FeedTypes, Snapshots
    <3> QED BY <3>1, <3>2
  <2>2. votes' \in Seq(Summaries)
    BY <1>5, <2>1, NewVote
  <2>3. Len(votes') = Len(votes) + 1 /\ votes'[Len(votes) + 1] = s.classes /\ Len(votes) \in Nat
    BY <1>5, <2>1 DEF FeedTypes
  <2>4. AppliedStory'
    BY <1>5, <2>1, <2>3 DEF AppliedStory
  <2>5. CountersStory'
    BY <1>5, VoteKeepsCounters DEF CountersStory
  <2>6. DOMAIN hysteresis' = {key \in Keys : key[1] \in DOMAIN s.classes}
    BY <1>5, EntriesDomain DEF Apply
  <2>7. ASSUME NEW k \in DOMAIN hysteresis' PROVE hysteresis'[k] \in Counters
    <3>1. k \in Keys
      BY <2>6, <2>7
    <3>2. StateOf(k)' \in Counters
      BY <1>5, <3>1, VoteKeepsCounters
    <3> QED BY <2>7, <3>2 DEF StateOf
  <2> QED BY <1>1, <1>5, <2>2, <2>4, <2>5, <2>6, <2>7 DEF FeedInv, FeedTypes, PollStates
<1> QED BY <1>2, <1>3, <1>4, <1>5

LEMMA FeedStep == FeedInv /\ [FeedNext]_feedVars => FeedInv'
<1> SUFFICES ASSUME FeedInv, [FeedNext]_feedVars PROVE FeedInv'
  OBVIOUS
<1>1. CASE UNCHANGED feedVars
  <2>1. AppliedStory' /\ CountersStory'
    BY <1>1, FeedKept DEF feedVars
  <2> QED BY <1>1, <2>1 DEF feedVars, FeedInv, FeedTypes
<1>2. CASE FeedPublishesNext \/ FeedReissues \/ FeedTick \/ FeedClockSetBack
  BY <1>2, OutsideStepKeeps
<1>3. CASE DecisionTurnsOff \/ \E p \in Pollers : PollStarts(p) \/ FeedAnswers(p) \/ PollFails(p)
  BY <1>3, PollStepKeeps
<1>4. CASE \E p \in Pollers : PollSettles(p)
  BY <1>4, SettlingKeeps
<1> QED BY <1>1, <1>2, <1>3, <1>4 DEF FeedNext

\* What the client has applied and counted is the history of its votes, however
\* its polls overlap.
THEOREM FeedInvariant == FeedSpec => []FeedInv
BY FeedStarts, FeedStep, PTL DEF FeedSpec

\* A decision comes from the snapshot only while the feed is on and current.
LEMMA SnapshotDecision ==
  ASSUME NEW k, NEW override, NEW t, DecisionOf(k, override, t).source = "SNAPSHOT"
  PROVE  feedAvailable /\ CurrentAt(t)
<1>1. CASE override # "NONE"
  <2>1. DecisionOf(k, override, t) = [disposition |-> override, source |-> "DEVELOPER_OVERRIDE"]
    BY <1>1, Zenon DEF DecisionOf
  <2> QED BY <2>1
<1>2. CASE override = "NONE" /\ ~(feedAvailable /\ CurrentAt(t))
  <2>1. DecisionOf(k, override, t) = [disposition |-> "LOCAL_PRIMARY_FALLBACK", source |-> "FAIL_OPEN"]
    BY <1>2, Zenon DEF DecisionOf
  <2> QED BY <2>1
<1> QED BY <1>1, <1>2

LEMMA InvIsSound == FeedInv => FeedIsSound
<1> SUFFICES ASSUME FeedInv PROVE FeedIsSound
  OBVIOUS
<1>1. ASSUME NEW k \in Keys, NEW override \in {"NONE", "AVOID", "LOCAL_PRIMARY_FALLBACK"},
             DecisionOf(k, override, feedClock).source = "SNAPSHOT"
      PROVE  /\ VerifiedEnvelope(lastApplied)
             /\ TemporallyValid(lastApplied, feedClock)
             /\ votes # <<>> /\ votes[Len(votes)] = lastApplied.classes
  <2>1. feedAvailable /\ CurrentAt(feedClock)
    BY <1>1, SnapshotDecision
  <2>2. lastApplied.version \in Nat
    BY DEF FeedInv, FeedTypes, Snapshots
  <2>3. lastApplied.version > 0 /\ active = TimesOf(lastApplied)
    BY <2>1, <2>2 DEF FeedInv, AppliedStory
  <2>4. active.generated = lastApplied.generated /\ active.expires = lastApplied.expires
        /\ active.sources = SourcesOf(lastApplied)
    BY <2>3 DEF TimesOf
  <2> QED BY <2>1, <2>3, <2>4 DEF FeedInv, AppliedStory, CurrentAt, TemporallyValid
<1>2. ASSUME NEW k \in Keys
      PROVE  (k \in DOMAIN hysteresis /\ hysteresis[k].avoided) <=> AvoidedByVotes(k)
  BY DEF FeedInv, CountersStory, StateOf, Blank
<1> QED BY <1>1, <1>2 DEF FeedIsSound, SteeringIsCurrent, HysteresisMatchesVotes

LEMMA InvIsTyped == FeedInv => ClientTypeOK
<1> SUFFICES ASSUME FeedInv PROVE ClientTypeOK
  OBVIOUS
<1>1. active \in [generated : 0 .. FeedEnd, expires : 0 .. (FeedEnd + Ttl + 1),
                  sources : SUBSET (0 .. FeedEnd)]
  BY DEF FeedInv, FeedTypes, AppliedStory, TimesOf, SourcesOf, Snapshots
<1>2. ASSUME NEW k \in DOMAIN hysteresis
      PROVE  hysteresis[k] \in [avoidCount : 0 .. Len(votes), restoreCount : 0 .. Len(votes),
                                avoided : BOOLEAN]
  <2>1. k \in Keys /\ hysteresis[k] \in Counters /\ StateOf(k) = hysteresis[k]
    BY <1>2 DEF FeedInv, FeedTypes, StateOf
  <2>2. hysteresis[k].avoidCount \in 0 .. Len(votes) /\ hysteresis[k].restoreCount \in 0 .. Len(votes)
    BY <2>1 DEF FeedInv, CountersStory, TrailingRun
  <2> QED BY <2>1, <2>2 DEF Counters
<1> QED BY <1>1, <1>2 DEF FeedInv, FeedTypes, ClientTypeOK

\* Every variable of the feed's client keeps its type, and no counter of a key
\* exceeds the number of votes cast.
THEOREM FeedTyped == FeedSpec => []ClientTypeOK
BY FeedInvariant, InvIsTyped, PTL

\* A decision that names the snapshot as its source rests on the snapshot
\* applied last, which is current; and #states says AVOID for a key exactly
\* when the history of the votes does.
THEOREM FeedSound == FeedSpec => []FeedIsSound
BY FeedInvariant, InvIsSound, PTL

\* Counters and votes change only with a version above every one applied.
THEOREM VersionVotes == FeedSpec => VersionVotesOnce
<1>1. FeedInv /\ [FeedNext]_feedVars =>
        [(hysteresis' # hysteresis \/ votes' # votes)
           => lastApplied'.version > lastApplied.version]_feedVars
  <2> SUFFICES ASSUME FeedInv, FeedNext, hysteresis' # hysteresis \/ votes' # votes
               PROVE  lastApplied'.version > lastApplied.version
    BY DEF feedVars
  <2>1. PICK p \in Pollers : PollSettles(p)
    BY DEF FeedNext, FeedPublishesNext, FeedReissues, FeedPublishes, FeedTick, FeedClockSetBack,
       PollStarts, FeedAnswers, PollFails, DecisionTurnsOff, FailOpen
  <2> QED BY <2>1, SettledPoll DEF FailOpen
<1> QED BY <1>1, FeedInvariant, PTL DEF FeedSpec, VersionVotesOnce
----------------------------------------------------------------------------
(* The live monitor.                                                       *)

\* What the process has told by each of its steps.
ToldByThen ==
  /\ stored.sequence = 0 => stored = NoState
  /\ monitorPc = "sent" => told = current.fingerprint
  /\ monitorPc = "unsent" /\ ~interrupted => told = current.fingerprint
  /\ monitorPc = "unsent" => current.fingerprint = stored.fingerprint /\ ~stored.pending

MonitorInv == MonitorTypeOK /\ ToldByThen /\ OperatorKnowsStored

States == [fingerprint : Fingerprints, failed : 0 .. FailuresBeforeCritical,
           pending : BOOLEAN, sequence : 0 .. 1]

\* The count of failed samples stops where it becomes critical.
LEMMA SampleEvaluationTyped ==
  ASSUME NEW condition \in Conditions, NEW previous \in States
  PROVE  Evaluate(condition, previous)
           \in [fingerprint : Fingerprints, failed : 0 .. FailuresBeforeCritical]
<1>1. FailuresBeforeCritical \in Nat \ {0} /\ previous.failed \in 0 .. FailuresBeforeCritical
  BY MonitorAssumption DEF States
<1> DEFINE failed == IF condition = "down"
                     THEN IF previous.failed < FailuresBeforeCritical
                          THEN previous.failed + 1 ELSE previous.failed
                     ELSE 0
           fingerprint == IF condition = "low" THEN "WARNING"
                          ELSE IF failed >= FailuresBeforeCritical THEN "CRITICAL" ELSE "NONE"
<1>2. failed \in 0 .. FailuresBeforeCritical
  BY <1>1
<1>3. fingerprint \in Fingerprints
  BY DEF Fingerprints
<1>4. Evaluate(condition, previous) = [failed |-> failed, fingerprint |-> fingerprint]
  BY DEF Evaluate
<1> HIDE DEF failed, fingerprint
<1> QED BY <1>2, <1>3, <1>4

LEMMA MonitorStarts == MonitorInit => MonitorInv
<1> SUFFICES ASSUME MonitorInit PROVE MonitorInv
  OBVIOUS
<1>0. FailuresBeforeCritical \in Nat /\ ReminderAfter \in Nat /\ MonitorTroubles \in Nat
      /\ HostChanges \in Nat
  BY MonitorAssumption
<1>1. stored \in States /\ current \in [fingerprint : Fingerprints, failed : 0 .. FailuresBeforeCritical]
  BY <1>0 DEF MonitorInit, NoState, States, Fingerprints
<1>a. sinceSent \in 0 .. ReminderAfter /\ troubles \in 0 .. MonitorTroubles /\ changes \in 0 .. HostChanges
  BY <1>0 DEF MonitorInit
<1>b. host \in Conditions /\ told \in Fingerprints /\ interrupted \in BOOLEAN /\ monitorPc = "idle"
  BY DEF MonitorInit, Conditions, Fingerprints
<1>2. MonitorTypeOK
  BY <1>1, <1>a, <1>b DEF MonitorTypeOK, States
<1>3. ToldByThen /\ OperatorKnowsStored
  BY DEF MonitorInit, ToldByThen, OperatorKnowsStored, NoState
<1> QED BY <1>2, <1>3 DEF MonitorInv

LEMMA SampleKeeps ==
  ASSUME MonitorInv, Sample PROVE MonitorInv'
<1>0. stored \in States /\ host \in Conditions
  BY DEF MonitorInv, MonitorTypeOK, States
<1> DEFINE e == Evaluate(host, stored)
<1>1. e \in [fingerprint : Fingerprints, failed : 0 .. FailuresBeforeCritical]
  BY <1>0, SampleEvaluationTyped
<1>2. /\ monitorPc = "idle" /\ current' = e
      /\ monitorPc' = IF Decide(e) THEN "sending" ELSE "unsent"
      /\ UNCHANGED <<host, stored, told, troubles, changes, interrupted>>
  BY DEF Sample
<1>3. sinceSent' \in 0 .. ReminderAfter
  BY MonitorAssumption DEF Sample, MonitorInv, MonitorTypeOK
<1> HIDE DEF e
<1>4. ~Decide(e) => e.fingerprint = stored.fingerprint /\ ~stored.pending
  BY DEF Decide, MonitorInv, ToldByThen, NoState
<1>5. MonitorTypeOK'
  BY <1>1, <1>2, <1>3 DEF MonitorInv, MonitorTypeOK
<1>6. ToldByThen' /\ OperatorKnowsStored'
  BY <1>2, <1>4 DEF MonitorInv, ToldByThen, OperatorKnowsStored
<1> QED BY <1>5, <1>6 DEF MonitorInv

LEMMA WriteStateKeeps ==
  ASSUME MonitorInv, WriteState PROVE MonitorInv'
<1>1. stored' = [fingerprint |-> current.fingerprint, failed |-> current.failed,
                 pending |-> monitorPc = "pending", sequence |-> 1]
  BY DEF WriteState
<1>2. (monitorPc = "pending") \in BOOLEAN /\ current.fingerprint \in Fingerprints
        /\ current.failed \in 0 .. FailuresBeforeCritical
  BY DEF MonitorInv, MonitorTypeOK
<1>3. stored' \in States /\ stored'.sequence = 1 /\ stored'.fingerprint = current.fingerprint
        /\ (stored'.pending <=> monitorPc = "pending")
  <2>1. stored'.sequence = 1 /\ stored'.fingerprint = current.fingerprint
    BY <1>1
  <2>2. stored'.pending = (monitorPc = "pending")
    BY <1>1
  <2>3. ASSUME NEW f \in Fingerprints, NEW n \in 0 .. FailuresBeforeCritical, NEW b \in BOOLEAN
        PROVE  [fingerprint |-> f, failed |-> n, pending |-> b, sequence |-> 1] \in States
    BY DEF States
  <2>4. stored' \in States
    BY <1>1, <1>2, <2>3
  <2> QED BY <2>1, <2>2, <2>4
<1>4. sinceSent' \in 0 .. ReminderAfter
  BY MonitorAssumption DEF WriteState, MonitorInv, MonitorTypeOK
<1>5. MonitorTypeOK'
  BY <1>3, <1>4 DEF MonitorInv, MonitorTypeOK, WriteState, States
<1>6. ToldByThen' /\ OperatorKnowsStored'
  BY <1>3 DEF MonitorInv, ToldByThen, OperatorKnowsStored, WriteState
<1> QED BY <1>5, <1>6 DEF MonitorInv

LEMMA OtherMonitorStepKeeps ==
  ASSUME MonitorInv,
         MessageSent \/ SampleFails \/ MessageFails \/ MonitorDies \/ HostMoves \/ UNCHANGED monitorVars
  PROVE  MonitorInv'
<1>1. MonitorTypeOK'
  <2>1. troubles' \in 0 .. MonitorTroubles /\ changes' \in 0 .. HostChanges
    BY MonitorAssumption DEF MonitorInv, MonitorTypeOK, MessageSent, SampleFails, MessageFails, MonitorDies, HostMoves,
       Trouble, monitorVars
  <2>2. sinceSent' \in 0 .. ReminderAfter
    BY MonitorAssumption DEF MonitorInv, MonitorTypeOK, MessageSent, SampleFails, MessageFails,
       MonitorDies, HostMoves, monitorVars
  <2>3. told' \in Fingerprints
    BY DEF MonitorInv, MonitorTypeOK, MessageSent, SampleFails, MessageFails, MonitorDies,
       HostMoves, monitorVars
  <2>4. /\ host' \in Conditions /\ UNCHANGED <<stored, current>> /\ interrupted' \in BOOLEAN
        /\ monitorPc' \in {"idle", "sending", "sent", "pending", "unsent"}
    BY DEF MonitorInv, MonitorTypeOK, MessageSent, SampleFails, MessageFails, MonitorDies,
       HostMoves, monitorVars
  <2> QED BY <2>1, <2>2, <2>3, <2>4 DEF MonitorInv, MonitorTypeOK
<1>2. ToldByThen' /\ OperatorKnowsStored'
  BY DEF MonitorInv, MonitorTypeOK, ToldByThen, OperatorKnowsStored, MessageSent, SampleFails,
     MessageFails, MonitorDies, HostMoves, monitorVars
<1> QED BY <1>1, <1>2 DEF MonitorInv

LEMMA MonitorInvariant == MonitorSpec => []MonitorInv
<1>1. MonitorInv /\ [MonitorNext]_monitorVars => MonitorInv'
  BY SampleKeeps, WriteStateKeeps, OtherMonitorStepKeeps DEF MonitorNext, MonitorSteps
<1> QED BY <1>1, MonitorStarts, PTL DEF MonitorSpec

\* The monitor's variables keep their types.
THEOREM MonitorTyped == MonitorSpec => []MonitorTypeOK
<1>1. MonitorInv => MonitorTypeOK
  BY DEF MonitorInv
<1> QED BY <1>1, MonitorInvariant, PTL

\* Between two processes, what is stored is what the operator was told last,
\* unless a message is pending or a process died after sending one: the next
\* comparison of fingerprints never takes a change for old news.
THEOREM OperatorKnows == MonitorSpec => []OperatorKnowsStored
<1>1. MonitorInv => OperatorKnowsStored
  BY DEF MonitorInv
<1> QED BY <1>1, MonitorInvariant, PTL

----------------------------------------------------------------------------
(* The reactive router.                                                    *)

LEMMA RoutesAre ==
  /\ ConfiguredRoutes \in Seq(RouteIds) /\ Len(ConfiguredRoutes) \in Nat
  /\ \A i, j \in 1 .. Len(ConfiguredRoutes) : ConfiguredRoutes[i] = ConfiguredRoutes[j] => i = j
  /\ \A i \in 1 .. Len(ConfiguredRoutes) :
       ConfiguredRoutes[i] \in RouteIds /\ Place(ConfiguredRoutes[i]) = i
  /\ RouteIds = {ConfiguredRoutes[i] : i \in 1 .. Len(ConfiguredRoutes)}
<1>1. ConfiguredRoutes \in Seq(RouteIds)
  BY RouterAssumption DEF ValidOptions
<1>2. DOMAIN ConfiguredRoutes = 1 .. Len(ConfiguredRoutes) /\ Len(ConfiguredRoutes) \in Nat
  BY <1>1
<1>3. \A i, j \in 1 .. Len(ConfiguredRoutes) : ConfiguredRoutes[i] = ConfiguredRoutes[j] => i = j
  BY <1>2, RouterAssumption DEF ValidOptions
<1>4. ASSUME NEW i \in 1 .. Len(ConfiguredRoutes) PROVE Place(ConfiguredRoutes[i]) = i
  BY <1>2, <1>3 DEF Place
<1> QED BY <1>1, <1>2, <1>3, <1>4 DEF RouteIds

\* The filter's function, and that there is one.
Filters(S, m, f) ==
  f = [n \in 0 .. m |->
         IF n = 0 THEN <<>>
         ELSE IF ConfiguredRoutes[n] \in S THEN Append(f[n - 1], ConfiguredRoutes[n])
         ELSE f[n - 1]]

LEMMA FilterBegins == ASSUME NEW S PROVE \E f : Filters(S, 0, f)
<1> DEFINE f == [n \in 0 .. 0 |-> <<>>]
<1>1. f = [n \in 0 .. 0 |->
             IF n = 0 THEN <<>>
             ELSE IF ConfiguredRoutes[n] \in S THEN Append(f[n - 1], ConfiguredRoutes[n])
             ELSE f[n - 1]]
  OBVIOUS
<1> QED BY <1>1 DEF Filters

LEMMA FilterGoesOn ==
  ASSUME NEW S, NEW m \in Nat, NEW f, Filters(S, m, f) PROVE \E g : Filters(S, m + 1, g)
<1> DEFINE last == IF ConfiguredRoutes[m + 1] \in S THEN Append(f[m], ConfiguredRoutes[m + 1]) ELSE f[m]
           g == [n \in 0 .. (m + 1) |-> IF n = m + 1 THEN last ELSE f[n]]
           Value(h, n) == IF n = 0 THEN <<>>
                          ELSE IF ConfiguredRoutes[n] \in S THEN Append(h[n - 1], ConfiguredRoutes[n])
                          ELSE h[n - 1]
<1>1. \A n \in 0 .. m : f[n] = Value(f, n)
  BY DEF Filters
<1>2. ASSUME NEW n \in 0 .. (m + 1) PROVE g[n] = Value(g, n)
  <2>1. CASE n = m + 1
    <3>1. g[n] = last /\ n # 0 /\ n - 1 = m /\ g[m] = f[m]
      BY <2>1
    <3> HIDE DEF g
    <3> QED BY <2>1, <3>1
  <2>2. CASE n \in 0 .. m
    <3>1. g[n] = f[n] /\ (n # 0 => g[n - 1] = f[n - 1])
      BY <2>2
    <3> HIDE DEF g, last
    <3> QED BY <1>1, <2>2, <3>1
  <2> QED BY <2>1, <2>2
<1> HIDE DEF last
<1>3. g = [n \in 0 .. (m + 1) |-> Value(g, n)]
  <2>1. g = [n \in 0 .. (m + 1) |-> g[n]]
    OBVIOUS
  <2> HIDE DEF g
  <2> QED BY <1>2, <2>1
<1> QED BY <1>3 DEF Filters

LEMMA FilterExists == ASSUME NEW S, NEW m \in Nat PROVE \E f : Filters(S, m, f)
<1> DEFINE Bad == {k \in Nat : ~ \E f : Filters(S, k, f)}
<1> SUFFICES ASSUME m \in Bad PROVE FALSE
  OBVIOUS
<1>1. PICK k \in Bad : \A j \in Bad : k <= j
  BY LeastNatural
<1>2. k # 0
  BY FilterBegins
<1>3. k - 1 \in Nat /\ k - 1 \notin Bad
  BY <1>1, <1>2
<1>4. PICK f : Filters(S, k - 1, f)
  BY <1>3
<1>5. \E g : Filters(S, (k - 1) + 1, g)
  BY <1>3, <1>4, FilterGoesOn
<1> QED BY <1>3, <1>5

LEMMA RoutesInIs ==
  ASSUME NEW S
  PROVE  \E f : Filters(S, Len(ConfiguredRoutes), f) /\ RoutesIn(S) = f[Len(ConfiguredRoutes)]
<1>1. \E f : Filters(S, Len(ConfiguredRoutes), f)
  BY RoutesAre, FilterExists
<1> QED BY <1>1 DEF RoutesIn, Filters

\* A sequence of configured routes in their order.
InPlace(s) == \A i, j \in 1 .. Len(s) : i < j => Place(s[i]) < Place(s[j])

\* What the filter has kept of the first m routes.
Sifted(S, m, s) ==
  /\ s \in Seq(RouteIds) /\ InPlace(s)
  /\ \A r : (\E i \in 1 .. Len(s) : s[i] = r)
              <=> r \in S /\ \E k \in 1 .. m : ConfiguredRoutes[k] = r

LEMMA SiftedFurther ==
  ASSUME NEW S, NEW m \in Nat, m + 1 <= Len(ConfiguredRoutes), NEW s, Sifted(S, m, s)
  PROVE  /\ ConfiguredRoutes[m + 1] \in S => Sifted(S, m + 1, Append(s, ConfiguredRoutes[m + 1]))
         /\ ConfiguredRoutes[m + 1] \notin S => Sifted(S, m + 1, s)
<1> DEFINE c == ConfiguredRoutes[m + 1]
           t == Append(s, c)
<1>0. s \in Seq(RouteIds) /\ Len(s) \in Nat /\ InPlace(s)
  BY DEF Sifted
<1>1. c \in RouteIds /\ Place(c) = m + 1 /\ m + 1 \in 1 .. Len(ConfiguredRoutes)
  <2>1. m + 1 \in 1 .. Len(ConfiguredRoutes)
    BY RoutesAre
  <2> QED BY <2>1, RoutesAre
<1>2. \A r : (\E k \in 1 .. (m + 1) : ConfiguredRoutes[k] = r)
               <=> r = c \/ \E k \in 1 .. m : ConfiguredRoutes[k] = r
  <2>1. 1 .. (m + 1) = (1 .. m) \union {m + 1}
    OBVIOUS
  <2> QED BY <2>1
<1>3. ASSUME c \notin S PROVE Sifted(S, m + 1, s)
  BY <1>2, <1>3 DEF Sifted
<1>4. ASSUME c \in S PROVE Sifted(S, m + 1, t)
  <2>1. /\ t \in Seq(RouteIds) /\ Len(t) = Len(s) + 1 /\ t[Len(s) + 1] = c
        /\ \A i \in 1 .. Len(s) : t[i] = s[i]
    BY <1>0, <1>1
  <2>2. 1 .. Len(t) = (1 .. Len(s)) \union {Len(s) + 1}
    BY <1>0, <2>1
  <2> HIDE DEF t, c
  <2>3. ASSUME NEW r
        PROVE (\E i \in 1 .. Len(t) : t[i] = r) <=> r = c \/ \E i \in 1 .. Len(s) : s[i] = r
    BY <2>1, <2>2
  <2>4. ASSUME NEW i \in 1 .. Len(s) PROVE Place(s[i]) < m + 1
    <3>1. PICK k \in 1 .. m : ConfiguredRoutes[k] = s[i]
      BY DEF Sifted
    <3>2. Place(s[i]) = k
      BY <1>1, <3>1, RoutesAre
    <3> QED BY <3>2
  <2>5. ASSUME NEW i \in 1 .. Len(t), NEW j \in 1 .. Len(t), i < j PROVE Place(t[i]) < Place(t[j])
    <3>1. CASE j \in 1 .. Len(s)
      <4>1. i \in 1 .. Len(s)
        BY <1>0, <2>1, <2>5, <3>1
      <4> QED BY <1>0, <2>1, <2>5, <3>1, <4>1 DEF InPlace
    <3>2. CASE j = Len(s) + 1
      <4>1. i \in 1 .. Len(s)
        BY <1>0, <2>1, <2>5, <3>2
      <4> QED BY <1>1, <2>1, <2>4, <3>2, <4>1
    <3> QED BY <2>2, <3>1, <3>2
  <2>6. InPlace(t)
    BY <2>5 DEF InPlace
  <2> QED BY <1>2, <1>4, <2>1, <2>3, <2>6 DEF Sifted
<1> QED BY <1>3, <1>4

LEMMA SiftedSoFar ==
  ASSUME NEW S, NEW f, Filters(S, Len(ConfiguredRoutes), f), NEW m \in 0 .. Len(ConfiguredRoutes)
  PROVE  Sifted(S, m, f[m])
<1> DEFINE L == Len(ConfiguredRoutes)
           Bad == {k \in Nat : k <= L /\ ~Sifted(S, k, f[k])}
<1>0. L \in Nat
  BY RoutesAre
<1> SUFFICES ASSUME m \in Bad PROVE FALSE
  BY <1>0
<1>1. PICK k \in Bad : \A j \in Bad : k <= j
  BY LeastNatural
<1>2. Sifted(S, 0, f[0])
  <2>1. f[0] = <<>>
    BY <1>0 DEF Filters
  <2>2. <<>> \in Seq(RouteIds) /\ Len(<<>>) = 0
    BY EmptySeq
  <2> QED BY <2>1, <2>2 DEF Sifted, InPlace
<1>3. k # 0
  BY <1>2
<1>4. k - 1 \in Nat /\ k - 1 <= L /\ k <= L /\ k \in 0 .. L /\ k - 1 \notin Bad /\ (k - 1) + 1 = k
  BY <1>0, <1>1, <1>3
<1>5. Sifted(S, k - 1, f[k - 1])
  BY <1>4
<1>6. f[k] = IF ConfiguredRoutes[k] \in S THEN Append(f[k - 1], ConfiguredRoutes[k]) ELSE f[k - 1]
  BY <1>3, <1>4 DEF Filters
<1>7. Sifted(S, k, f[k])
  BY <1>4, <1>5, <1>6, SiftedFurther
<1> QED BY <1>7

LEMMA RoutesInSifts == ASSUME NEW S PROVE Sifted(S, Len(ConfiguredRoutes), RoutesIn(S))
BY RoutesInIs, SiftedSoFar, RoutesAre

\* Two routes in the order in which they are tried.
Before(r, s, avoid) ==
  \/ r \notin avoid /\ s \in avoid
  \/ (r \in avoid <=> s \in avoid) /\ Place(r) < Place(s)

Selected(s, avoid) ==
  /\ s \in Seq(RouteIds)
  /\ \A r \in RouteIds : \E i \in 1 .. Len(s) : s[i] = r
  /\ \A i, j \in 1 .. Len(s) : i < j => Before(s[i], s[j], avoid)

\* Every configured route is selected, in the order of the preference.
LEMMA SelectionKeepsRoutes ==
  ASSUME NEW avoid \in SUBSET RouteIds PROVE Selected(SelectRoutes(avoid), avoid)
<1> DEFINE a == RoutesIn(RouteIds \ avoid)
           b == RoutesIn(avoid)
           s == SelectRoutes(avoid)
           L == Len(ConfiguredRoutes)
<1>1. Sifted(RouteIds \ avoid, L, a) /\ Sifted(avoid, L, b)
  BY RoutesInSifts
<1>2. s = a \o b
  BY DEF SelectRoutes
<1> HIDE DEF a, b, s
<1>3. a \in Seq(RouteIds) /\ b \in Seq(RouteIds) /\ Len(a) \in Nat /\ Len(b) \in Nat
  BY <1>1 DEF Sifted
<1>4. /\ s \in Seq(RouteIds) /\ Len(s) = Len(a) + Len(b)
      /\ \A i \in 1 .. Len(a) : s[i] = a[i]
      /\ \A i \in 1 .. Len(b) : s[Len(a) + i] = b[i]
  BY <1>2, <1>3
<1>5. ASSUME NEW r \in RouteIds PROVE \E i \in 1 .. Len(s) : s[i] = r
  <2>1. \E k \in 1 .. L : ConfiguredRoutes[k] = r
    BY RoutesAre
  <2>2. CASE r \in avoid
    <3>1. PICK i \in 1 .. Len(b) : b[i] = r
      BY <1>1, <2>1, <2>2 DEF Sifted
    <3>2. Len(a) + i \in 1 .. Len(s)
      BY <1>3, <1>4
    <3> QED BY <1>4, <3>1, <3>2
  <2>3. CASE r \notin avoid
    <3>1. PICK i \in 1 .. Len(a) : a[i] = r
      BY <1>1, <2>1, <2>3 DEF Sifted
    <3>2. i \in 1 .. Len(s)
      BY <1>3, <1>4
    <3> QED BY <1>4, <3>1, <3>2
  <2> QED BY <2>2, <2>3
<1>6. /\ \A i \in 1 .. Len(a) : s[i] \notin avoid
      /\ \A i \in 1 .. Len(b) : s[Len(a) + i] \in avoid
  BY <1>1, <1>4 DEF Sifted
<1>7. ASSUME NEW i \in 1 .. Len(s), NEW j \in 1 .. Len(s), i < j PROVE Before(s[i], s[j], avoid)
  <2>1. CASE j <= Len(a)
    <3>1. i \in 1 .. Len(a) /\ j \in 1 .. Len(a)
      BY <1>3, <1>4, <1>7, <2>1
    <3>2. Place(a[i]) < Place(a[j])
      BY <1>1, <1>7, <3>1 DEF Sifted, InPlace
    <3> QED BY <1>4, <1>6, <3>1, <3>2 DEF Before
  <2>2. CASE i > Len(a)
    <3>1. PICK p \in 1 .. Len(b), q \in 1 .. Len(b) : i = Len(a) + p /\ j = Len(a) + q /\ p < q
      <4>1. i - Len(a) \in 1 .. Len(b) /\ j - Len(a) \in 1 .. Len(b) /\ i - Len(a) < j - Len(a)
            /\ i = Len(a) + (i - Len(a)) /\ j = Len(a) + (j - Len(a))
        BY <1>3, <1>4, <1>7, <2>2
      <4> QED BY <4>1
    <3>2. Place(b[p]) < Place(b[q])
      BY <1>1, <3>1 DEF Sifted, InPlace
    <3>3. s[i] = b[p] /\ s[j] = b[q] /\ s[i] \in avoid /\ s[j] \in avoid
      BY <1>4, <1>6, <3>1
    <3> QED BY <3>2, <3>3 DEF Before
  <2>3. CASE i <= Len(a) /\ j > Len(a)
    <3>1. i \in 1 .. Len(a) /\ j - Len(a) \in 1 .. Len(b) /\ j = Len(a) + (j - Len(a))
      BY <1>3, <1>4, <2>3
    <3>2. s[i] \notin avoid /\ s[j] \in avoid
      BY <1>6, <3>1
    <3> QED BY <3>2 DEF Before
  <2>4. j <= Len(a) \/ i > Len(a) \/ (i <= Len(a) /\ j > Len(a))
    BY <1>3
  <2> QED BY <2>1, <2>2, <2>3, <2>4
<1> QED BY <1>4, <1>5, <1>7 DEF Selected, s

\* So no route comes twice.
LEMMA SelectedOnce ==
  ASSUME NEW avoid \in SUBSET RouteIds, NEW s, Selected(s, avoid)
  PROVE  \A i, j \in 1 .. Len(s) : s[i] = s[j] => i = j
<1> SUFFICES ASSUME NEW i \in 1 .. Len(s), NEW j \in 1 .. Len(s), s[i] = s[j], i < j PROVE FALSE
  BY DEF Selected
<1>1. Before(s[i], s[j], avoid)
  BY DEF Selected
<1>2. s[i] \in RouteIds
  BY DEF Selected
<1>3. PICK k \in 1 .. Len(ConfiguredRoutes) : s[i] = ConfiguredRoutes[k]
  BY <1>2, RoutesAre
<1>4. Place(s[i]) = k
  BY <1>3, RoutesAre
<1> QED BY <1>1, <1>4 DEF Before

----------------------------------------------------------------------------
\* The machine.

Busy == {"submit", "submitting", "announce", "observe", "observing"}
RouterPcs == Busy \union {"idle", "informed", "loop", "fallback", "conclude", "done", "returned"}

RouteClock ==
  /\ elapsed \in Nat /\ alarm \in Nat /\ Deadline \in Nat
  /\ elapsed <= Deadline /\ alarm <= Deadline

OrderStory == routerPc # "idle" => Selected(order, avoided)

\* Where the call stands in the order, and what it has done by then.
CallStory ==
  /\ routerPc \in RouterPcs
  /\ routerPc = "idle" => calls = <<>> /\ attempts = <<>> /\ index = 1
  /\ routerPc \in {"idle", "informed", "loop"} \union Busy =>
       Len(attempts) = index - 1 /\ finalState = "NONE"
  /\ routerPc \in Busy => index <= Len(order) /\ order[index] \in visited
  /\ routerPc = "submit" => \A i \in 1 .. Len(calls) : calls[i] # order[index]
  /\ routerPc = "fallback" => Len(attempts) = index /\ index <= Len(order) /\ finalState = "NONE"
  /\ routerPc = "conclude" => finalState \in Conclusive
  /\ routerPc \in {"done", "returned"} =>
       /\ finalState # "NONE"
       /\ finalState = "OBSERVATION_INCONCLUSIVE" /\ elapsed < Deadline => Len(attempts) = Len(order)
  /\ Len(attempts) <= Len(order)
  /\ \A i \in 1 .. Len(attempts) : attempts[i].route = order[i]
  /\ \A i \in 1 .. Len(calls) : calls[i] \in visited

RouterInv == RouterTypeOK /\ RouteClock /\ OrderStory /\ CallStory /\ ConclusionIsTrue

LEMMA PolicyIs ==
  /\ {RouteTimeout, ObservationTimeout, HookTimeout, Deadline} \subseteq Nat \ {0}
  /\ IsFiniteSet(Readers) /\ LyingReaders \subseteq Readers /\ Stranger \notin Readers
BY RouterAssumption DEF ValidOptions

\* A timer never fires after the deadline.
LEMMA BoundedByDeadline ==
  ASSUME RouteClock, NEW timeout \in Nat
  PROVE  elapsed + Bounded(timeout) \in Nat /\ elapsed + Bounded(timeout) <= Deadline
BY DEF RouteClock, Bounded, Remaining

LEMMA RouterClockStep ==
  ASSUME RouteClock, [RouterNext]_routerVars PROVE RouteClock'
<1>0. Deadline \in Nat /\ HookTimeout \in Nat /\ RouteTimeout \in Nat /\ ObservationTimeout \in Nat
  BY PolicyIs
<1>1. CASE alarm' = alarm /\ elapsed' = elapsed
  BY <1>1 DEF RouteClock
<1>2. ASSUME NEW timeout \in Nat, alarm' = elapsed + Bounded(timeout), elapsed' = elapsed
      PROVE  RouteClock'
  BY <1>2, BoundedByDeadline DEF RouteClock
<1>3. CASE RouterTick
  BY <1>3 DEF RouterTick, RouteClock
<1>4. ASSUME RouterRuns \/ LedgerMoves \/ HookSettles \/ SubmissionRejected
               \/ SubmissionAcknowledged \/ ObservationAnswers \/ ObservationTimesOut
      PROVE  \/ alarm' = alarm /\ elapsed' = elapsed
             \/ alarm' = elapsed + Bounded(HookTimeout) /\ elapsed' = elapsed
             \/ alarm' = elapsed + Bounded(RouteTimeout) /\ elapsed' = elapsed
             \/ alarm' = elapsed + Bounded(ObservationTimeout) /\ elapsed' = elapsed
  BY <1>4 DEF RouterRuns, LedgerMoves, HookSettles, SubmissionRejected, SubmissionAcknowledged,
     ObservationAnswers, ObservationTimesOut, RouteCalled, OrderReported, AttemptStarts,
     RoutingEnds, Submit, Observe, ConclusionReported, FallBack, RouteReturns, SubmissionTimesOut,
     AttemptEnds, Emit
<1>5. CASE UNCHANGED routerVars
  BY <1>1, <1>5 DEF routerVars
<1> QED BY <1>0, <1>1, <1>2, <1>3, <1>4, <1>5 DEF RouterNext

\* What a conclusion says of the ledger.
Says(state, l) ==
  /\ state \in {"CONFIRMED", "FINALIZED"} => l = "landed"
  /\ state = "OBSERVED_EXECUTION_FAILED" => l = "failed"
  /\ state = "EXPIRED" => l = "expired"

LEMMA ConclusionSays ==
  ASSUME NEW s \in Conclusive PROVE TrueOfLedger(s) <=> Says(s, ledger)
<1>1. ASSUME s \in {"CONFIRMED", "FINALIZED"} PROVE TrueOfLedger(s) = (ledger = "landed")
  BY <1>1, Zenon DEF TrueOfLedger
<1>2. ASSUME s = "OBSERVED_EXECUTION_FAILED" PROVE TrueOfLedger(s) = (ledger = "failed")
  BY <1>2, Zenon DEF TrueOfLedger
<1>3. ASSUME s = "EXPIRED" PROVE TrueOfLedger(s) = (ledger = "expired")
  BY <1>3, Zenon DEF TrueOfLedger
<1> QED BY <1>1, <1>2, <1>3 DEF Says, Conclusive

LEMMA ConclusionSaysNext ==
  ASSUME finalState' \in Conclusive PROVE TrueOfLedger(finalState)' <=> Says(finalState', ledger')
<1>1. ASSUME finalState' \in {"CONFIRMED", "FINALIZED"}
      PROVE TrueOfLedger(finalState)' = (ledger' = "landed")
  BY <1>1, Zenon DEF TrueOfLedger
<1>2. ASSUME finalState' = "OBSERVED_EXECUTION_FAILED"
      PROVE TrueOfLedger(finalState)' = (ledger' = "failed")
  BY <1>2, Zenon DEF TrueOfLedger
<1>3. ASSUME finalState' = "EXPIRED" PROVE TrueOfLedger(finalState)' = (ledger' = "expired")
  BY <1>3, Zenon DEF TrueOfLedger
<1> QED BY <1>1, <1>2, <1>3 DEF Says, Conclusive

\* Two distinct readers are not both the one that lies.
LEMMA QuorumTellsTruth ==
  ASSUME Cardinality(LyingReaders) < RequiredQuorum, NEW o \in Observations,
         ValidObservation(o.supporters)
  PROVE  TrueOfLedger(o.state)
<1> DEFINE distinct == {o.supporters[i] : i \in DOMAIN o.supporters}
<1>1. Cardinality(distinct) >= RequiredQuorum /\ distinct \subseteq Readers
  BY DEF ValidObservation
<1> SUFFICES ASSUME \A i \in DOMAIN o.supporters : o.supporters[i] \in LyingReaders \union {Stranger}
             PROVE  FALSE
  BY DEF Observations
<1>2. distinct \subseteq LyingReaders
  BY <1>1, PolicyIs
<1> HIDE DEF distinct
<1>3. IsFiniteSet(LyingReaders)
  BY PolicyIs, FS_Subset
<1>4. Cardinality(distinct) <= Cardinality(LyingReaders) /\ Cardinality(distinct) \in Nat
        /\ Cardinality(LyingReaders) \in Nat
  BY <1>2, <1>3, FS_Subset, FS_CardinalityType
<1> QED BY <1>1, <1>4 DEF RequiredQuorum

LEMMA TruthStep ==
  ASSUME RouterInv, [RouterNext]_routerVars PROVE ConclusionIsTrue'
<1> SUFFICES ASSUME Cardinality(LyingReaders) < RequiredQuorum, finalState' \in Conclusive
             PROVE  Says(finalState', ledger')
  BY ConclusionSaysNext DEF ConclusionIsTrue
<1>1. CASE finalState' = finalState /\ ledger' = ledger
  <2>1. TrueOfLedger(finalState)
    BY <1>1 DEF RouterInv, ConclusionIsTrue
  <2> QED BY <1>1, <2>1, ConclusionSays
<1>2. CASE LedgerMoves
  <2>1. ledger = "unseen" /\ finalState' = finalState
    BY <1>2 DEF LedgerMoves
  <2>2. TrueOfLedger(finalState)
    BY <2>1 DEF RouterInv, ConclusionIsTrue
  <2>3. Says(finalState, ledger)
    BY <2>1, <2>2, ConclusionSays
  <2> QED BY <2>1, <2>3 DEF Says, Conclusive
<1>3. CASE ObservationAnswers
  <2>1. PICK o \in Observations :
          IF ValidObservation(o.supporters) /\ o.state \in Conclusive
          THEN finalState' = o.state
          ELSE finalState' = finalState
    BY <1>3 DEF ObservationAnswers
  <2>2. ledger' = ledger
    BY <1>3 DEF ObservationAnswers, AttemptEnds
  <2>3. CASE ValidObservation(o.supporters) /\ o.state \in Conclusive
    <3>1. TrueOfLedger(o.state) /\ finalState' = o.state
      BY <2>1, <2>3, QuorumTellsTruth
    <3> QED BY <2>2, <2>3, <3>1, ConclusionSays
  <2>4. CASE ~(ValidObservation(o.supporters) /\ o.state \in Conclusive)
    BY <1>1, <2>1, <2>2, <2>4
  <2> QED BY <2>3, <2>4
<1>4. CASE RoutingEnds
  BY <1>4 DEF RoutingEnds, Conclusive
<1>5. CASE UNCHANGED routerVars
  BY <1>1, <1>5 DEF routerVars
<1>6. CASE RouterTick \/ HookSettles \/ SubmissionRejected \/ SubmissionAcknowledged
             \/ ObservationTimesOut \/ RouteCalled \/ OrderReported \/ AttemptStarts \/ Submit
             \/ Observe \/ ConclusionReported \/ FallBack \/ RouteReturns \/ SubmissionTimesOut
  <2>1. finalState' = finalState /\ ledger' = ledger
    BY <1>6 DEF RouterTick, HookSettles, SubmissionRejected, SubmissionAcknowledged,
       ObservationTimesOut, RouteCalled, OrderReported, AttemptStarts, Submit, Observe,
       ConclusionReported, FallBack, RouteReturns, SubmissionTimesOut, AttemptEnds
  <2> QED BY <1>1, <2>1
<1> QED BY <1>2, <1>3, <1>4, <1>5, <1>6 DEF RouterNext, RouterRuns

\* An attempt traced.
LEMMA TraceTyped ==
  ASSUME RouterInv, routerPc \in Busy, NEW submission, NEW observation, NEW next,
         AttemptEnds(submission, observation, next),
         submission \in {"RPC_ACKNOWLEDGED", "RPC_REJECTED", "TIMED_OUT"},
         observation \in Conclusive \union {"NONE", "TIMED_OUT", "OBSERVATION_INCONCLUSIVE"}
  PROVE  /\ attempts' \in Seq([route : RouteIds,
                              submission : {"RPC_ACKNOWLEDGED", "RPC_REJECTED", "TIMED_OUT"},
                              observation : Conclusive \union
                                {"NONE", "TIMED_OUT", "OBSERVATION_INCONCLUSIVE"}])
         /\ Len(attempts') = index /\ Len(attempts') <= Len(order)
         /\ \A i \in 1 .. Len(attempts') : attempts'[i].route = order[i]
<1> DEFINE trace == [route |-> order[index], submission |-> submission, observation |-> observation]
           Traces == [route : RouteIds,
                      submission : {"RPC_ACKNOWLEDGED", "RPC_REJECTED", "TIMED_OUT"},
                      observation : Conclusive \union
                        {"NONE", "TIMED_OUT", "OBSERVATION_INCONCLUSIVE"}]
<1>1. /\ attempts \in Seq(Traces) /\ Len(attempts) = index - 1 /\ index \in Nat \ {0}
      /\ index <= Len(order) /\ order \in Seq(RouteIds) /\ Len(order) \in Nat
  BY DEF RouterInv, RouterTypeOK, CallStory
<1>2. order[index] \in RouteIds
  BY <1>1
<1>3. trace \in Traces
  BY <1>2
<1>4. attempts' = Append(attempts, trace)
  BY DEF AttemptEnds
<1>5. trace.route = order[index]
  OBVIOUS
<1> HIDE DEF trace, Traces
<1>6. /\ attempts' \in Seq(Traces) /\ Len(attempts') = index /\ attempts'[index] = trace
      /\ \A i \in 1 .. Len(attempts) : attempts'[i] = attempts[i]
  BY <1>1, <1>3, <1>4
<1>7. ASSUME NEW i \in 1 .. Len(attempts') PROVE attempts'[i].route = order[i]
  <2>1. i = index \/ i \in 1 .. Len(attempts)
    BY <1>1, <1>6
  <2> QED BY <1>5, <1>6, <2>1 DEF RouterInv, CallStory
<1> QED BY <1>1, <1>6, <1>7 DEF Traces

\* The conjuncts of RouterTypeOK that name a set with a step of its own.
Traces == [route : RouteIds, submission : {"RPC_ACKNOWLEDGED", "RPC_REJECTED", "TIMED_OUT"},
           observation : Conclusive \union {"NONE", "TIMED_OUT", "OBSERVATION_INCONCLUSIVE"}]

LEMMA CallBegins ==
  ASSUME RouterInv, RouteCalled PROVE RouterTypeOK' /\ OrderStory' /\ CallStory'
<1>1. /\ routerPc = "idle" /\ routerPc' \in {"loop", "informed"} /\ hooking' = TRUE
      /\ avoided' \in SUBSET RouteIds /\ order' = SelectRoutes(avoided')
      /\ UNCHANGED <<elapsed, index, visited, calls, attempts, finalState, ledger>>
  BY DEF RouteCalled, Emit
<1>2. Selected(order', avoided')
  BY <1>1, SelectionKeepsRoutes
<1>3. order' \in Seq(RouteIds) /\ Len(order') \in Nat
  BY <1>2 DEF Selected
<1>4. alarm' \in Nat
  <2>1. RouteClock'
    BY RouterClockStep DEF RouterInv, RouterNext, RouterRuns
  <2> QED BY <2>1 DEF RouteClock
<1>5. RouterTypeOK'
  BY <1>1, <1>3, <1>4 DEF RouterInv, RouterTypeOK
<1>6. attempts' = <<>> /\ calls' = <<>> /\ index' = 1 /\ finalState' = "NONE"
  BY <1>1 DEF RouterInv, CallStory
<1>7. CallStory'
  BY <1>1, <1>3, <1>6 DEF CallStory, RouterPcs, Busy
<1> QED BY <1>2, <1>5, <1>7 DEF OrderStory

LEMMA AttemptBegins ==
  ASSUME RouterInv, AttemptStarts, alarm' \in Nat
  PROVE  RouterTypeOK' /\ OrderStory' /\ CallStory'
<1>1. /\ routerPc = "loop" /\ routerPc' = "submit" /\ hooking' = TRUE
      /\ index <= Len(order) /\ order[index] \notin visited
      /\ visited' = visited \union {order[index]}
      /\ UNCHANGED <<elapsed, avoided, order, index, calls, attempts, finalState, ledger>>
  BY DEF AttemptStarts, Emit, At
<1>2. order \in Seq(RouteIds) /\ Len(order) \in Nat /\ index \in Nat \ {0}
  BY DEF RouterInv, RouterTypeOK
<1>3. order[index] \in RouteIds
  BY <1>1, <1>2
<1>4. RouterTypeOK'
  BY <1>1, <1>3 DEF RouterInv, RouterTypeOK
<1>5. CallStory'
  BY <1>1 DEF RouterInv, CallStory, RouterPcs, Busy
<1> QED BY <1>1, <1>4, <1>5 DEF RouterInv, OrderStory

LEMMA RoutingGivesUp ==
  ASSUME RouterInv, RoutingEnds, alarm' \in Nat
  PROVE  RouterTypeOK' /\ OrderStory' /\ CallStory'
<1>1. /\ routerPc = "loop" /\ routerPc' = "done" /\ hooking' = TRUE
      /\ index > Len(order) \/ Remaining = 0
      /\ finalState' = "OBSERVATION_INCONCLUSIVE"
      /\ UNCHANGED <<elapsed, avoided, order, index, visited, calls, attempts, ledger>>
  BY DEF RoutingEnds, Emit, At
<1>2. /\ order \in Seq(RouteIds) /\ Len(order) \in Nat /\ index \in Nat \ {0}
      /\ attempts \in Seq(Traces) /\ Len(attempts) \in Nat
      /\ Len(attempts) = index - 1 /\ Len(attempts) <= Len(order)
  BY <1>1 DEF RouterInv, RouterTypeOK, CallStory, Traces
<1>3. elapsed < Deadline => Len(attempts) = Len(order)
  BY <1>1, <1>2 DEF Remaining, RouterInv, RouteClock
<1>4. RouterTypeOK'
  BY <1>1 DEF RouterInv, RouterTypeOK
<1>5. CallStory'
  BY <1>1, <1>3 DEF RouterInv, CallStory, RouterPcs, Busy
<1> QED BY <1>1, <1>4, <1>5 DEF RouterInv, OrderStory

LEMMA SubmissionBegins ==
  ASSUME RouterInv, Submit, alarm' \in Nat
  PROVE  RouterTypeOK' /\ OrderStory' /\ CallStory'
<1>1. /\ routerPc = "submit" /\ routerPc' = "submitting"
      /\ calls' = Append(calls, order[index])
      /\ UNCHANGED <<hooking, elapsed, avoided, order, index, visited, attempts, finalState, ledger>>
  BY DEF Submit, At
<1>2. /\ order \in Seq(RouteIds) /\ Len(order) \in Nat /\ index \in Nat \ {0} /\ index <= Len(order)
      /\ calls \in Seq(RouteIds) /\ order[index] \in visited
  BY <1>1 DEF RouterInv, RouterTypeOK, CallStory, Busy
<1>3. order[index] \in RouteIds
  BY <1>2
<1>4. /\ calls' \in Seq(RouteIds) /\ Len(calls') = Len(calls) + 1 /\ Len(calls) \in Nat
      /\ calls'[Len(calls) + 1] = order[index]
      /\ \A i \in 1 .. Len(calls) : calls'[i] = calls[i]
  BY <1>1, <1>2, <1>3
<1>5. ASSUME NEW i \in 1 .. Len(calls') PROVE calls'[i] \in visited
  <2>1. i = Len(calls) + 1 \/ i \in 1 .. Len(calls)
    BY <1>4
  <2> QED BY <1>2, <1>4, <2>1 DEF RouterInv, CallStory
<1>6. RouterTypeOK'
  BY <1>1, <1>4 DEF RouterInv, RouterTypeOK
<1>7. CallStory'
  BY <1>1, <1>5 DEF RouterInv, CallStory, RouterPcs, Busy
<1> QED BY <1>1, <1>6, <1>7 DEF RouterInv, OrderStory

\* The ends of an attempt: on to the next route, or to the conclusion.
LEMMA AttemptEnded ==
  ASSUME RouterInv, routerPc \in Busy, alarm' \in Nat, NEW submission, NEW observation, NEW next,
         AttemptEnds(submission, observation, next),
         submission \in {"RPC_ACKNOWLEDGED", "RPC_REJECTED", "TIMED_OUT"},
         observation \in Conclusive \union {"NONE", "TIMED_OUT", "OBSERVATION_INCONCLUSIVE"},
         \/ next = "fallback" /\ finalState' = finalState
         \/ next = "conclude" /\ finalState' \in Conclusive
  PROVE  RouterTypeOK' /\ OrderStory' /\ CallStory'
<1>1. /\ routerPc' = next /\ hooking' = TRUE
      /\ UNCHANGED <<elapsed, avoided, order, index, visited, calls, ledger>>
  BY DEF AttemptEnds, Emit
<1>2. /\ attempts' \in Seq(Traces)
      /\ Len(attempts') = index /\ Len(attempts') <= Len(order)
      /\ \A i \in 1 .. Len(attempts') : attempts'[i].route = order[i]
  BY TraceTyped DEF Traces
<1>3. finalState = "NONE" /\ index <= Len(order)
  BY DEF RouterInv, CallStory
<1>4. RouterTypeOK'
  BY <1>1, <1>2 DEF RouterInv, RouterTypeOK, Traces
<1>5. CallStory'
  BY <1>1, <1>2, <1>3 DEF RouterInv, CallStory, RouterPcs, Busy
<1> QED BY <1>1, <1>4, <1>5 DEF RouterInv, OrderStory, Busy

LEMMA AttemptEndsKeep ==
  ASSUME RouterInv, alarm' \in Nat,
         SubmissionTimesOut \/ SubmissionRejected \/ ObservationTimesOut \/ ObservationAnswers
  PROVE  RouterTypeOK' /\ OrderStory' /\ CallStory'
<1>1. routerPc \in Busy
  BY DEF SubmissionTimesOut, SubmissionRejected, ObservationTimesOut, ObservationAnswers, At, Busy
<1>2. CASE SubmissionTimesOut
  BY <1>1, <1>2, AttemptEnded DEF SubmissionTimesOut
<1>3. CASE SubmissionRejected
  BY <1>1, <1>3, AttemptEnded DEF SubmissionRejected
<1>4. CASE ObservationTimesOut
  BY <1>1, <1>4, AttemptEnded DEF ObservationTimesOut
<1>5. CASE ObservationAnswers
  <2>1. PICK o \in Observations :
          IF ValidObservation(o.supporters) /\ o.state \in Conclusive
          THEN AttemptEnds("RPC_ACKNOWLEDGED", o.state, "conclude") /\ finalState' = o.state
          ELSE /\ AttemptEnds("RPC_ACKNOWLEDGED", "OBSERVATION_INCONCLUSIVE", "fallback")
               /\ UNCHANGED finalState
    BY <1>5 DEF ObservationAnswers
  <2> QED BY <1>1, <2>1, AttemptEnded
<1> QED BY <1>2, <1>3, <1>4, <1>5

\* The other continuations of the call.
LEMMA CallGoesOn ==
  ASSUME RouterInv, alarm' \in Nat,
         OrderReported \/ SubmissionAcknowledged \/ Observe \/ ConclusionReported \/ FallBack \/ RouteReturns
  PROVE  RouterTypeOK' /\ OrderStory' /\ CallStory'
<1>1. /\ UNCHANGED <<elapsed, avoided, order, visited, calls, attempts, finalState, ledger>>
      /\ hooking' = TRUE \/ hooking' = hooking
      /\ \/ routerPc = "informed" /\ routerPc' = "loop" /\ index' = index
         \/ routerPc \in {"submitting", "announce"} /\ routerPc' \in {"announce", "observe"} /\ index' = index
         \/ routerPc = "observe" /\ routerPc' = "observing" /\ index' = index
         \/ routerPc = "conclude" /\ routerPc' = "done" /\ index' = index
         \/ routerPc = "fallback" /\ routerPc' = "loop" /\ index' = index + 1
         \/ routerPc = "done" /\ routerPc' = "returned" /\ index' = index
  BY DEF OrderReported, SubmissionAcknowledged, Observe, ConclusionReported, FallBack, RouteReturns,
     At, Emit
<1>2. index \in Nat \ {0} /\ attempts \in Seq(Traces) /\ Len(attempts) \in Nat
  BY DEF RouterInv, RouterTypeOK, Traces
<1>3. RouterTypeOK'
  <2>1. index' \in Nat \ {0}
    BY <1>1, <1>2
  <2>2. hooking' \in BOOLEAN
    BY <1>1 DEF RouterInv, RouterTypeOK
  <2> QED BY <1>1, <2>1, <2>2 DEF RouterInv, RouterTypeOK
<1>4. CallStory'
  BY <1>1, <1>2 DEF RouterInv, CallStory, RouterPcs, Busy, Conclusive
<1> QED BY <1>1, <1>3, <1>4 DEF RouterInv, OrderStory

\* Timers, hooks and the ledger.
LEMMA RouterWaits ==
  ASSUME RouterInv, alarm' \in Nat,
         RouterTick \/ HookSettles \/ LedgerMoves \/ UNCHANGED routerVars
  PROVE  RouterTypeOK' /\ OrderStory' /\ CallStory'
<1>1. /\ UNCHANGED <<routerPc, avoided, order, index, visited, calls, attempts, finalState>>
      /\ elapsed' = elapsed \/ elapsed' = elapsed + 1
      /\ hooking' = FALSE \/ hooking' = hooking
      /\ ledger' = ledger \/ ledger' \in {"landed", "failed", "expired"}
  BY DEF RouterTick, HookSettles, LedgerMoves, routerVars
<1>2. elapsed \in Nat /\ Deadline \in Nat
  BY DEF RouterInv, RouteClock
<1>3. RouterTypeOK'
  <2>1. elapsed' \in Nat
    BY <1>1, <1>2
  <2>2. hooking' \in BOOLEAN
    BY <1>1 DEF RouterInv, RouterTypeOK
  <2>3. ledger' \in {"unseen", "landed", "failed", "expired"}
    BY <1>1 DEF RouterInv, RouterTypeOK
  <2> QED BY <1>1, <2>1, <2>2, <2>3 DEF RouterInv, RouterTypeOK
<1>4. CallStory'
  <2>1. elapsed' < Deadline => elapsed < Deadline
    BY <1>1, <1>2
  <2> QED BY <1>1, <2>1 DEF RouterInv, CallStory
<1> QED BY <1>1, <1>3, <1>4 DEF RouterInv, OrderStory

LEMMA RouterStep == RouterInv /\ [RouterNext]_routerVars => RouterInv'
<1> SUFFICES ASSUME RouterInv, [RouterNext]_routerVars PROVE RouterInv'
  OBVIOUS
<1>1. RouteClock' /\ ConclusionIsTrue'
  BY RouterClockStep, TruthStep DEF RouterInv
<1>2. alarm' \in Nat
  BY <1>1 DEF RouteClock
<1>3. RouterTypeOK' /\ OrderStory' /\ CallStory'
  BY <1>2, CallBegins, AttemptBegins, RoutingGivesUp, SubmissionBegins, AttemptEndsKeep, CallGoesOn,
     RouterWaits DEF RouterNext, RouterRuns
<1> QED BY <1>1, <1>3 DEF RouterInv

LEMMA RouterStarts == RouterInit => RouterInv
<1> SUFFICES ASSUME RouterInit PROVE RouterInv
  OBVIOUS
<1>1. order \in Seq(RouteIds) /\ calls \in Seq(RouteIds) /\ attempts \in Seq(Traces)
      /\ Len(attempts) = 0 /\ Len(calls) = 0 /\ Len(order) = 0
  BY EmptySeq DEF RouterInit
<1>2. RouterTypeOK
  <2>1. elapsed \in Nat /\ alarm \in Nat /\ index \in Nat \ {0}
    BY DEF RouterInit
  <2>2. avoided = {} /\ visited = {} /\ finalState = "NONE" /\ ledger = "unseen"
    BY DEF RouterInit
  <2>3. hooking \in BOOLEAN
    BY DEF RouterInit
  <2> QED BY <1>1, <2>1, <2>2, <2>3 DEF RouterTypeOK, Traces
<1>3. RouteClock
  BY PolicyIs DEF RouterInit, RouteClock
<1>4. OrderStory /\ ConclusionIsTrue
  BY DEF RouterInit, OrderStory, ConclusionIsTrue, Conclusive
<1>5. CallStory
  BY <1>1 DEF RouterInit, CallStory, RouterPcs, Busy
<1> QED BY <1>2, <1>3, <1>4, <1>5 DEF RouterInv

\* Where a call stands in its order of routes, and what it has done by then.
THEOREM RouterInvariant == RouterSpec => []RouterInv
BY RouterStarts, RouterStep, PTL DEF RouterSpec

\* A call that gives up with time left has tried every route.
LEMMA InvKeepsFallbacks == RouterInv => FallbacksSurvive
<1> SUFFICES ASSUME RouterInv, routerPc = "returned", finalState = "OBSERVATION_INCONCLUSIVE",
                    elapsed < Deadline
             PROVE  /\ {attempts[i].route : i \in DOMAIN attempts} = RouteIds
                    /\ \A i, j \in DOMAIN attempts : i < j =>
                         Before(attempts[i].route, attempts[j].route, avoided)
  BY DEF FallbacksSurvive, Before
<1>1. /\ Selected(order, avoided) /\ Len(attempts) = Len(order)
      /\ \A i \in 1 .. Len(attempts) : attempts[i].route = order[i]
  BY DEF RouterInv, OrderStory, CallStory
<1>2. DOMAIN attempts = 1 .. Len(attempts) /\ order \in Seq(RouteIds)
  BY DEF RouterInv, RouterTypeOK
<1>3. {attempts[i].route : i \in DOMAIN attempts} = {order[i] : i \in 1 .. Len(order)}
  BY <1>1, <1>2
<1>4. {order[i] : i \in 1 .. Len(order)} = RouteIds
  BY <1>1, <1>2 DEF Selected
<1> QED BY <1>1, <1>2, <1>3, <1>4 DEF Selected

\* The variables of a call of route() keep their types.
THEOREM RouterTyped == RouterSpec => []RouterTypeOK
<1>1. RouterInv => RouterTypeOK
  BY DEF RouterInv
<1> QED BY <1>1, RouterInvariant, PTL

\* With at most one lying reader a conclusion is what the ledger did; the call
\* is over by its deadline; a call that gives up early has tried every route
\* in the selected order; and a route gets the transaction at most once, in
\* time and never after the conclusion.
THEOREM RouterSound == RouterSpec => RouterIsSound
<1>1. RouterInv => ConclusionIsTrue /\ DeadlineKept /\ FallbacksSurvive
  BY InvKeepsFallbacks DEF RouterInv, RouteClock, DeadlineKept
<1>2. RouterInv /\ [RouterNext]_routerVars =>
        [calls' # calls =>
           /\ elapsed < Deadline
           /\ finalState = "NONE"
           /\ calls'[Len(calls')] \notin {calls[i] : i \in DOMAIN calls}]_routerVars
  <2> SUFFICES ASSUME RouterInv, RouterNext, calls' # calls
               PROVE  /\ elapsed < Deadline
                      /\ finalState = "NONE"
                      /\ calls'[Len(calls')] \notin {calls[i] : i \in DOMAIN calls}
    BY DEF routerVars
  <2>1. Submit
    BY DEF RouterNext, RouterRuns, RouterTick, LedgerMoves, HookSettles, SubmissionRejected,
       SubmissionAcknowledged, ObservationAnswers, ObservationTimesOut, RouteCalled, OrderReported,
       AttemptStarts, RoutingEnds, Observe, ConclusionReported, FallBack, RouteReturns,
       SubmissionTimesOut, AttemptEnds
  <2>2. routerPc = "submit" /\ Remaining > 0 /\ calls' = Append(calls, order[index])
    BY <2>1 DEF Submit, At
  <2>3. elapsed < Deadline
    BY <2>2 DEF Remaining, RouterInv, RouteClock
  <2>4. finalState = "NONE" /\ index <= Len(order) /\ \A i \in 1 .. Len(calls) : calls[i] # order[index]
    BY <2>2 DEF RouterInv, CallStory, Busy
  <2>5. calls \in Seq(RouteIds) /\ DOMAIN calls = 1 .. Len(calls) /\ order[index] \in RouteIds
    BY <2>4 DEF RouterInv, RouterTypeOK
  <2>6. calls'[Len(calls')] = order[index]
    <3> DEFINE r == order[index]
    <3> HIDE DEF r
    <3>1. calls' = Append(calls, r) /\ r \in RouteIds /\ calls \in Seq(RouteIds)
      BY <2>2, <2>5 DEF r
    <3>2. Len(calls') = Len(calls) + 1 /\ calls'[Len(calls) + 1] = r
      BY <3>1
    <3> QED BY <3>2 DEF r
  <2> QED BY <2>3, <2>4, <2>5, <2>6
<1> QED BY <1>1, <1>2, RouterInvariant, PTL DEF RouterSpec, RouterIsSound, SubmissionDiscipline
----------------------------------------------------------------------------
(* The parts together.                                                     *)

\* A step of the parts is a step of each component, or leaves it as it is.
LEMMA PartsStep ==
  ASSUME [PartsNext]_partsVars
  PROVE  /\ UNCHANGED part
         /\ [FeedNext]_feedVars /\ [RouterNext]_routerVars /\ [WorkerNext]_workerVars
         /\ [MonitorNext]_monitorVars /\ [TrackNext]_trackVars /\ [EvidenceNext]_evidenceVars
<1>1. CASE UNCHANGED partsVars
  BY <1>1 DEF partsVars
<1>2. CASE FeedMoves
  BY <1>2, Zenon DEF FeedMoves, Only
<1>3. CASE RouterMoves
  BY <1>3, Zenon DEF RouterMoves, Only
<1>4. CASE WorkerMoves
  BY <1>4, Zenon DEF WorkerMoves, Only
<1>5. CASE MonitorMoves
  BY <1>5, Zenon DEF MonitorMoves, Only
<1>6. CASE TelemetryMoves
  BY <1>6, Zenon DEF TelemetryMoves, Only
<1>7. CASE SlotMoves
  BY <1>7, Zenon DEF SlotMoves, Only
<1> QED BY <1>1, <1>2, <1>3, <1>4, <1>5, <1>6, <1>7 DEF PartsNext

\* Whichever part moves, its variables keep their types.
THEOREM LivePartsTyped == PartsSpec => []LivePartsTypeOK
<1>1. PartsInit =>
        /\ part \in Parts
        /\ FeedInit /\ RouterInit /\ WorkerInit /\ MonitorInit /\ TrackInit /\ EvidenceInit
  BY DEF PartsInit
<1>2. [PartsNext]_partsVars =>
        /\ (part \in Parts => (part \in Parts)')
        /\ [FeedNext]_feedVars /\ [RouterNext]_routerVars /\ [WorkerNext]_workerVars
        /\ [MonitorNext]_monitorVars /\ [TrackNext]_trackVars /\ [EvidenceNext]_evidenceVars
  BY PartsStep
<1>3. PartsSpec => FeedSpec /\ RouterSpec /\ WorkerSpec
  BY <1>1, <1>2, PTL DEF PartsSpec, FeedSpec, RouterSpec, WorkerSpec
<1>4. PartsSpec => MonitorSpec /\ TrackSpec /\ EvidenceSpec
  BY <1>1, <1>2, PTL DEF PartsSpec, MonitorSpec, TrackSpec, EvidenceSpec
<1>5. PartsSpec => [](part \in Parts)
  BY <1>1, <1>2, PTL DEF PartsSpec
<1>6. (/\ part \in Parts
       /\ ClientTypeOK /\ RouterTypeOK /\ WorkerTypeOK /\ MonitorTypeOK /\ TrackTypeOK
       /\ EvidenceTypeOK) => LivePartsTypeOK
  <2> SUFFICES ASSUME part \in Parts, ClientTypeOK, RouterTypeOK, WorkerTypeOK, MonitorTypeOK,
                      TrackTypeOK, EvidenceTypeOK
               PROVE  LivePartsTypeOK
    OBVIOUS
  <2> QED BY Zenon DEF LivePartsTypeOK, Parts
<1> QED BY <1>3, <1>4, <1>5, <1>6, FeedTyped, RouterTyped, WorkerTyped, MonitorTyped, TimelineTyped,
           EvidenceTyped, PTL

=============================================================================
