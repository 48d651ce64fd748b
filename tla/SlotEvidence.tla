---------------------------- MODULE SlotEvidence ----------------------------
(***************************************************************************)
(* The end of one official slot, file by file: what the coordinator's      *)
(* Complete (OfficialCoordinator) abstracts.  The coordinator copies the   *)
(* observer's evidence over SSH while worker and delivery runtime write    *)
(* it, scripts/complete-grant-m2-official-slot.mjs reads the Collector's   *)
(* live log, reconciles (lib/grant-m2-official-reconciliation.mjs) and     *)
(* persists the evidence (lib/grant-m2-official-evidence-store.mjs), and   *)
(* the journal gets the slot's one terminal event.                         *)
(***************************************************************************)
EXTENDS Naturals, Sequences

CONSTANTS
  EvidenceFiles,   \* the files persisted for a slot, in order, the manifest last
  EvidenceFaults   \* bound: deaths of the coordinator, lines of other results

ASSUME EvidenceAssumption ==
  /\ EvidenceFiles \in Seq(STRING) /\ Len(EvidenceFiles) > 0
  /\ EvidenceFaults \in Nat

VARIABLES
  worker,        \* what the worker has written: nothing, half a completion, all
  delivery,      \* the observer's delivery log, seen from this slot
  collected,     \* the Collector's log, seen from this slot
  clockAhead,    \* the observer's clock runs ahead of the coordinator's
  assignmentOver,\* Date.now() > expiresAt
  copies,        \* the write-once local copies: completion, unsigned, raw
  deliveryCopy,  \* the replaced local copy of the delivery log
  collectorRead, \* what the completing process read of the Collector's log
  evidence,      \* the persisted files, by position
  slotEvent,     \* the slot's terminal event in the journal
  at,            \* where the coordinator is in advanceOne()
  evidenceFaults

remoteSide == <<worker, delivery, collected, clockAhead, assignmentOver>>
localSide == <<copies, deliveryCopy, collectorRead, evidence, slotEvent>>
evidenceVars == <<remoteSide, localSide, at, evidenceFaults>>

\* A log: whether it holds this slot's line, with what status, and whether its
\* last line is still being written, this slot's or another's.
Logs == [own : {"absent", "ACCEPTED", "DUPLICATE"}, tail : {"whole", "own", "other"}]
EmptyLog == [own |-> "absent", tail |-> "whole"]
Readable(log) == log.tail = "whole"

Copies == <<"completion", "unsigned", "raw">>
Whole(file) == file = "whole"

\* Faulty variant: the receipt's word is taken for the Collector's.
ReconcilesWithoutCollector ==
  /\ \A i \in 1..3 : Whole(copies[i])
  /\ Readable(deliveryCopy)
  /\ ~clockAhead

\* reconcileGrantM2OfficialSlot(): the completion and the receipt must be those
\* of the result, the receipt an original acceptance that does not lie in the
\* future, and the Collector's record the result itself.
Reconciles ==
  /\ \A i \in 1..3 : Whole(copies[i])
  /\ Readable(deliveryCopy) /\ deliveryCopy.own = "ACCEPTED"
  /\ Readable(collectorRead) /\ collectorRead.own = "ACCEPTED"
  /\ ~clockAhead

EvidenceInit ==
  /\ worker = "absent" /\ delivery = EmptyLog /\ collected = EmptyLog
  /\ clockAhead \in BOOLEAN /\ assignmentOver = FALSE
  /\ copies = [i \in 1..3 |-> "absent"]
  /\ deliveryCopy = EmptyLog /\ collectorRead = EmptyLog
  /\ evidence = [i \in DOMAIN EvidenceFiles |-> "absent"]
  /\ slotEvent = "none" /\ at = <<"advance">> /\ evidenceFaults = 0

-----------------------------------------------------------------------------
(***************************************************************************)
(* The coordinator.  It looks again only while the slot is not terminal.   *)
(***************************************************************************)
Coordinator(step) == at[1] = step /\ UNCHANGED <<remoteSide, evidenceFaults>>

\* markInvalid() leaves a slot alone that has its event already.
MarkSlotInvalid ==
  /\ slotEvent' = IF slotEvent = "none" THEN "INVALID" ELSE slotEvent
  /\ at' = <<"advance">>

\* remoteExists() says no for an absent file and for a failed connection alike.
LookForCompletion ==
  /\ Coordinator("advance") /\ slotEvent = "none"
  /\ \/ worker # "absent" /\ at' = <<"copy", 1>> /\ UNCHANGED slotEvent
     \/ assignmentOver /\ MarkSlotInvalid
  /\ UNCHANGED <<copies, deliveryCopy, collectorRead, evidence>>

\* Faulty variant: a copy that exists is written over.
CopyRemoteAnew ==
  /\ Coordinator("copy") /\ at[2] <= 3
  /\ copies' = [copies EXCEPT ![at[2]] = IF at[2] = 1 THEN worker ELSE "whole"]
  /\ at' = <<"copy", at[2] + 1>>
  /\ UNCHANGED <<deliveryCopy, collectorRead, evidence, slotEvent>>

\* readRemote() and writeOnce(): a copy that exists and differs stops the
\* coordinator.  The completion may be copied while the worker is writing it.
CopyRemote ==
  /\ Coordinator("copy") /\ at[2] <= 3
  /\ LET i == at[2]
         read == IF i = 1 THEN worker ELSE "whole"
     IN IF copies[i] \in {"absent", read}
        THEN copies' = [copies EXCEPT ![i] = read] /\ at' = <<"copy", i + 1>>
        ELSE at' = <<"stopped">> /\ UNCHANGED copies
  /\ UNCHANGED <<deliveryCopy, collectorRead, evidence, slotEvent>>

\* Faulty variant: the expiry is looked at before the copy only.
CopyDeliveryLogPatiently ==
  /\ Coordinator("copy") /\ at[2] = 4
  /\ deliveryCopy' = delivery
  /\ at' = IF delivery.own = "absent" THEN <<"advance">> ELSE <<"complete">>
  /\ UNCHANGED <<copies, collectorRead, evidence, slotEvent>>

\* The delivery log is copied as it is now, a half-written line included.
CopyDeliveryLog ==
  /\ Coordinator("copy") /\ at[2] = 4
  /\ deliveryCopy' = delivery
  /\ \/ delivery.own # "absent" /\ at' = <<"complete">> /\ UNCHANGED slotEvent
     \/ delivery.own = "absent" /\ assignmentOver /\ MarkSlotInvalid
     \/ /\ delivery.own = "absent" /\ ~assignmentOver
        /\ at' = <<"advance">> /\ UNCHANGED slotEvent
  /\ UNCHANGED <<copies, collectorRead, evidence>>

\* The completing process reads its inputs: a log with a torn line is refused.
ReadCollectorLog ==
  /\ Coordinator("complete")
  /\ collectorRead' = collected /\ at' = <<"reconcile">>
  /\ UNCHANGED <<copies, deliveryCopy, evidence, slotEvent>>

ReconcileSlot ==
  /\ Coordinator("reconcile")
  /\ IF Reconciles THEN at' = <<"persist", 1>> /\ UNCHANGED slotEvent
     ELSE MarkSlotInvalid
  /\ UNCHANGED <<copies, deliveryCopy, collectorRead, evidence>>

\* writeImmutable(): an existing file must have the contents to be written.
PersistFile ==
  /\ Coordinator("persist") /\ at[2] <= Len(EvidenceFiles)
  /\ IF evidence[at[2]] = "torn" THEN MarkSlotInvalid /\ UNCHANGED evidence
     ELSE /\ evidence' = [evidence EXCEPT ![at[2]] = "whole"]
          /\ at' = <<"persist", at[2] + 1>> /\ UNCHANGED slotEvent
  /\ UNCHANGED <<copies, deliveryCopy, collectorRead>>

AppendQualifying ==
  /\ Coordinator("persist") /\ at[2] = Len(EvidenceFiles) + 1
  /\ slotEvent' = "QUALIFYING" /\ at' = <<"advance">>
  /\ UNCHANGED <<copies, deliveryCopy, collectorRead, evidence>>

\* The coordinator dies, with the process it waits for; the file it was creating
\* may be torn.  systemd starts it again, after its safe mode too.
CoordinatorDies ==
  /\ at[1] # "stopped" /\ evidenceFaults < EvidenceFaults
  /\ evidenceFaults' = evidenceFaults + 1
  /\ \/ UNCHANGED <<copies, evidence>>
     \/ /\ at[1] = "copy" /\ at[2] <= 3 /\ copies[at[2]] = "absent"
        /\ copies' = [copies EXCEPT ![at[2]] = "torn"] /\ UNCHANGED evidence
     \/ /\ at[1] = "persist" /\ at[2] <= Len(EvidenceFiles) /\ evidence[at[2]] = "absent"
        /\ evidence' = [evidence EXCEPT ![at[2]] = "torn"] /\ UNCHANGED copies
  /\ at' = <<"stopped">>
  /\ UNCHANGED <<remoteSide, deliveryCopy, collectorRead, slotEvent>>

CoordinatorRestarts ==
  /\ Coordinator("stopped") /\ at' = <<"advance">> /\ UNCHANGED localSide

-----------------------------------------------------------------------------
(***************************************************************************)
(* The rest: worker, delivery runtime (ObserverRuntime) and Collector      *)
(* (DurableCollector) write their files line by line.                      *)
(***************************************************************************)
Elsewhere == UNCHANGED <<localSide, at>>

\* Raw log and result are whole before the completion is begun.
WorkerWrites ==
  /\ worker # "whole"
  /\ worker' = IF worker = "absent" THEN "half" ELSE "whole"
  /\ UNCHANGED <<delivery, collected, clockAhead, assignmentOver, evidenceFaults>> /\ Elsewhere

BeginLine(log, log_) ==
  /\ log.tail = "whole"
  /\ \/ log.own = "absent" /\ log_ = [log EXCEPT !.tail = "own"] /\ UNCHANGED evidenceFaults
     \/ /\ log_ = [log EXCEPT !.tail = "other"] /\ evidenceFaults < EvidenceFaults
        /\ evidenceFaults' = evidenceFaults + 1

EndLine(log, log_, status) ==
  /\ log.tail # "whole" /\ UNCHANGED evidenceFaults
  /\ log_ = [own |-> IF log.tail = "own" THEN status ELSE log.own, tail |-> "whole"]

CollectorWrites ==
  /\ BeginLine(collected, collected') \/ EndLine(collected, collected', "ACCEPTED")
  /\ UNCHANGED <<worker, delivery, clockAhead, assignmentOver>> /\ Elsewhere

\* The receipt follows the acceptance; it says DUPLICATE when the answer to the
\* accepted request was lost and the runtime delivered again.
DeliveryRuntimeWrites ==
  /\ \/ BeginLine(delivery, delivery') /\ (delivery'.tail = "own" => collected.own = "ACCEPTED")
     \/ \E status \in {"ACCEPTED", "DUPLICATE"} : EndLine(delivery, delivery', status)
  /\ UNCHANGED <<worker, collected, clockAhead, assignmentOver>> /\ Elsewhere

AssignmentEnds ==
  /\ ~assignmentOver /\ assignmentOver' = TRUE
  /\ UNCHANGED <<worker, delivery, collected, clockAhead, evidenceFaults>> /\ Elsewhere

CoordinatorStep ==
  \/ LookForCompletion \/ CopyRemote \/ CopyDeliveryLog \/ ReadCollectorLog
  \/ ReconcileSlot \/ PersistFile \/ AppendQualifying \/ CoordinatorRestarts

EvidenceNext ==
  \/ CoordinatorStep \/ CoordinatorDies
  \/ WorkerWrites \/ CollectorWrites \/ DeliveryRuntimeWrites \/ AssignmentEnds

EvidenceSpec == EvidenceInit /\ [][EvidenceNext]_evidenceVars

\* The coordinator's loop runs, and an assignment expires.
EvidenceFairness == WF_evidenceVars(CoordinatorStep) /\ WF_evidenceVars(AssignmentEnds)

-----------------------------------------------------------------------------
EvidenceTypeOK ==
  /\ worker \in {"absent", "half", "whole"} /\ {delivery, collected} \subseteq Logs
  /\ \A i \in 1..3 : copies[i] \in {"absent", "torn", "half", "whole"}
  /\ \A i \in DOMAIN EvidenceFiles : evidence[i] \in {"absent", "torn", "whole"}
  /\ slotEvent \in {"none", "QUALIFYING", "INVALID"}

\* A slot that counts has all its evidence, whole, and the Collector's log holds
\* its record, whatever died or was half-written meanwhile.
QualifyingIsEvidenced ==
  slotEvent = "QUALIFYING" =>
    /\ \A i \in DOMAIN EvidenceFiles : Whole(evidence[i])
    /\ \A i \in 1..3 : Whole(copies[i])
    /\ worker = "whole" /\ delivery.own = "ACCEPTED" /\ collected.own = "ACCEPTED"

\* A slot is refused for one of these reasons only: its time was over, its
\* receipt is not the original one, a log was read while a line was being
\* written, a death tore a file of its evidence, or a clock ran ahead.
InvalidHasItsCause ==
  slotEvent = "INVALID" =>
    \/ assignmentOver \/ clockAhead \/ deliveryCopy.own = "DUPLICATE"
    \/ ~Readable(deliveryCopy) \/ ~Readable(collectorRead)
    \/ \E i \in DOMAIN EvidenceFiles : evidence[i] = "torn"
    \/ \E i \in 1..3 : copies[i] \in {"half", "torn"}

VerdictHasItsEvidence == QualifyingIsEvidenced /\ InvalidHasItsCause

\* What was once written of the evidence is never written over: not by a retry,
\* not after a restart.
EvidenceIsWriteOnce ==
  [][/\ \A i \in 1..3 : copies[i] # "absent" => copies'[i] = copies[i]
     /\ \A i \in DOMAIN EvidenceFiles : evidence[i] # "absent" => evidence'[i] = evidence[i]
     /\ slotEvent # "none" => slotEvent' = slotEvent]_evidenceVars

\* The slot gets its terminal event, unless a local copy was torn by a death or
\* taken of a half-written completion: then the coordinator stops on it for ever.
SlotConcludes ==
  <>(slotEvent # "none" \/ \E i \in 1..3 : copies[i] \in {"half", "torn"})

\* The slot's evidence through every step: its verdict has its evidence or its
\* cause, and nothing written is written over.
EvidenceIsSound ==
  /\ [][VerdictHasItsEvidence']_evidenceVars
  /\ EvidenceIsWriteOnce
=============================================================================
