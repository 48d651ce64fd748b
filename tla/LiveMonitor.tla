----------------------------- MODULE LiveMonitor -----------------------------
(***************************************************************************)
(* The observer host's monitor (run-grant-m2-live-monitor.mjs,             *)
(* grant-m2-live-monitor.mjs, grant-m2-host-monitor-runtime.mjs): a        *)
(* process started once a minute that samples the host, compares the       *)
(* evaluation with the stored one, tells the operator of a change, and     *)
(* appends to its journal before it replaces the stored state.             *)
(***************************************************************************)
EXTENDS Naturals, Sequences

CONSTANTS
  FailuresBeforeCritical,  \* critical_after_consecutive_failures
  ReminderAfter,           \* samples between two reminders of one condition
  MonitorTroubles,         \* bound: deaths, lost samples, failed messages
  HostChanges              \* bound: changes of the host's condition

ASSUME MonitorAssumption ==
  /\ FailuresBeforeCritical \in Nat \ {0} /\ ReminderAfter \in Nat \ {0}
  /\ {MonitorTroubles, HostChanges} \subseteq Nat

VARIABLES
  host,        \* the condition of the host
  monitorPc,   \* where the process stands
  stored,      \* the state file, NoState before the first
  current,     \* the evaluation of this sample
  told,        \* history: what the operator was told last
  sinceSent,   \* samples since notification_sent_at
  troubles, changes,  \* what is left of the bounds
  interrupted  \* history: a process died between a message and its state

monitorVars == <<host, monitorPc, stored, current, told, sinceSent, troubles,
                 changes, interrupted>>

\* Low memory, disk, clock, backlog and quota are judged sample by sample;
\* service, readiness and NTP by consecutive failures.
Conditions == {"fine", "low", "down"}

\* fingerprint stands for highest_severity and signal_fingerprint.
Fingerprints == {"NONE", "WARNING", "CRITICAL"}
NoState == [fingerprint |-> "NONE", failed |-> 0, pending |-> FALSE, sequence |-> 0]

\* evaluateGrantM2LiveMonitor, with the count of the stored evaluation.
Evaluate(condition, previous) ==
  LET failed == IF condition = "down"
                THEN IF previous.failed < FailuresBeforeCritical
                     THEN previous.failed + 1 ELSE previous.failed
                ELSE 0
  IN [failed |-> failed,
      fingerprint |-> IF condition = "low" THEN "WARNING"
                      ELSE IF failed >= FailuresBeforeCritical THEN "CRITICAL" ELSE "NONE"]

\* Faulty variants: a message that failed is not tried again; a condition that
\* lasts is reported once.
DecideForgettingPending(evaluation) ==
  IF stored.sequence = 0 THEN evaluation.fingerprint # "NONE"
  ELSE \/ evaluation.fingerprint # stored.fingerprint
       \/ evaluation.fingerprint # "NONE" /\ sinceSent >= ReminderAfter
DecideOnce(evaluation) ==
  IF stored.sequence = 0 THEN evaluation.fingerprint # "NONE"
  ELSE stored.pending \/ evaluation.fingerprint # stored.fingerprint
\* decideGrantM2LiveMonitorNotification: send or not.
Decide(evaluation) ==
  IF stored.sequence = 0 THEN evaluation.fingerprint # "NONE"
  ELSE \/ stored.pending
       \/ evaluation.fingerprint # stored.fingerprint
       \/ evaluation.fingerprint # "NONE" /\ sinceSent >= ReminderAfter

Trouble == troubles > 0 /\ troubles' = troubles - 1

MonitorInit ==
  /\ host = "fine"
  /\ monitorPc = "idle"
  /\ stored = NoState
  /\ current = [fingerprint |-> "NONE", failed |-> 0]
  /\ told = "NONE"
  /\ sinceSent = 0
  /\ troubles = MonitorTroubles /\ changes = HostChanges
  /\ interrupted = FALSE

\* The timer starts a process; the state is read, the sample taken and judged.
Sample ==
  /\ monitorPc = "idle"
  /\ current' = Evaluate(host, stored)
  /\ monitorPc' = IF Decide(Evaluate(host, stored)) THEN "sending" ELSE "unsent"
  /\ sinceSent' = IF sinceSent < ReminderAfter THEN sinceSent + 1 ELSE sinceSent
  /\ UNCHANGED <<host, stored, told, troubles, changes, interrupted>>

\* A command that fails, a degraded answer, an assignment newer than the
\* sample: the process throws, the stored state and its count stay.
SampleFails ==
  /\ monitorPc = "idle"
  /\ Trouble
  /\ sinceSent' = IF sinceSent < ReminderAfter THEN sinceSent + 1 ELSE sinceSent
  /\ UNCHANGED <<host, monitorPc, stored, current, told, changes, interrupted>>

MessageSent ==
  /\ monitorPc = "sending"
  /\ told' = current.fingerprint
  /\ monitorPc' = "sent"
  /\ UNCHANGED <<host, stored, current, sinceSent, troubles, changes, interrupted>>

\* Telegram refuses or its answer is lost: the message may have arrived.
MessageFails ==
  /\ monitorPc = "sending"
  /\ Trouble
  /\ told' \in {told, current.fingerprint}
  /\ monitorPc' = "pending"
  /\ UNCHANGED <<host, stored, current, sinceSent, changes, interrupted>>

\* The record is appended to the journal, then the state replaced by rename.
WriteState ==
  /\ monitorPc \in {"sent", "pending", "unsent"}
  /\ stored' = [fingerprint |-> current.fingerprint, failed |-> current.failed,
                pending |-> monitorPc = "pending", sequence |-> 1]
  /\ sinceSent' = IF monitorPc = "sent" THEN 0 ELSE sinceSent
  /\ monitorPc' = "idle"
  /\ UNCHANGED <<host, current, told, troubles, changes, interrupted>>

MonitorDies ==
  /\ monitorPc # "idle"
  /\ Trouble
  /\ monitorPc' = "idle"
  /\ interrupted' = (interrupted \/ told # stored.fingerprint)
  /\ UNCHANGED <<host, stored, current, told, sinceSent, changes>>

HostMoves ==
  /\ changes > 0
  /\ changes' = changes - 1
  /\ \E condition \in Conditions \ {host} : host' = condition
  /\ UNCHANGED <<monitorPc, stored, current, told, sinceSent, troubles, interrupted>>

MonitorSteps == Sample \/ MessageSent \/ WriteState
MonitorNext == MonitorSteps \/ SampleFails \/ MessageFails \/ MonitorDies \/ HostMoves
MonitorSpec == MonitorInit /\ [][MonitorNext]_monitorVars

\* The timer starts the next process, a process that is not killed ends.
MonitorFairness == WF_monitorVars(MonitorSteps)

----------------------------------------------------------------------------
(* Properties.                                                             *)

\* Every variable has its type.
MonitorTypeOK ==
  /\ host \in Conditions
  /\ monitorPc \in {"idle", "sending", "sent", "pending", "unsent"}
  /\ stored \in [fingerprint : Fingerprints, failed : 0 .. FailuresBeforeCritical,
                 pending : BOOLEAN, sequence : 0 .. 1]
  /\ current \in [fingerprint : Fingerprints, failed : 0 .. FailuresBeforeCritical]
  /\ told \in Fingerprints
  /\ sinceSent \in 0 .. ReminderAfter
  /\ troubles \in 0 .. MonitorTroubles /\ changes \in 0 .. HostChanges
  /\ interrupted \in BOOLEAN

\* The stored state knows what the operator knows: unless a message is pending
\* or a process died after sending, what is stored is what was told last, so a
\* change is never taken for old news.
OperatorKnowsStored ==
  (monitorPc = "idle" /\ ~stored.pending /\ ~interrupted) => told = stored.fingerprint

\* An outage that lasts reaches the operator, whatever messages were lost and
\* whichever process died after sending: at the latest as a reminder.
OutageReachesOperator == <>[](host = "down") => <>[](told = "CRITICAL")

\* The operator knows the state of the host: what is stored was told, and an
\* outage that lasts is told in the end.
OperatorIsInformed ==
  /\ [][OperatorKnowsStored']_monitorVars
  /\ OutageReachesOperator
==============================================================================
