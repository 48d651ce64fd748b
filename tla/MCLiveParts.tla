----------------------------- MODULE MCLiveParts -----------------------------
(***************************************************************************)
(* Small instances of the processes that poll, wait and must come to an    *)
(* end.  They share no state: `part' names the one whose steps a behaviour *)
(* takes, the others stay where they begin, so the states are the disjoint *)
(* union of the components' own.                                           *)
(***************************************************************************)
EXTENDS SnapshotClient, ReactiveRouter, ObservationWorker, LiveMonitor,
        Telemetry, SlotEvidence

VARIABLE part

partsVars == <<part, feedVars, routerVars, workerVars, monitorVars, trackVars, evidenceVars>>

Parts == {"feed", "router", "worker", "monitor", "telemetry", "slot"}

\* Only the variables of component p may change.
Only(p) ==
  /\ UNCHANGED part
  /\ p # "feed"      => UNCHANGED feedVars
  /\ p # "router"    => UNCHANGED routerVars
  /\ p # "worker"    => UNCHANGED workerVars
  /\ p # "monitor"   => UNCHANGED monitorVars
  /\ p # "telemetry" => UNCHANGED trackVars
  /\ p # "slot"      => UNCHANGED evidenceVars

PartsInit ==
  /\ part \in Parts
  /\ FeedInit /\ RouterInit /\ WorkerInit /\ MonitorInit /\ TrackInit /\ EvidenceInit
  /\ part # "slot" => ~clockAhead

FeedMoves      == part = "feed"      /\ FeedNext     /\ Only("feed")
RouterMoves    == part = "router"    /\ RouterNext   /\ Only("router")
WorkerMoves    == part = "worker"    /\ WorkerNext   /\ Only("worker")
MonitorMoves   == part = "monitor"   /\ MonitorNext  /\ Only("monitor")
TelemetryMoves == part = "telemetry" /\ TrackNext    /\ Only("telemetry")
SlotMoves      == part = "slot"      /\ EvidenceNext /\ Only("slot")

PartsNext ==
  \/ FeedMoves \/ RouterMoves \/ WorkerMoves
  \/ MonitorMoves \/ TelemetryMoves \/ SlotMoves

\* The fairness of every component, for the behaviours in which it moves.
On(p, Action) == part = p /\ Action /\ Only(p)

PartsFairness ==
  /\ \A p \in Pollers : /\ WF_feedVars(On("feed", PollStarts(p)))
                        /\ WF_feedVars(On("feed", FeedAnswers(p)))
                        /\ WF_feedVars(On("feed", PollSettles(p)))
  /\ WF_routerVars(On("router", RouterRuns)) /\ WF_routerVars(On("router", RouterTick))
  /\ WF_workerVars(On("worker", WorkerRuns)) /\ WF_workerVars(On("worker", WorkerTick))
  /\ WF_monitorVars(On("monitor", MonitorSteps))
  /\ WF_trackVars(On("telemetry", TrackRuns))
  /\ WF_evidenceVars(On("slot", CoordinatorStep)) /\ WF_evidenceVars(On("slot", AssignmentEnds))

PartsSpec == PartsInit /\ [][PartsNext]_partsVars /\ PartsFairness

----------------------------------------------------------------------------
\* Constants that a cfg cannot write.
RoutesInOrder == <<"ra", "rb", "rc">>
FilesInOrder == <<"signed-result", "delivery-receipt", "manifest">>

----------------------------------------------------------------------------
\* The variables of the component that moves keep their types.
LivePartsTypeOK ==
  CASE part = "feed"      -> ClientTypeOK
    [] part = "router"    -> RouterTypeOK
    [] part = "worker"    -> WorkerTypeOK
    [] part = "monitor"   -> MonitorTypeOK
    [] part = "telemetry" -> TrackTypeOK
    [] part = "slot"      -> EvidenceTypeOK

RunBegan ==
  \/ routerPc # "idle" \/ workerPc = "loop" \/ trackPc = "polling"
  \/ part = "slot"

RunEnded ==
  \/ routerPc = "returned"
  \/ workerPc \in {"done", "dead", "refused"}
  \/ trackPc = "returned" /\ trackElapsed <= ObservationDeadline
  \/ slotEvent # "none" \/ \E i \in 1 .. 3 : copies[i] \in {"half", "torn"}

\* Every run that began comes to its end: a submission through the router, an
\* observation, the tracking of a transaction, the conclusion of a slot (which
\* is under way from the start).  It is RouterReturns, WorkerEnds, TrackingEnds
\* and SlotConcludes for the component that moves.
EveryRunEnds == RunBegan ~> RunEnded
=============================================================================
