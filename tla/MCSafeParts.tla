----------------------------- MODULE MCSafeParts -----------------------------
(***************************************************************************)
(* Small instances of the parts that record, judge and account.  They      *)
(* share no state: `part' names the one whose steps a behaviour takes, the *)
(* others stay where they begin, so the states are the disjoint union of   *)
(* the components' own.                                                    *)
(***************************************************************************)
EXTENDS ObservationWorker, RehearsalSlot, DryRunScheduler, GrantAcceptance,
        CanarySoak, HostileProxy, AnalysisWindow, TelemetryLog, Telemetry

VARIABLE part

partsVars == <<part, workerVars, rehearsalVars, dryRunVars, campaignVars, soakVars,
               proxyVars, windowVars, logVars, trackVars>>

Parts == {"worker", "rehearsal", "dry-run", "campaign", "soak", "proxy", "analysis", "log",
          "telemetry"}

\* Only the variables of component p may change.
Only(p) ==
  /\ UNCHANGED part
  /\ p # "worker"    => UNCHANGED workerVars
  /\ p # "rehearsal" => UNCHANGED rehearsalVars
  /\ p # "dry-run"   => UNCHANGED dryRunVars
  /\ p # "campaign"  => UNCHANGED campaignVars
  /\ p # "soak"      => UNCHANGED soakVars
  /\ p # "proxy"     => UNCHANGED proxyVars
  /\ p # "analysis"  => UNCHANGED windowVars
  /\ p # "log"       => UNCHANGED logVars
  /\ p # "telemetry" => UNCHANGED trackVars

PartsInit ==
  /\ part \in Parts
  /\ WorkerInit /\ RehearsalInit /\ DryRunInit /\ CampaignInit
  /\ SoakInit /\ ProxyInit /\ WindowInit /\ LogInit /\ TrackInit
  /\ part # "proxy" => mode = "PASS_THROUGH"
  /\ part # "soak" => subject = "observer"

WorkerMoves    == part = "worker"    /\ WorkerNext    /\ Only("worker")
RehearsalMoves == part = "rehearsal" /\ RehearsalNext /\ Only("rehearsal")
DryRunMoves    == part = "dry-run"   /\ DryRunNext    /\ Only("dry-run")
CampaignMoves  == part = "campaign"  /\ CampaignNext  /\ Only("campaign")
SoakMoves      == part = "soak"      /\ SoakNext      /\ Only("soak")
ProxyMoves     == part = "proxy"     /\ ProxyNext     /\ Only("proxy")
AnalysisMoves  == part = "analysis"  /\ WindowNext    /\ Only("analysis")
LogMoves       == part = "log"       /\ LogNext       /\ Only("log")
TelemetryMoves == part = "telemetry" /\ TrackNext     /\ Only("telemetry")

PartsNext ==
  \/ WorkerMoves \/ RehearsalMoves \/ DryRunMoves \/ CampaignMoves
  \/ SoakMoves \/ ProxyMoves \/ AnalysisMoves \/ LogMoves \/ TelemetryMoves

PartsSpec == PartsInit /\ [][PartsNext]_partsVars

----------------------------------------------------------------------------
\* Constants that a cfg cannot write.
TwoSlots == <<0, 2>>

----------------------------------------------------------------------------
\* The variables of the component that moves keep their types.
SafePartsTypeOK ==
  CASE part = "worker"    -> WorkerTypeOK
    [] part = "rehearsal" -> RehearsalTypeOK
    [] part = "dry-run"   -> DryRunTypeOK
    [] part = "campaign"  -> CampaignTypeOK
    [] part = "soak"      -> SoakTypeOK
    [] part = "proxy"     -> ProxyTypeOK
    [] part = "analysis"  -> WindowTypeOK
    [] part = "log"       -> LogTypeOK
    [] part = "telemetry" -> TrackTypeOK
=============================================================================
