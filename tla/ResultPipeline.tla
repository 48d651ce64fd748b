--------------------------- MODULE ResultPipeline ---------------------------
(***************************************************************************)
(* Observer delivery runtimes and the Collector, joined by HTTP.           *)
(*                                                                         *)
(* A posted request is on the wire until it reaches the Collector, meets a *)
(* closed port, or outlives the client's timeout; a request whose client   *)
(* has timed out may still arrive and be executed.  Processes crash and    *)
(* restart, writes fail, and an observer's key may leave its validity      *)
(* window while its results are on their way.                              *)
(***************************************************************************)
EXTENDS DurableCollector, ObserverRuntime

CONSTANT FaultBudget \* bound: how often each kind of fault happens

FaultKinds == {"timeout", "collectorCrash", "collectorDisk", "observerCrash",
               "observerDisk", "spoolRead", "keyExpiry"}

ASSUME PipelineAssumption ==
  /\ Clients = Observers
  /\ SpoolFiles = Results
  /\ FaultBudget \in [FaultKinds -> Nat]

VARIABLES
  wire,              \* requests sent and not yet read by the Collector
  keyExpired,        \* observers whose key window is over
  budget             \* faults that may still happen

networkVars == <<wire, keyExpired, budget>>
vars == <<collectorVars, observerVars, networkVars>>

Request == [client : Observers, result : Results, live : BOOLEAN]

Spend(kind) ==
  /\ budget[kind] > 0
  /\ budget' = [budget EXCEPT ![kind] = @ - 1]

-----------------------------------------------------------------------------
Init ==
  /\ CollectorInit
  /\ ObserverInit
  /\ wire = {}
  /\ keyExpired = {}
  /\ budget = FaultBudget

CollectorWorks == CollectorStep /\ UNCHANGED <<observerVars, networkVars>>

CollectorReopens == OpenLog /\ UNCHANGED <<observerVars, networkVars>>

CollectorWriteFails(landing) ==
  /\ FailWrite(landing)
  /\ Spend("collectorDisk")
  /\ UNCHANGED <<observerVars, wire, keyExpired>>

CollectorCrashes(landing) ==
  /\ CrashCollector(landing)
  /\ Spend("collectorCrash")
  /\ UNCHANGED <<observerVars, wire, keyExpired>>

\* The request is read, and ingest() called at the Collector's present time.
RequestArrives(m) ==
  /\ m \in wire
  /\ Arrive([client |-> m.client, result |-> m.result,
             inWindow |-> m.client \notin keyExpired, live |-> m.live])
  /\ wire' = wire \ {m}
  /\ UNCHANGED <<observerVars, keyExpired, budget>>

\* Nobody listens on the Collector's port.
RequestRefused(m) ==
  /\ m \in wire /\ ~running
  /\ wire' = wire \ {m}
  /\ response' = IF m.live THEN [response EXCEPT ![m.client] = Reset] ELSE response
  /\ UNCHANGED <<acceptedLog, partialRecord, running, index, nextSequence,
                 fatalWriteError, tail, writing, observerVars, keyExpired, budget>>

\* A scan step of an observer that concerns nobody else.
ObserverScans(o) ==
  /\ \/ StartScan(o)
     \/ EndScan(o)
     \/ RecordDelivery(o)
     \/ \E f \in SpoolFiles : SkipDelivered(o, f) \/ SkipFailed(o, f)
     \/ \E f \in Unreadable : ScanThrows(o, f)
  /\ UNCHANGED <<collectorVars, networkVars>>

\* A file that can be read as a rule is not, this once: it is gone again, or
\* the host is out of descriptors.
SpoolReadFails(o) ==
  /\ \E f \in SpoolFiles \ Unreadable : ScanThrows(o, f)
  /\ Spend("spoolRead")
  /\ UNCHANGED <<collectorVars, wire, keyExpired>>

ObserverPosts(o, f) ==
  /\ PostResult(o, f)
  /\ wire' = wire \cup {[client |-> o, result |-> f, live |-> TRUE]}
  /\ UNCHANGED <<collectorVars, keyExpired, budget>>

\* The response is read: what the runtime does next is its status code's.
ObserverReads(o) ==
  /\ TakeResponse(o)
  /\ CASE response[o].outcome \in {"ACCEPTED", "DUPLICATE"} -> Acknowledged(o)
       [] response[o].outcome = "REJECTED" -> RefusedForGood(o)
       [] OTHER -> FailedForNow(o)
  /\ UNCHANGED networkVars

\* Requests of a client that no longer waits for them.
Orphaned(o) == {IF m.client = o THEN [m EXCEPT !.live = FALSE] ELSE m : m \in wire}

\* Faulty variant: the runtime gives up waiting and leaves its request open, so
\* an answer can still reach it.
ObserverTimesOutUnaborted(o) ==
  /\ FailedForNow(o)
  /\ Spend("timeout")
  /\ UNCHANGED <<collectorVars, wire, keyExpired>>

\* AbortSignal.timeout fires before the response was read.
ObserverTimesOut(o) ==
  /\ FailedForNow(o)
  /\ HangUp(o)
  /\ wire' = Orphaned(o)
  /\ Spend("timeout")
  /\ UNCHANGED keyExpired

ObserverWriteFails(o, landing) ==
  /\ FailRecord(o, landing)
  /\ Spend("observerDisk")
  /\ UNCHANGED <<collectorVars, wire, keyExpired>>

ObserverCrashes(o, landing) ==
  /\ CrashObserver(o, landing)
  /\ HangUp(o)
  /\ wire' = Orphaned(o)
  /\ Spend("observerCrash")
  /\ UNCHANGED keyExpired

ObserverReopens(o) == OpenRuntime(o) /\ UNCHANGED <<collectorVars, networkVars>>

ResultSpooled(f) == WriteSpoolFile(f) /\ UNCHANGED <<collectorVars, networkVars>>

\* validUntil of the observer's key passes.
KeyExpires(o) ==
  /\ o \notin keyExpired
  /\ keyExpired' = keyExpired \cup {o}
  /\ Spend("keyExpiry")
  /\ UNCHANGED <<collectorVars, observerVars, wire>>

ObserverWorks(o) ==
  ObserverScans(o) \/ ObserverReads(o) \/ \E f \in SpoolFiles : ObserverPosts(o, f)

Next ==
  \/ CollectorWorks
  \/ CollectorReopens
  \/ \E landing \in Landings :
        CollectorWriteFails(landing) \/ CollectorCrashes(landing)
  \/ \E m \in wire : RequestArrives(m) \/ RequestRefused(m)
  \/ \E o \in Observers : ObserverWorks(o)
  \/ \E o \in Observers : ObserverTimesOut(o) \/ SpoolReadFails(o)
  \/ \E o \in Observers, landing \in AppendLandings :
        ObserverWriteFails(o, landing) \/ ObserverCrashes(o, landing)
  \/ \E o \in Observers : ObserverReopens(o)
  \/ \E f \in SpoolFiles : ResultSpooled(f)
  \/ \E o \in Observers : KeyExpires(o)

Spec == Init /\ [][Next]_vars

\* Both processes run when they can, a request on the wire reaches the
\* Collector's port, and systemd restarts a crashed process
\* (Restart=on-failure).  Faults are never forced.
Fairness ==
  /\ WF_vars(CollectorWorks)
  /\ WF_vars(CollectorReopens)
  /\ \A o \in Observers :
        /\ WF_vars(ObserverWorks(o))
        /\ WF_vars(ObserverReopens(o))
        /\ WF_vars(\E m \in wire : m.client = o /\ (RequestArrives(m) \/ RequestRefused(m)))

FairSpec == Spec /\ Fairness

-----------------------------------------------------------------------------
(***************************************************************************)
(* Properties.                                                             *)
(***************************************************************************)

\* Type correctness of the composed state.
TypeOK ==
  /\ CollectorTypeOK
  /\ spool \in SUBSET SpoolFiles
  /\ phase \in [Observers -> Phases]
  /\ todo \in [Observers -> SUBSET SpoolFiles]
  /\ current \in [Observers -> SUBSET SpoolFiles]
  /\ delivered \in [Observers -> SUBSET SpoolFiles]
  /\ failedContent \in [Observers -> SUBSET SpoolFiles]
  /\ cycleError \in [Observers -> BOOLEAN]
  /\ lastError \in [Observers -> BOOLEAN]
  /\ listing \in [Observers -> SUBSET SpoolFiles]
  /\ deliveryLog \in [Observers -> Seq(Line)]
  /\ partialDelivery \in [Observers -> BOOLEAN]
  /\ nextDeliverySequence \in [Observers -> Nat]
  /\ wire \in SUBSET Request
  /\ keyExpired \in SUBSET Observers
  /\ budget \in [FaultKinds -> Nat]

\* An observer that considers a result delivered, in memory or in its delivery
\* log, has the Collector's durable record of it: no crash, lost answer or
\* failed write on either side makes evidence disappear.
DeliveredIsDurable ==
  \A o \in Observers :
     /\ delivered[o] \subseteq LogResults
     /\ RecordedFiles(o) \subseteq LogResults

\* A runtime that reports ready after a scan has delivered every entry the scan
\* listed: neither a refused result nor a failed post hides behind readiness.
ReadyMeansDelivered ==
  [][\A o \in Observers :
        EndScan(o) /\ ~lastError'[o] => listing[o] \subseteq delivered[o]]_vars

\* A response is read by the runtime that posted the result it is about.
ResponseMatchesPost ==
  \A o \in Observers :
     response[o] # NoAnswer =>
        /\ phase[o] = "posting"
        /\ response[o].outcome # "RESET" => current[o] = {response[o].result}

\* The delivery log can be reopened after a crash: every complete line has its
\* sequence number and no result is recorded twice.  Only a torn final line
\* may stop a restart.
DeliveryLogReopens ==
  \A o \in Observers : ~partialDelivery[o] => Reopens(o)

\* A result the Collector has accepted is never refused for good to the
\* observer that retries it.
AcceptedNeverRefused ==
  \A o \in Observers : failedContent[o] \cap LogResults = {}

\* An observer and the Collector agree: answers meet their posts, a log of
\* deliveries reopens, and nothing accepted counts as refused.
ObserversAgree == ResponseMatchesPost /\ DeliveryLogReopens /\ AcceptedNeverRefused

\* Files of f's spool that no scan gets past, in front of f.
Blocking(f) ==
  {g \in spool \cap Unreadable : SpoolOf[g] = SpoolOf[f] /\ NameRank[g] < NameRank[f]}

\* Once faults have ceased, every result in the spool ends up delivered or
\* refused and stays so, whatever other files of the spool cannot be sent,
\* were refused or come after it.  What keeps it waiting for the operator is a
\* torn or poisoned log, or a file before it that cannot be read: such a file
\* ends every scan.
EventuallySettled ==
  \A f \in Results \ (Unsendable \cup Unreadable) :
     f \in spool ~>
       [](\/ f \in delivered[SpoolOf[f]] \cup failedContent[SpoolOf[f]]
          \/ partialRecord \/ fatalWriteError \/ partialDelivery[SpoolOf[f]]
          \/ Blocking(f) # {})

\* The pipeline implements the ledger: the accepted log is the ledger, and a
\* receipt is a line of a delivery log.
Ledger == INSTANCE AcceptedLedger WITH
            Conflict <- SharesKey,
            ledger   <- [i \in 1..Len(acceptedLog) |-> acceptedLog[i].result],
            receipts <- UNION {RecordedFiles(o) : o \in Observers}

ImplementsLedger == Ledger!LedgerSpec
=============================================================================
