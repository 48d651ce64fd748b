--------------------------- MODULE ObserverRuntime ---------------------------
(***************************************************************************)
(* The observer delivery runtime: ObserverDeliveryRuntime of               *)
(* packages/collector/src/observer-runtime.ts.                             *)
(*                                                                         *)
(* One runtime per observer scans its spool directory file by file, in the *)
(* order of the names.  It signs and posts each result it has not          *)
(* delivered, and after a 200 or 201 appends and fsyncs a delivery record  *)
(* before it adds the result to #deliveredResultIds.  Everything else is   *)
(* retried by the next scan, except content the Collector refused for      *)
(* good.  A file whose content is no use only degrades the scan; a file    *)
(* that cannot be read ends it.                                            *)
(*                                                                         *)
(* Signing is deterministic (Ed25519 over canonical JSON), so a retry posts *)
(* the same signed result, and a result stands for its spool file.         *)
(***************************************************************************)
EXTENDS Naturals, Sequences

CONSTANTS
  Observers,         \* one delivery runtime each
  SpoolFiles,        \* results that may be written to a spool directory
  SpoolOf,           \* [SpoolFiles -> Observers]
  NameRank,          \* [SpoolFiles -> Nat]: the order of the file names
  Unsendable,        \* files that are too big, no result or of another identity
  Unreadable,        \* files that stat or readFile refuses whenever it is tried
  Leftover           \* files in the spool directories to begin with

ASSUME SpoolAssumption ==
  /\ SpoolOf \in [SpoolFiles -> Observers] /\ NameRank \in [SpoolFiles -> Nat]
  /\ \A f, g \in SpoolFiles : SpoolOf[f] = SpoolOf[g] /\ NameRank[f] = NameRank[g] => f = g
  /\ Unsendable \cup Unreadable \cup Leftover \subseteq SpoolFiles

VARIABLES
  spool,             \* files present in the spool directories
  phase,             \* where each runtime is in run() / scanOnce()
  todo,              \* entries of the current scan not yet visited
  current,           \* the entry being posted or recorded: at most one
  delivered,         \* #deliveredResultIds
  failedContent,     \* #failedContent: permanently refused content
  cycleError,        \* cycleError of the current scan is set
  lastError,         \* #lastError is set, or no scan has completed yet
  listing,           \* the entries the current (or last) scan listing
  deliveryLog,       \* the delivery log on disk: its newline-ended lines
  partialDelivery,   \* the delivery log ends in a torn line
  nextDeliverySequence

observerVars == <<spool, phase, todo, current, delivered, failedContent,
                  cycleError, lastError, listing, deliveryLog, partialDelivery,
                  nextDeliverySequence>>

\* The fields a visit to one spool entry leaves alone.
scanVars == <<spool, lastError, listing>>
diskVars == <<deliveryLog, partialDelivery>>

Phases == {"down", "idle", "scanning", "posting", "recording"}

\* A torn line that is later appended to becomes one line that is no JSON.
Line == [delivery_sequence : Nat, file : SpoolFiles, json : BOOLEAN]

\* What an append that did not complete may leave in the file.
AppendLandings == {"nothing", "partial", "whole"}

Filed(o) == {f \in spool : SpoolOf[f] = o}

-----------------------------------------------------------------------------
ObserverInit ==
  /\ spool = Leftover
  /\ phase = [o \in Observers |-> "idle"]
  /\ todo = [o \in Observers |-> {}]
  /\ current = [o \in Observers |-> {}]
  /\ delivered = [o \in Observers |-> {}]
  /\ failedContent = [o \in Observers |-> {}]
  /\ cycleError = [o \in Observers |-> FALSE]
  /\ lastError = [o \in Observers |-> TRUE]
  /\ listing = [o \in Observers |-> {}]
  /\ deliveryLog = [o \in Observers |-> <<>>]
  /\ partialDelivery = [o \in Observers |-> FALSE]
  /\ nextDeliverySequence = [o \in Observers |-> 0]

\* The observation worker's result is placed in the spool.
WriteSpoolFile(f) ==
  /\ f \notin spool
  /\ spool' = spool \cup {f}
  /\ UNCHANGED <<phase, todo, current, delivered, failedContent, cycleError,
                 lastError, listing, deliveryLog, partialDelivery,
                 nextDeliverySequence>>

\* run(): the next poll lists the spool directory.
StartScan(o) ==
  /\ phase[o] = "idle"
  /\ phase' = [phase EXCEPT ![o] = "scanning"]
  /\ todo' = [todo EXCEPT ![o] = Filed(o)]
  /\ listing' = [listing EXCEPT ![o] = Filed(o)]
  /\ cycleError' = [cycleError EXCEPT ![o] = FALSE]
  /\ UNCHANGED <<spool, current, delivered, failedContent, lastError,
                 nextDeliverySequence>>
  /\ UNCHANGED diskVars

\* The entry the loop has come to: the listing is sorted by name.
NextEntry(o, f) ==
  /\ phase[o] = "scanning" /\ f \in todo[o]
  /\ \A g \in todo[o] : NameRank[f] <= NameRank[g]

\* The entry is read, and the loop will go on to the next one.
Visit(o, f) ==
  /\ NextEntry(o, f) /\ f \notin Unreadable
  /\ todo' = [todo EXCEPT ![o] = @ \ {f}]

\* stat or readFile throws, outside the try block of the entry: scanOnce ends,
\* run() keeps the error, and no later entry of the listing is visited.
ScanThrows(o, f) ==
  /\ NextEntry(o, f)
  /\ phase' = [phase EXCEPT ![o] = "idle"]
  /\ todo' = [todo EXCEPT ![o] = {}]
  /\ lastError' = [lastError EXCEPT ![o] = TRUE]
  /\ UNCHANGED <<spool, current, delivered, failedContent, cycleError, listing,
                 nextDeliverySequence>>
  /\ UNCHANGED diskVars

\* Already delivered: the entry is skipped.
SkipDelivered(o, f) ==
  /\ Visit(o, f)
  /\ f \notin Unsendable /\ f \in delivered[o]
  /\ UNCHANGED <<phase, current, delivered, failedContent, cycleError,
                 nextDeliverySequence>>
  /\ UNCHANGED scanVars /\ UNCHANGED diskVars

\* Faulty variant: an entry that cannot be sent does not degrade the scan.
SkipFailedSilently(o, f) ==
  /\ Visit(o, f)
  /\ f \in Unsendable \/ (f \notin delivered[o] /\ f \in failedContent[o])
  /\ UNCHANGED <<phase, current, delivered, failedContent, cycleError,
                 nextDeliverySequence>>
  /\ UNCHANGED scanVars /\ UNCHANGED diskVars

\* Faulty variant: an entry that cannot be sent ends the scan.
SkipFailedThrows(o, f) ==
  /\ f \in Unsendable \/ (f \notin delivered[o] /\ f \in failedContent[o])
  /\ f \notin Unreadable /\ ScanThrows(o, f)

\* No use, or refused by the Collector before: the scan is in error and goes on.
SkipFailed(o, f) ==
  /\ Visit(o, f)
  /\ f \in Unsendable \/ (f \notin delivered[o] /\ f \in failedContent[o])
  /\ cycleError' = [cycleError EXCEPT ![o] = TRUE]
  /\ UNCHANGED <<phase, current, delivered, failedContent, nextDeliverySequence>>
  /\ UNCHANGED scanVars /\ UNCHANGED diskVars

\* The signed result is posted, and the scan awaits the response.
PostResult(o, f) ==
  /\ Visit(o, f)
  /\ f \notin Unsendable \cup delivered[o] \cup failedContent[o]
  /\ phase' = [phase EXCEPT ![o] = "posting"]
  /\ current' = [current EXCEPT ![o] = {f}]
  /\ UNCHANGED <<delivered, failedContent, cycleError, nextDeliverySequence>>
  /\ UNCHANGED scanVars /\ UNCHANGED diskVars

\* 200 or 201 with an ACCEPTED or DUPLICATE body.
Acknowledged(o) ==
  /\ phase[o] = "posting"
  /\ phase' = [phase EXCEPT ![o] = "recording"]
  /\ UNCHANGED <<todo, current, delivered, failedContent, cycleError,
                 nextDeliverySequence>>
  /\ UNCHANGED scanVars /\ UNCHANGED diskVars

\* The visit ends in the catch block; the scan goes on to the next entry.
FailVisit(o) ==
  /\ phase' = [phase EXCEPT ![o] = "scanning"]
  /\ current' = [current EXCEPT ![o] = {}]
  /\ cycleError' = [cycleError EXCEPT ![o] = TRUE]

\* HTTP 4xx other than 408 and 429: the content is not posted again by this
\* process.
RefusedForGood(o) ==
  /\ phase[o] = "posting"
  /\ FailVisit(o)
  /\ failedContent' = [failedContent EXCEPT ![o] = @ \cup current[o]]
  /\ UNCHANGED <<todo, delivered, nextDeliverySequence>>
  /\ UNCHANGED scanVars /\ UNCHANGED diskVars

\* Faulty variant: an HTTP error or a timeout counts as an acknowledgement.
ErrorAcknowledges(o) == Acknowledged(o)

\* Faulty variant: a transient failure is cached as a permanent one.
FailureCached(o) ==
  /\ phase[o] = "posting"
  /\ FailVisit(o)
  /\ failedContent' = [failedContent EXCEPT ![o] = @ \cup current[o]]
  /\ UNCHANGED <<todo, delivered, nextDeliverySequence>>
  /\ UNCHANGED scanVars /\ UNCHANGED diskVars

\* HTTP 5xx, a refused or reset connection, or the request timeout.
FailedForNow(o) ==
  /\ phase[o] = "posting"
  /\ FailVisit(o)
  /\ UNCHANGED <<todo, delivered, failedContent, nextDeliverySequence>>
  /\ UNCHANGED scanVars /\ UNCHANGED diskVars

\* What an append adds to the file, given how it ended.
AppendLine(o, f, landing) ==
  /\ deliveryLog' =
       IF landing = "whole"
       THEN [deliveryLog EXCEPT ![o] =
               Append(@, [delivery_sequence |-> nextDeliverySequence[o],
                          file |-> f, json |-> ~partialDelivery[o]])]
       ELSE deliveryLog
  /\ partialDelivery' =
       [partialDelivery EXCEPT ![o] = (landing = "partial") \/ (@ /\ landing # "whole")]

\* appendFile and sync succeed: only now is the result delivered in memory.
RecordDelivery(o) ==
  /\ phase[o] = "recording"
  /\ \E f \in current[o] : AppendLine(o, f, "whole")
  /\ delivered' = [delivered EXCEPT ![o] = @ \cup current[o]]
  /\ nextDeliverySequence' = [nextDeliverySequence EXCEPT ![o] = @ + 1]
  /\ failedContent' = [failedContent EXCEPT ![o] = @ \ current[o]]
  /\ phase' = [phase EXCEPT ![o] = "scanning"]
  /\ current' = [current EXCEPT ![o] = {}]
  /\ UNCHANGED <<todo, cycleError>>
  /\ UNCHANGED scanVars

\* appendFile or sync throws: memory is unchanged, and the runtime goes on.
FailRecord(o, landing) ==
  /\ phase[o] = "recording"
  /\ \E f \in current[o] : AppendLine(o, f, landing)
  /\ FailVisit(o)
  /\ UNCHANGED <<todo, delivered, failedContent, nextDeliverySequence>>
  /\ UNCHANGED scanVars

\* Every entry was visited: the outcome of the scan becomes the readiness.
EndScan(o) ==
  /\ phase[o] = "scanning" /\ todo[o] = {}
  /\ phase' = [phase EXCEPT ![o] = "idle"]
  /\ lastError' = [lastError EXCEPT ![o] = cycleError[o]]
  /\ UNCHANGED <<spool, todo, current, delivered, failedContent, cycleError,
                 listing, nextDeliverySequence>>
  /\ UNCHANGED diskVars

\* The process dies; an append in progress may have landed.
CrashObserver(o, landing) ==
  /\ phase[o] # "down"
  /\ IF phase[o] = "recording"
     THEN \E f \in current[o] : AppendLine(o, f, landing)
     ELSE landing = "nothing" /\ UNCHANGED diskVars
  /\ phase' = [phase EXCEPT ![o] = "down"]
  /\ todo' = [todo EXCEPT ![o] = {}]
  /\ current' = [current EXCEPT ![o] = {}]
  /\ delivered' = [delivered EXCEPT ![o] = {}]
  /\ failedContent' = [failedContent EXCEPT ![o] = {}]
  /\ cycleError' = [cycleError EXCEPT ![o] = FALSE]
  /\ lastError' = [lastError EXCEPT ![o] = TRUE]
  /\ listing' = [listing EXCEPT ![o] = {}]
  /\ nextDeliverySequence' = [nextDeliverySequence EXCEPT ![o] = 0]
  /\ UNCHANGED spool

RecordedFiles(o) == {deliveryLog[o][i].file : i \in 1..Len(deliveryLog[o])}

\* readDeliveryLog() and the duplicate check of open().
Reopens(o) ==
  /\ ~partialDelivery[o]
  /\ \A i \in 1..Len(deliveryLog[o]) :
        /\ deliveryLog[o][i].json
        /\ deliveryLog[o][i].delivery_sequence = i - 1
  /\ \A i, j \in 1..Len(deliveryLog[o]) :
        deliveryLog[o][i].file = deliveryLog[o][j].file => i = j

\* Faulty variant: the receipts of the delivery log are not loaded.
OpenRuntimeForgetting(o) ==
  /\ phase[o] = "down" /\ Reopens(o)
  /\ phase' = [phase EXCEPT ![o] = "idle"]
  /\ nextDeliverySequence' = [nextDeliverySequence EXCEPT ![o] = Len(deliveryLog[o])]
  /\ UNCHANGED <<spool, todo, current, delivered, failedContent, cycleError, lastError,
                 listing>>
  /\ UNCHANGED diskVars

OpenRuntime(o) ==
  /\ phase[o] = "down" /\ Reopens(o)
  /\ phase' = [phase EXCEPT ![o] = "idle"]
  /\ delivered' = [delivered EXCEPT ![o] = RecordedFiles(o)]
  /\ nextDeliverySequence' = [nextDeliverySequence EXCEPT ![o] = Len(deliveryLog[o])]
  /\ UNCHANGED <<spool, todo, current, failedContent, cycleError, lastError, listing>>
  /\ UNCHANGED diskVars

\* GET /ready answers 200.
Ready(o) == phase[o] # "down" /\ ~lastError[o]
=============================================================================
