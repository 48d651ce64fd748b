--------------------------- MODULE GrantAcceptance ---------------------------
(***************************************************************************)
(* The acceptance of a signed experiment plan (scripts/lib/                *)
(* grant-m1-acceptance.mjs): the evidence of every planned unit -- its     *)
(* assignment, the raw polls, the signed result, the delivery receipts --  *)
(* is copied from the observers file by file, while they may still work,   *)
(* assembled into one bundle                                               *)
(* (scripts/assemble-grant-m1-final-acceptance.mjs), and the verdict       *)
(* recomputes every result from its raw polls.  The assembly takes one     *)
(* unit of every observer, so a unit stands for its observer.  A poll is   *)
(* kept as what its three claims amount to.                                *)
(***************************************************************************)
EXTENDS Naturals, Sequences, FiniteSets

CONSTANTS
  PlannedUnits,        \* the units of the signed plan, one per observer
  Finished,            \* units whose evidence is complete, FINALIZED, at first
  AssignmentLifetime,  \* expiresAt - issuedAt
  WorkerDeadline,      \* observationDeadlineMs
  CampaignEnd,         \* bound: the time stops here
  CampaignTroubles     \* bound: deaths, redeliveries, forks

\* What the gate demands of every assignment: it ends after it was issued.
ValidAssignment == AssignmentLifetime \in Nat \ {0} /\ WorkerDeadline \in Nat

ASSUME AcceptanceAssumption ==
  /\ ValidAssignment /\ Finished \subseteq PlannedUnits
  /\ {CampaignEnd, CampaignTroubles} \subseteq Nat

VARIABLES
  today,      \* the time
  landed,     \* per unit, the transaction: "absent", "seen", "final", "failed"
  overdue,    \* units whose transaction may no longer land
  assigned,   \* per unit: issuedAt, or NotYet
  rawPolls,   \* per unit: the raw log
  results,    \* per unit: the signed result, or NotYet
  dead,       \* units whose worker died: the raw log admits no second one
  receipts,   \* per unit: the statuses in the delivery log
  copies,     \* per unit: which of its files are copied, and what they said then
  assembled,  \* the copies are in one bundle, with its index
  gate,       \* the verdict: "none", "PASS" or "REFUSED"
  campaignTroubles

campaignVars == <<today, landed, overdue, assigned, rawPolls, results, dead, receipts,
                  copies, assembled, gate, campaignTroubles>>
unitVars == <<today, landed, overdue, assigned, rawPolls, results, dead, receipts>>
bundleVars == <<copies, assembled, gate>>

NotYet == [never |-> TRUE]

----------------------------------------------------------------------------
(* What three claims amount to: nothing seen, something seen but no quorum *)
(* of finality or failure, such a quorum, or two clean negatives past the  *)
(* lifetime with nothing seen.                                             *)

\* With one reader that lies and requests that fail.
UnitClaims(u) ==
  {"nothing", "seen"}
    \union (IF landed[u] = "final" THEN {"final"} ELSE {})
    \union (IF landed[u] = "failed" THEN {"failed"} ELSE {})
    \union (IF landed[u] = "absent" /\ u \in overdue THEN {"past"} ELSE {})

\* Faulty variant: the worker forgets what earlier polls saw.
QuorumDecisionForgetful(claims, seenBefore) ==
  CASE claims = "final" -> "FINALIZED"
    [] claims = "failed" -> "OBSERVED_EXECUTION_FAILED"
    [] claims = "past" -> "EXPIRED"
    [] OTHER -> "undecided"

\* evaluateReaderClaimQuorum, as the worker calls it.
QuorumDecision(claims, seenBefore) ==
  CASE claims = "final" -> "FINALIZED"
    [] claims = "failed" -> "OBSERVED_EXECUTION_FAILED"
    [] claims = "past" /\ ~seenBefore -> "EXPIRED"
    [] OTHER -> "undecided"

Sightings == {"seen", "final", "failed"}
SeenIn(polls) == \E i \in DOMAIN polls : polls[i].claims \in Sightings

----------------------------------------------------------------------------
(* The campaign.                                                           *)

\* The evidence of a unit that is finished, or not begun.
AtFirst(finished, begun) == [u \in PlannedUnits |-> IF u \in Finished THEN finished ELSE begun]

UnitFiles == {"raw", "result", "delivery"}

NothingCopied ==
  [u \in PlannedUnits |-> [files |-> {}, polls |-> <<>>, result |-> NotYet, receipts |-> <<>>]]

CampaignInit ==
  /\ today = 0 /\ overdue = {} /\ dead = {}
  /\ landed = AtFirst("final", "absent")
  /\ assigned = AtFirst([at |-> 0], NotYet)
  /\ rawPolls = AtFirst(<<[at |-> 0, claims |-> "final"]>>, <<>>)
  /\ results = AtFirst([at |-> 0, terminal |-> "FINALIZED"], NotYet)
  /\ receipts = AtFirst(<<"ACCEPTED">>, <<>>)
  /\ copies = NothingCopied /\ assembled = FALSE /\ gate = "none"
  /\ campaignTroubles = CampaignTroubles

Trouble == campaignTroubles > 0 /\ campaignTroubles' = campaignTroubles - 1

Working(u) == assigned[u] # NotYet /\ results[u] = NotYet /\ u \notin dead

\* The authority signs the unit's assignment.
UnitAssigned(u) ==
  /\ assigned[u] = NotYet /\ assigned' = [assigned EXCEPT ![u] = [at |-> today]]
  /\ UNCHANGED <<today, landed, overdue, rawPolls, results, dead, receipts, campaignTroubles>>
  /\ UNCHANGED bundleVars

Undecided(u) ==
  LET polls == rawPolls[u]
  IN  polls # <<>> => QuorumDecision(polls[Len(polls)].claims, SeenIn(polls)) = "undecided"

\* The worker checks the assignment's lifetime before its first poll only.
UnitPolled(u) ==
  /\ Working(u) /\ Undecided(u)
  /\ rawPolls[u] = <<>> => today <= assigned[u].at + AssignmentLifetime
  /\ rawPolls[u] # <<>> => rawPolls[u][Len(rawPolls[u])].at < today
  /\ \E claims \in UnitClaims(u) :
       rawPolls' = [rawPolls EXCEPT ![u] = Append(@, [at |-> today, claims |-> claims])]
  /\ UNCHANGED <<today, landed, overdue, assigned, results, dead, receipts, campaignTroubles>>
  /\ UNCHANGED bundleVars

\* A quorum, or the deadline with whatever the last poll says.
UnitConcluded(u) ==
  /\ Working(u) /\ rawPolls[u] # <<>>
  /\ LET polls == rawPolls[u]
         last == polls[Len(polls)].claims
         decision == QuorumDecision(last, SeenIn(polls))
     IN  \E terminal \in IF decision # "undecided" THEN {decision}
                         ELSE IF last = "seen" THEN {"CONFIRMED", "OBSERVATION_INCONCLUSIVE"}
                         ELSE {"OBSERVATION_INCONCLUSIVE"} :
           /\ decision = "undecided" => today - polls[1].at >= WorkerDeadline
           /\ results' = [results EXCEPT ![u] = [at |-> today, terminal |-> terminal]]
  /\ UNCHANGED <<today, landed, overdue, assigned, rawPolls, dead, receipts, campaignTroubles>>
  /\ UNCHANGED bundleVars

WorkerLost(u) ==
  /\ Working(u) /\ Trouble /\ dead' = dead \union {u}
  /\ UNCHANGED <<today, landed, overdue, assigned, rawPolls, results, receipts>>
  /\ UNCHANGED bundleVars

\* The observer delivers the result once: its line says DUPLICATE when a crash
\* or a timeout hid the first answer from the runtime.
UnitDelivered(u) ==
  /\ results[u] # NotYet /\ receipts[u] = <<>>
  /\ \/ receipts' = [receipts EXCEPT ![u] = <<"ACCEPTED">>] /\ UNCHANGED campaignTroubles
     \/ receipts' = [receipts EXCEPT ![u] = <<"DUPLICATE">>] /\ Trouble
  /\ UNCHANGED <<today, landed, overdue, assigned, rawPolls, results, dead>>
  /\ UNCHANGED bundleVars

\* The ledger: a transaction lands, is finalized, fails, is dropped by a fork,
\* or can no longer land; where a worker looks.
LedgerProceeds(u) ==
  /\ Working(u)
  /\ \/ /\ landed[u] = "absent" /\ u \notin overdue
        /\ landed' = [landed EXCEPT ![u] = "seen"] /\ UNCHANGED <<overdue, campaignTroubles>>
     \/ /\ landed[u] = "seen"
        /\ \E outcome \in {"final", "failed"} : landed' = [landed EXCEPT ![u] = outcome]
        /\ UNCHANGED <<overdue, campaignTroubles>>
     \/ /\ landed[u] = "seen" /\ Trouble
        /\ landed' = [landed EXCEPT ![u] = "absent"] /\ UNCHANGED overdue
     \/ /\ landed[u] = "absent" /\ u \notin overdue
        /\ overdue' = overdue \union {u} /\ UNCHANGED <<landed, campaignTroubles>>
  /\ UNCHANGED <<today, assigned, rawPolls, results, dead, receipts>>
  /\ UNCHANGED bundleVars

CampaignTick ==
  /\ today < CampaignEnd /\ today' = today + 1
  /\ UNCHANGED <<landed, overdue, assigned, rawPolls, results, dead, receipts, campaignTroubles>>
  /\ UNCHANGED bundleVars

\* The operator copies one file of one observer, as it is by now.  The signed
\* assignment and the result are written once and whole, so a copy of them is
\* the file itself; the raw log and the delivery log grow.
FileCopied(u, file) ==
  /\ ~assembled /\ file \notin copies[u].files
  /\ assigned[u] # NotYet /\ (file = "result" => results[u] # NotYet)
  /\ copies' = [copies EXCEPT ![u] =
       [files    |-> @.files \union {file},
        polls    |-> IF file = "raw" THEN rawPolls[u] ELSE @.polls,
        result   |-> IF file = "result" THEN results[u] ELSE @.result,
        receipts |-> IF file = "delivery" THEN receipts[u] ELSE @.receipts]]
  /\ UNCHANGED <<assembled, gate, campaignTroubles>> /\ UNCHANGED unitVars

----------------------------------------------------------------------------
(* The assembly and the verdict.                                        *)

\* Every file of every unit of the plan is there.
PlanIsCovered == \A u \in PlannedUnits : copies[u].files = UnitFiles

\* The assembly takes ACCEPTED receipts only and does not look into the raw
\* logs; when it refuses, the operator copies everything again, for an output
\* that does not exist yet.
Assembled ==
  /\ ~assembled /\ PlanIsCovered
  /\ IF \A u \in PlannedUnits : copies[u].receipts # <<>> /\ copies[u].receipts[1] = "ACCEPTED"
     THEN assembled' = TRUE /\ UNCHANGED copies
     ELSE copies' = NothingCopied /\ UNCHANGED assembled
  /\ UNCHANGED <<gate, campaignTroubles>> /\ UNCHANGED unitVars

\* Every observer has a FINALIZED result.
EveryUnitFinalized == \A u \in PlannedUnits : copies[u].result.terminal = "FINALIZED"

\* Polls and result lie inside the assignment's window.
InsideWindow(u) ==
  LET window == assigned[u].at .. (assigned[u].at + AssignmentLifetime)
  IN  copies[u].result.at \in window
      /\ \A i \in DOMAIN copies[u].polls : copies[u].polls[i].at \in window

\* Every poll is judged alone; a negative after a sighting refuses the result,
\* and so does a result no quorum ended.
RecomputedFromPolls(u) ==
  LET polls == copies[u].polls
      alone(i) == QuorumDecision(polls[i].claims, FALSE)
  IN  /\ polls # <<>>
      /\ \A i \in DOMAIN polls :
           /\ ~(alone(i) = "EXPIRED" /\ SeenIn(SubSeq(polls, 1, i)))
           /\ alone(i) # "undecided" => i = Len(polls)
      /\ alone(Len(polls)) # "undecided"
      /\ alone(Len(polls)) = copies[u].result.terminal

Accepted ==
  /\ PlanIsCovered /\ EveryUnitFinalized
  /\ \A u \in PlannedUnits : InsideWindow(u) /\ RecomputedFromPolls(u)

VerdictGiven ==
  /\ assembled /\ gate = "none"
  /\ gate' = IF Accepted THEN "PASS" ELSE "REFUSED"
  /\ UNCHANGED <<copies, assembled, campaignTroubles>> /\ UNCHANGED unitVars

CampaignNext ==
  \/ CampaignTick \/ Assembled \/ VerdictGiven
  \/ \E u \in PlannedUnits :
       \/ UnitAssigned(u) \/ UnitPolled(u) \/ UnitConcluded(u) \/ WorkerLost(u)
       \/ UnitDelivered(u) \/ LedgerProceeds(u)
       \/ \E file \in UnitFiles : FileCopied(u, file)

CampaignSpec == CampaignInit /\ [][CampaignNext]_campaignVars

----------------------------------------------------------------------------
(* Properties.                                                             *)

UnitTerminals == {"FINALIZED", "OBSERVED_EXECUTION_FAILED", "EXPIRED", "CONFIRMED",
                  "OBSERVATION_INCONCLUSIVE"}

\* Every variable keeps its type.
CampaignTypeOK ==
  /\ today \in 0 .. CampaignEnd /\ overdue \union dead \subseteq PlannedUnits
  /\ landed \in [PlannedUnits -> {"absent", "seen", "final", "failed"}]
  /\ \A u \in PlannedUnits : results[u] # NotYet =>
       results[u].terminal \in UnitTerminals /\ results[u].at \in 0 .. CampaignEnd
  /\ \A u \in PlannedUnits : copies[u].files \subseteq UnitFiles
  /\ assembled \in BOOLEAN /\ gate \in {"none", "PASS", "REFUSED"}
  /\ campaignTroubles \in 0 .. CampaignTroubles

\* What passes is true of the ledger and of the Collector, unit by unit,
\* whenever the files were copied and whatever one reader claimed.
PassIsTrue ==
  gate = "PASS" =>
    \A u \in PlannedUnits :
      landed[u] = "final" /\ receipts[u] = <<"ACCEPTED">>

\* The recomputation agrees with the worker: of a whole raw log it refuses
\* exactly the results that only a deadline decided, although it judges every
\* poll without the history the worker keeps; a log copied before its worker
\* was done it always refuses, whatever result is copied with it.
RecomputationAgrees ==
  \A u \in PlannedUnits : {"raw", "result"} \subseteq copies[u].files =>
    (RecomputedFromPolls(u) <=>
       /\ copies[u].polls = rawPolls[u]
       /\ copies[u].result.terminal \notin {"CONFIRMED", "OBSERVATION_INCONCLUSIVE"})

\* A bundle is refused for its observations -- some unit was not finalized, or
\* was observed outside its assignment's window -- or because a raw log was
\* copied before its worker was done and the result after, which the assembly
\* does not notice.
RefusalHasItsCause ==
  gate = "REFUSED" =>
    \E u \in PlannedUnits :
      \/ results[u].terminal # "FINALIZED"
      \/ results[u].at > assigned[u].at + AssignmentLifetime
      \/ copies[u].polls # rawPolls[u]

\* Acceptance of the plan as a whole.
AcceptanceIsEarned == PassIsTrue /\ RecomputationAgrees /\ RefusalHasItsCause
=============================================================================
