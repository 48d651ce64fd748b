--------------------------- MODULE AnalysisWindow ---------------------------
(***************************************************************************)
(* One controlled window, from the execution of its randomized plan        *)
(* (packages/probes/src/execution.ts, randomization.ts) to the             *)
(* classification of its routes (packages/analysis/src/engine.ts).  A cell *)
(* keeps counts: which probe gave which outcome does not matter to the     *)
(* analysis.  Rates are compared as fractions; the code rounds them to six *)
(* digits first.                                                           *)
(***************************************************************************)
EXTENDS Integers, FiniteSets

CONSTANTS
  WindowRoutes,     \* definition.routeIds
  ProbeCount,       \* definition.probeIndices, as a number
  MinimumComplete,  \* 30 in the code
  StrongComplete,   \* 60
  MaxInconclusive,  \* 10, in percent as the rest
  HealthyRate,      \* 90
  DegradedRate,     \* 40
  AsymmetricRate,   \* 20
  HealthyGap, DegradedGap, AsymmetricGap  \* 10, 20, 60

\* A window compares at least two routes over at least one probe index.
ValidDefinition ==
  /\ IsFiniteSet(WindowRoutes) /\ Cardinality(WindowRoutes) >= 2
  /\ ProbeCount \in Nat \ {0}

ASSUME WindowAssumption ==
  /\ ValidDefinition
  /\ {MinimumComplete, StrongComplete} \subseteq Nat \ {0}
  /\ {MaxInconclusive, HealthyRate, DegradedRate, AsymmetricRate,
      HealthyGap, DegradedGap, AsymmetricGap} \subseteq 0..100
  \* as far apart as in the code: 40 and 10 are below 90
  /\ DegradedRate + MaxInconclusive < HealthyRate
  /\ AsymmetricRate + MaxInconclusive < HealthyRate

VARIABLES
  remaining,  \* the units of the probe index under way still to be executed
  groupsLeft, \* the probe indices whose units have not started
  cells       \* the counts of every route and class

windowVars == <<remaining, groupsLeft, cells>>

Classes == {"MATCHED_CONTROL", "PROGRAM_X"}
Units == WindowRoutes \X Classes
NoMeasurement == [success |-> 0, failure |-> 0, inconclusive |-> 0]

\* The measurements of a cell that are valid and not inconclusive, or only valid.
CompleteCount(c) == c.success + c.failure + c.inconclusive
AtMost(c, percent) == 100 * c.success <= percent * CompleteCount(c)
AtLeast(c, percent) == 100 * c.success >= percent * CompleteCount(c)
Inconclusive(c) == 100 * c.inconclusive > MaxInconclusive * CompleteCount(c)

\* successRate of the first minus that of the second, against a percentage.
Exceeds(c, d, percent) ==
  100 * (c.success * CompleteCount(d) - d.success * CompleteCount(c))
    > percent * CompleteCount(c) * CompleteCount(d)
Reaches(c, d, percent) ==
  100 * (c.success * CompleteCount(d) - d.success * CompleteCount(c))
    >= percent * CompleteCount(c) * CompleteCount(d)
GapAbove(c, d, percent) == Exceeds(c, d, percent) \/ Exceeds(d, c, percent)

\* cell(): a route's counts of the control and of the program under test.
ControlCell(counts, route) == counts[<<route, "MATCHED_CONTROL">>]
TestCell(counts, route) == counts[<<route, "PROGRAM_X">>]

\* Leave-one-route-out: the PROGRAM_X cells of the other routes with enough data.
Eligible(counts, route) ==
  {r \in WindowRoutes \ {route} :
     /\ CompleteCount(TestCell(counts, r)) >= MinimumComplete
     /\ ~Inconclusive(TestCell(counts, r))}

\* Faulty variant: the route is compared with its own control, which it has to be
\* better than anyway.
PeerBaselineOfControl(counts, route) == ControlCell(counts, route)

\* The sum of a count over any set of routes: Array.reduce, in some order.
TotalOver(count) ==
  LET total[S \in SUBSET WindowRoutes] ==
        IF S = {} THEN 0
        ELSE LET one == CHOOSE r \in S : TRUE IN count[one] + total[S \ {one}]
  IN  total

PeerBaseline(counts, route) ==
  [outcome \in DOMAIN NoMeasurement |->
     TotalOver([r \in WindowRoutes |-> TestCell(counts, r)[outcome]])[Eligible(counts, route)]]

\* Faulty variant: inconclusive outcomes are not looked at again.
ConclusiveAnyway(c) == TRUE

Conclusive(c) == ~Inconclusive(c)

Degraded(control, test) ==
  AtMost(control, DegradedRate) /\ AtMost(test, DegradedRate) /\ ~GapAbove(control, test, DegradedGap)

Asymmetric(control, test, peers) ==
  /\ AtLeast(control, HealthyRate) /\ AtMost(test, AsymmetricRate)
  /\ CompleteCount(peers) > 0 /\ AtLeast(peers, HealthyRate)
  /\ Reaches(control, test, AsymmetricGap) /\ Reaches(peers, test, AsymmetricGap)

Healthy(control, test) ==
  AtLeast(control, HealthyRate) /\ AtLeast(test, HealthyRate) /\ ~GapAbove(control, test, HealthyGap)

\* classifyRoute(): the first that applies.
Classification(counts, route) ==
  LET control == ControlCell(counts, route)
      test == TestCell(counts, route)
  IN IF \E c \in {control, test} : CompleteCount(c) < MinimumComplete THEN "INSUFFICIENT_DATA"
     ELSE IF ~Conclusive(control) \/ ~Conclusive(test) THEN "UNKNOWN"
     ELSE IF Degraded(control, test) THEN "DEGRADED"
     ELSE IF Asymmetric(control, test, PeerBaseline(counts, route)) THEN "ASYMMETRIC"
     ELSE IF Healthy(control, test) THEN "HEALTHY"
     ELSE "UNKNOWN"

EvidenceStrength(counts, route) ==
  LET class == Classification(counts, route)
      peers == IF class = "ASYMMETRIC" THEN Eligible(counts, route) ELSE {}
      counted == {ControlCell(counts, route), TestCell(counts, route)} \cup {TestCell(counts, r) : r \in peers}
  IN CASE class = "INSUFFICIENT_DATA" -> "INSUFFICIENT"
       [] class = "UNKNOWN" -> "NONE"
       [] OTHER -> IF \A c \in counted : CompleteCount(c) >= StrongComplete
                   THEN "STRONG_CONTROLLED" ELSE "LIMITED"

WindowInit ==
  /\ remaining = {} /\ groupsLeft = ProbeCount
  /\ cells = [u \in Units |-> NoMeasurement]

\* The plan goes through the probe indices in some order, and through the units
\* of one in some order; every unit is executed once.
NextGroup ==
  /\ remaining = {} /\ groupsLeft > 0
  /\ remaining' = Units /\ groupsLeft' = groupsLeft - 1
  /\ UNCHANGED cells

\* A failed execution and an invalid matching leave no measurement in the cell.
ExecuteUnit ==
  \E u \in remaining :
    /\ remaining' = remaining \ {u} /\ UNCHANGED groupsLeft
    /\ \/ UNCHANGED cells
       \/ \E outcome \in DOMAIN NoMeasurement : cells' = [cells EXCEPT ![u][outcome] = @ + 1]

WindowNext == NextGroup \/ ExecuteUnit
WindowSpec == WindowInit /\ [][WindowNext]_windowVars

-----------------------------------------------------------------------------
WindowTypeOK ==
  /\ remaining \subseteq Units /\ groupsLeft \in 0..ProbeCount
  /\ \A u \in Units : CompleteCount(cells[u]) <= ProbeCount

\* What a cell may turn out to be once its inconclusive units are known.
Resolved(c) ==
  {[success |-> c.success + k, failure |-> c.failure + c.inconclusive - k, inconclusive |-> 0] :
     k \in 0..c.inconclusive}

\* The inconclusive units could not turn a classification into its opposite: a
\* route called HEALTHY is neither DEGRADED nor ASYMMETRIC however they ended, and
\* a route called either of these is not HEALTHY.
InconclusiveNeverFlips ==
  \A route \in WindowRoutes :
    LET class == Classification(cells, route)
    IN \A control \in Resolved(ControlCell(cells, route)),
          test \in Resolved(TestCell(cells, route)) :
         LET known == [cells EXCEPT ![<<route, "MATCHED_CONTROL">>] = control,
                                    ![<<route, "PROGRAM_X">>] = test]
         IN /\ class = "HEALTHY" => Classification(known, route) \notin {"DEGRADED", "ASYMMETRIC"}
            /\ class \in {"DEGRADED", "ASYMMETRIC"} => Classification(known, route) # "HEALTHY"

\* A program that fails on every route is no route's fault: a route is called
\* ASYMMETRIC only if the program works on another one, so never all of them, and
\* strong evidence has at least that much data behind every number it rests on.
SomebodyCarriesTheProgram ==
  \A route \in WindowRoutes :
    Classification(cells, route) = "ASYMMETRIC" =>
      \E peer \in WindowRoutes \ {route} :
        /\ AtLeast(TestCell(cells, peer), HealthyRate)
        /\ Classification(cells, peer) # "ASYMMETRIC"
        /\ EvidenceStrength(cells, route) = "STRONG_CONTROLLED"
             => CompleteCount(TestCell(cells, peer)) >= StrongComplete

\* What a classification stands for, after any part of the plan.
ClassificationIsSound == InconclusiveNeverFlips /\ SomebodyCarriesTheProgram
=============================================================================
