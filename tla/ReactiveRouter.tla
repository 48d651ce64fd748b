--------------------------- MODULE ReactiveRouter ---------------------------
(***************************************************************************)
(* One call of ReactiveRouter.route() (packages/sdk/src/router.ts): the    *)
(* same signed transaction is tried over ordered routes, each step bounded *)
(* by its own timeout and by what is left of the deadline, and only an     *)
(* observation two readers support concludes it.  Submitter, observer and  *)
(* telemetry hook are callbacks of the application; a submission that      *)
(* timed out or was refused may still land.  Computation takes no time and *)
(* timers are punctual: time passes only while a callback runs.            *)
(***************************************************************************)
EXTENDS Naturals, Sequences, FiniteSets

CONSTANTS
  ConfiguredRoutes,    \* the first maxRoutes of options.routes
  Readers,             \* the reader ids of the independent observer
  LyingReaders,        \* readers whose claims may be false
  Stranger,            \* a reader id that is not configured
  RouteTimeout, ObservationTimeout, HookTimeout, Deadline  \* the policy

RequiredQuorum == 2

RouteIds == {ConfiguredRoutes[i] : i \in DOMAIN ConfiguredRoutes}

\* The constructor refuses every other configuration.
ValidOptions ==
  /\ ConfiguredRoutes \in Seq(RouteIds) /\ ConfiguredRoutes # <<>>
  /\ \A i, j \in DOMAIN ConfiguredRoutes :
       ConfiguredRoutes[i] = ConfiguredRoutes[j] => i = j
  /\ IsFiniteSet(Readers) /\ Cardinality(Readers) = 3
  /\ {RouteTimeout, ObservationTimeout, HookTimeout, Deadline} \subseteq Nat \ {0}

ASSUME RouterAssumption ==
  ValidOptions /\ LyingReaders \subseteq Readers /\ Stranger \notin Readers

VARIABLES
  routerPc,    \* where the call stands
  hooking,     \* it waits for the telemetry hook of the event emitted last
  elapsed,     \* the monotonic clock since startedAt
  alarm,       \* when the timer of the running callback fires
  avoided,     \* routes the intelligence source says to avoid
  order,       \* selectedRoutes
  index,       \* position in the loop
  visited,     \* visited
  calls,       \* history: the routes handed to the submitter, in order
  attempts,    \* attempts: one trace per attempt ended
  finalState,  \* the result, "NONE" before
  ledger       \* what became of the transaction

routerVars == <<routerPc, hooking, elapsed, alarm, avoided, order, index, visited,
                calls, attempts, finalState, ledger>>

Conclusive == {"CONFIRMED", "FINALIZED", "OBSERVED_EXECUTION_FAILED", "EXPIRED"}

Remaining == IF elapsed < Deadline THEN Deadline - elapsed ELSE 0
Bounded(timeout) == IF timeout < Remaining THEN timeout ELSE Remaining

----------------------------------------------------------------------------
(* Pure parts: the order of the routes and the check of an observation.    *)

\* The configured routes of a set, in their order: Array.filter, written as a
\* recursive function because the provers have no rule for SelectSeq.
RoutesIn(S) ==
  LET kept[n \in 0 .. Len(ConfiguredRoutes)] ==
        IF n = 0 THEN <<>>
        ELSE IF ConfiguredRoutes[n] \in S THEN Append(kept[n - 1], ConfiguredRoutes[n])
        ELSE kept[n - 1]
  IN  kept[Len(ConfiguredRoutes)]

\* Faulty variant: an avoided route is dropped, not tried last.
SelectRoutesWithoutLastResort(avoid) == RoutesIn(RouteIds \ avoid)

\* Avoided routes are tried last, in their configured order.
SelectRoutes(avoid) == RoutesIn(RouteIds \ avoid) \o RoutesIn(avoid)

\* Faulty variant: a reader listed twice counts twice.
ValidObservationByLength(supporters) ==
  /\ Len(supporters) >= RequiredQuorum
  /\ {supporters[i] : i \in DOMAIN supporters} \subseteq Readers

ValidObservation(supporters) ==
  LET distinct == {supporters[i] : i \in DOMAIN supporters}
  IN  Cardinality(distinct) >= RequiredQuorum /\ distinct \subseteq Readers

\* What a reader that does not lie may claim.
TrueOfLedger(state) ==
  CASE state \in {"CONFIRMED", "FINALIZED"} -> ledger = "landed"
    [] state = "OBSERVED_EXECUTION_FAILED" -> ledger = "failed"
    [] state = "EXPIRED" -> ledger = "expired"
    [] OTHER -> TRUE

\* What observe() may return now: only liars and strangers claim falsely.
Observations ==
  {o \in [state : Conclusive \union {"OBSERVATION_INCONCLUSIVE"},
          supporters : UNION {[1 .. n -> Readers \union {Stranger}] : n \in 0 .. RequiredQuorum}] :
     TrueOfLedger(o.state)
       \/ \A i \in DOMAIN o.supporters : o.supporters[i] \in LyingReaders \union {Stranger}}

----------------------------------------------------------------------------
(* The call.                                                               *)

RouterInit ==
  /\ routerPc = "idle" /\ hooking = FALSE
  /\ elapsed = 0 /\ alarm = 0
  /\ avoided = {} /\ order = <<>> /\ index = 1
  /\ visited = {} /\ calls = <<>> /\ attempts = <<>>
  /\ finalState = "NONE" /\ ledger = "unseen"

\* Faulty variant: the hook gets its own timeout whatever is left.
EmitUnbounded(next) ==
  /\ routerPc' = next /\ hooking' = TRUE
  /\ alarm' = elapsed + HookTimeout

\* emit(): the event is recorded, its hook awaited, then the code at `next`.
Emit(next) ==
  /\ routerPc' = next /\ hooking' = TRUE
  /\ alarm' = elapsed + Bounded(HookTimeout)

\* The hook settles, throws, or its timer fires.
HookSettles ==
  /\ hooking
  /\ hooking' = FALSE
  /\ UNCHANGED <<routerPc, elapsed, alarm, avoided, order, index, visited, calls,
                 attempts, finalState, ledger>>

\* The call reads its decisions once; without a context nothing is avoided,
\* and a source that throws or answers nonsense avoids nothing.
RouteCalled ==
  /\ routerPc = "idle"
  /\ \/ Emit("loop") /\ avoided' = {}
     \/ Emit("informed") /\ avoided' \in SUBSET RouteIds
  /\ order' = SelectRoutes(avoided')
  /\ UNCHANGED <<elapsed, index, visited, calls, attempts, finalState, ledger>>

At(pc) == routerPc = pc /\ ~hooking

OrderReported ==
  /\ At("informed")
  /\ Emit("loop")
  /\ UNCHANGED <<elapsed, avoided, order, index, visited, calls, attempts, finalState, ledger>>

AttemptStarts ==
  /\ At("loop") /\ index <= Len(order) /\ Remaining > 0
  /\ order[index] \notin visited
  /\ visited' = visited \union {order[index]}
  /\ Emit("submit")
  /\ UNCHANGED <<elapsed, avoided, order, index, calls, attempts, finalState, ledger>>

\* The deadline before an attempt, or no route left.
RoutingEnds ==
  /\ At("loop")
  /\ index > Len(order) \/ Remaining = 0
  /\ finalState' = "OBSERVATION_INCONCLUSIVE"
  /\ Emit("done")
  /\ UNCHANGED <<elapsed, avoided, order, index, visited, calls, attempts, ledger>>

\* Faulty variant: the submitter is called with whatever time is left.
SubmitAnyway ==
  /\ At("submit")
  /\ routerPc' = "submitting" /\ alarm' = elapsed + Bounded(RouteTimeout)
  /\ calls' = Append(calls, order[index])
  /\ UNCHANGED <<hooking, elapsed, avoided, order, index, visited, attempts, finalState, ledger>>

\* runBounded calls the submitter only if time is left.
Submit ==
  /\ At("submit") /\ Remaining > 0
  /\ routerPc' = "submitting" /\ alarm' = elapsed + Bounded(RouteTimeout)
  /\ calls' = Append(calls, order[index])
  /\ UNCHANGED <<hooking, elapsed, avoided, order, index, visited, attempts, finalState, ledger>>

\* An attempt is traced, its event emitted.
AttemptEnds(submission, observation, next) ==
  /\ attempts' = Append(attempts, [route |-> order[index], submission |-> submission,
                                   observation |-> observation])
  /\ Emit(next)
  /\ UNCHANGED <<elapsed, avoided, order, index, visited, calls, ledger>>

\* Faulty variant: the timer of a running submission is never armed.
SubmissionTimesOutUpFront ==
  /\ At("submit") /\ Remaining = 0
  /\ AttemptEnds("TIMED_OUT", "NONE", "fallback")
  /\ UNCHANGED finalState

SubmissionTimesOut ==
  /\ \/ At("submit") /\ Remaining = 0
     \/ routerPc = "submitting" /\ elapsed >= alarm
  /\ AttemptEnds("TIMED_OUT", "NONE", "fallback")
  /\ UNCHANGED finalState

\* A thrown error, a refusal, or another signature returned.
SubmissionRejected ==
  /\ routerPc = "submitting"
  /\ AttemptEnds("RPC_REJECTED", "NONE", "fallback")
  /\ UNCHANGED finalState

\* Two events: the acknowledgment, and the observation that starts.
SubmissionAcknowledged ==
  /\ \/ routerPc = "submitting" /\ Emit("announce")
     \/ At("announce") /\ Emit("observe")
  /\ UNCHANGED <<elapsed, avoided, order, index, visited, calls, attempts, finalState, ledger>>

Observe ==
  /\ At("observe") /\ Remaining > 0
  /\ routerPc' = "observing" /\ alarm' = elapsed + Bounded(ObservationTimeout)
  /\ UNCHANGED <<hooking, elapsed, avoided, order, index, visited, calls, attempts,
                 finalState, ledger>>

\* A timeout, a thrown error, or no time left to ask.
ObservationTimesOut ==
  /\ \/ At("observe") /\ Remaining = 0
     \/ routerPc = "observing"
  /\ AttemptEnds("RPC_ACKNOWLEDGED", "TIMED_OUT", "fallback")
  /\ UNCHANGED finalState

ObservationAnswers ==
  /\ routerPc = "observing"
  /\ \E o \in Observations :
       IF ValidObservation(o.supporters) /\ o.state \in Conclusive
       THEN /\ AttemptEnds("RPC_ACKNOWLEDGED", o.state, "conclude")
            /\ finalState' = o.state
       ELSE /\ AttemptEnds("RPC_ACKNOWLEDGED", "OBSERVATION_INCONCLUSIVE", "fallback")
            /\ UNCHANGED finalState

\* ROUTING_CONFIRMED or ROUTING_TERMINAL_FAILURE.
ConclusionReported ==
  /\ At("conclude")
  /\ Emit("done")
  /\ UNCHANGED <<elapsed, avoided, order, index, visited, calls, attempts, finalState, ledger>>

\* FALLBACK_SELECTED is emitted if there is a next route and time for it.
FallBack ==
  /\ At("fallback")
  /\ index' = index + 1
  /\ IF index < Len(order) /\ Remaining > 0
     THEN Emit("loop")
     ELSE routerPc' = "loop" /\ UNCHANGED <<hooking, alarm>>
  /\ UNCHANGED <<elapsed, avoided, order, visited, calls, attempts, finalState, ledger>>

RouteReturns ==
  /\ At("done")
  /\ routerPc' = "returned"
  /\ UNCHANGED <<hooking, elapsed, alarm, avoided, order, index, visited, calls,
                 attempts, finalState, ledger>>

\* The transaction meets its fate: any submission made may land late.
LedgerMoves ==
  /\ ledger = "unseen" /\ routerPc \notin {"idle", "returned"}
  /\ \/ ledger' = "expired"
     \/ calls # <<>> /\ ledger' \in {"landed", "failed"}
  /\ UNCHANGED <<routerPc, hooking, elapsed, alarm, avoided, order, index, visited,
                 calls, attempts, finalState>>

Waiting == hooking \/ routerPc \in {"submitting", "observing"}

RouterTick ==
  /\ Waiting /\ elapsed < alarm
  /\ elapsed' = elapsed + 1
  /\ UNCHANGED <<routerPc, hooking, alarm, avoided, order, index, visited, calls,
                 attempts, finalState, ledger>>

\* What the event loop does by itself: steps of the call, timers.
RouterRuns ==
  \/ RouteCalled \/ OrderReported \/ AttemptStarts \/ RoutingEnds \/ Submit
  \/ (At("announce") /\ SubmissionAcknowledged) \/ Observe \/ ConclusionReported \/ FallBack
  \/ RouteReturns
  \/ SubmissionTimesOut
  \/ (elapsed >= alarm /\ (HookSettles \/ ObservationTimesOut))

RouterNext ==
  \/ RouterRuns \/ RouterTick \/ LedgerMoves \/ HookSettles
  \/ SubmissionRejected \/ SubmissionAcknowledged \/ ObservationAnswers \/ ObservationTimesOut

RouterSpec == RouterInit /\ [][RouterNext]_routerVars

\* Timers fire and continuations run; no callback need ever settle.
RouterFairness == WF_routerVars(RouterRuns) /\ WF_routerVars(RouterTick)

----------------------------------------------------------------------------
(* Properties.                                                             *)

\* Every variable keeps its type.
RouterTypeOK ==
  /\ hooking \in BOOLEAN
  /\ elapsed \in Nat /\ alarm \in Nat /\ index \in Nat \ {0}
  /\ avoided \subseteq RouteIds /\ visited \subseteq RouteIds
  /\ order \in Seq(RouteIds) /\ calls \in Seq(RouteIds)
  /\ attempts \in Seq([route : RouteIds,
                       submission : {"RPC_ACKNOWLEDGED", "RPC_REJECTED", "TIMED_OUT"},
                       observation : Conclusive \union
                         {"NONE", "TIMED_OUT", "OBSERVATION_INCONCLUSIVE"}])
  /\ finalState \in Conclusive \union {"NONE", "OBSERVATION_INCONCLUSIVE"}
  /\ ledger \in {"unseen", "landed", "failed", "expired"}

\* The result is never better or worse than the truth: with at most one lying
\* reader a conclusive result is what the ledger did, although the submission
\* that landed may be one the router gave up long before.
ConclusionIsTrue ==
  Cardinality(LyingReaders) < RequiredQuorum /\ finalState \in Conclusive
    => TrueOfLedger(finalState)

\* Whatever the callbacks do (a hook that hangs at every event, a submitter or
\* an observer that never settles), the call is over by its deadline.
DeadlineKept == elapsed <= Deadline

\* A route gets the transaction at most once, before the deadline, and never
\* after the call knows how the transaction ended, although a hook may use up
\* what was left between the check of the deadline and the submission.
SubmissionDiscipline ==
  [][calls' # calls =>
       /\ elapsed < Deadline
       /\ finalState = "NONE"
       /\ calls'[Len(calls')] \notin {calls[i] : i \in DOMAIN calls}]_routerVars

\* The position of a configured route.
Place(r) == CHOOSE k \in DOMAIN ConfiguredRoutes : ConfiguredRoutes[k] = r

\* Intelligence reorders and never removes: a call that gives up with time left
\* has attempted every configured route, avoided ones after the others, and
\* routes alike in their configured order.
FallbacksSurvive ==
  routerPc = "returned" /\ finalState = "OBSERVATION_INCONCLUSIVE" /\ elapsed < Deadline =>
    /\ {attempts[i].route : i \in DOMAIN attempts} = RouteIds
    /\ \A i, j \in DOMAIN attempts : i < j =>
         LET r == attempts[i].route  s == attempts[j].route
         IN  \/ r \notin avoided /\ s \in avoided
             \/ (r \in avoided <=> s \in avoided) /\ Place(r) < Place(s)

\* A call that began returns, although no callback need ever settle.
RouterReturns == routerPc # "idle" ~> routerPc = "returned"

\* The call through every step: a conclusion is the ledger's, the deadline and
\* the fallbacks are kept, and no route is used twice or after the end.
RouterIsSound ==
  /\ [][ConclusionIsTrue' /\ DeadlineKept' /\ FallbacksSurvive']_routerVars
  /\ SubmissionDiscipline
=============================================================================
