---------------------------- MODULE HostileProxy ----------------------------
(***************************************************************************)
(* The controlled hostile proxy of the experiments                         *)
(* (packages/hostile-proxy/src/server.ts, classifier.ts): concurrent       *)
(* requests are admitted against a capacity of audit records and of        *)
(* requests, classified, rejected by a mode fixed beforehand or forwarded, *)
(* and every decision leaves a record.  A request's body and the answer of *)
(* the upstream are the two points where other requests run.               *)
(***************************************************************************)
EXTENDS Naturals, Sequences, FiniteSets

CONSTANTS
  ProxyRequests,          \* the requests clients make
  MaxConcurrentRequests, MaxAuditEvents  \* limits

\* The limits a proxy starts with.
ValidConfig == {MaxConcurrentRequests, MaxAuditEvents} \subseteq Nat \ {0}

ASSUME ProxyAssumption == ValidConfig

VARIABLES
  mode,       \* runtimeConfig.mode, copied at the start
  contents,   \* what the body of each request turns out to be
  stage,      \* where each request stands
  auditEvents,\* auditEvents, each with the request it is about (a history)
  forwards,   \* history: the requests sent upstream, in order
  answers     \* the HTTP answer of each request, "NONE" before

proxyVars == <<mode, contents, stage, auditEvents, forwards, answers>>

ControlledClasses == {"MATCHED_CONTROL", "PROGRAM_X"}
Modes == {"PASS_THROUGH", "REJECT_CLASS", "GENERAL_DEGRADATION"}

\* A controlled transaction has a class and a pair nonce the schedule of the
\* mode lists or not; what the classifier cannot decode has neither.
Contents ==
  [shape : {"TOO_LARGE", "MALFORMED", "UNKNOWN"}, scheduled : {FALSE}]
    \union [shape : ControlledClasses, scheduled : BOOLEAN]

NotRead == [shape |-> "UNREAD", scheduled |-> FALSE]

ActiveRequests == {r \in ProxyRequests : stage[r] \in {"reading", "upstream"}}

\* Faulty variant: the target class is rejected in every mode but one.
ShouldRejectWhateverMode(c) ==
  /\ c.shape \in ControlledClasses /\ mode # "PASS_THROUGH"
  /\ c.shape = "PROGRAM_X" \/ c.scheduled

ShouldReject(c) ==
  \/ mode = "REJECT_CLASS" /\ c.shape = "PROGRAM_X"
  \/ mode = "GENERAL_DEGRADATION" /\ c.shape \in ControlledClasses /\ c.scheduled

----------------------------------------------------------------------------

ProxyInit ==
  /\ mode \in Modes
  /\ contents = [r \in ProxyRequests |-> NotRead]
  /\ stage = [r \in ProxyRequests |-> "new"]
  /\ auditEvents = <<>> /\ forwards = <<>>
  /\ answers = [r \in ProxyRequests |-> "NONE"]

RecordAudit(r, decision) ==
  auditEvents' = Append(auditEvents, [request |-> r, decision |-> decision])

\* The request is over with this answer.
Answer(r, status) ==
  /\ stage' = [stage EXCEPT ![r] = "done"]
  /\ answers' = [answers EXCEPT ![r] = status]

RefuseForAuditCapacity(r) ==
  /\ stage[r] = "new" /\ Len(auditEvents) >= MaxAuditEvents
  /\ Answer(r, "503")
  /\ UNCHANGED <<mode, contents, auditEvents, forwards>>

RefuseForConcurrency(r) ==
  /\ stage[r] = "new" /\ Len(auditEvents) < MaxAuditEvents
  /\ Cardinality(ActiveRequests) >= MaxConcurrentRequests
  /\ RecordAudit(r, "RESOURCE_LIMIT")
  /\ Answer(r, "503")
  /\ UNCHANGED <<mode, contents, forwards>>

\* The handler starts: room in the audit and among the requests.
Admissible(r) ==
  /\ stage[r] = "new" /\ Len(auditEvents) < MaxAuditEvents
  /\ Cardinality(ActiveRequests) < MaxConcurrentRequests

\* Anything but POST / is answered at once.
RefuseMethod(r) ==
  /\ Admissible(r)
  /\ RecordAudit(r, "INVALID_REQUEST")
  /\ Answer(r, "405")
  /\ UNCHANGED <<mode, contents, forwards>>

\* Faulty variant: requests under way are not counted.
AdmitUnbounded(r) ==
  /\ stage[r] = "new" /\ Len(auditEvents) < MaxAuditEvents
  /\ stage' = [stage EXCEPT ![r] = "reading"]
  /\ UNCHANGED <<mode, contents, auditEvents, forwards, answers>>

Admit(r) ==
  /\ Admissible(r)
  /\ stage' = [stage EXCEPT ![r] = "reading"]
  /\ UNCHANGED <<mode, contents, auditEvents, forwards, answers>>

\* The client goes away while its body is read: the handler's catch.
BodyAborted(r) ==
  /\ stage[r] = "reading"
  /\ RecordAudit(r, "UPSTREAM_ERROR")
  /\ Answer(r, "502")
  /\ UNCHANGED <<mode, contents, forwards>>

\* The record of a body; what is neither refused nor withheld is forwarded,
\* the malformed too.
DecisionOn(c) ==
  CASE c.shape = "TOO_LARGE" -> "RESOURCE_LIMIT"
    [] c.shape = "MALFORMED" -> "INVALID_REQUEST"
    [] ShouldReject(c) -> "REJECTED"
    [] OTHER -> "PASS_THROUGH"

\* The body is there: one synchronous run up to the answer or to the fetch.
Handle(r) ==
  /\ stage[r] = "reading"
  /\ \E c \in Contents :
       LET decision == DecisionOn(c)
       IN  /\ contents' = [contents EXCEPT ![r] = c]
           /\ RecordAudit(r, decision)
           /\ \/ /\ decision \in {"RESOURCE_LIMIT", "REJECTED"}
                 /\ Answer(r, IF decision = "REJECTED" THEN "REJECTION" ELSE "413")
                 /\ UNCHANGED forwards
              \/ /\ decision \notin {"RESOURCE_LIMIT", "REJECTED"}
                 /\ stage' = [stage EXCEPT ![r] = "upstream"]
                 /\ forwards' = Append(forwards, r)
                 /\ UNCHANGED answers
  /\ UNCHANGED mode

UpstreamAnswers(r) ==
  /\ stage[r] = "upstream"
  /\ Answer(r, "FORWARDED")
  /\ UNCHANGED <<mode, contents, auditEvents, forwards>>

\* A timeout, a network error, a redirect, or a response over the limit.
UpstreamFails(r) ==
  /\ stage[r] = "upstream"
  /\ RecordAudit(r, "UPSTREAM_ERROR")
  /\ Answer(r, "502")
  /\ UNCHANGED <<mode, contents, forwards>>

ProxyNext ==
  \E r \in ProxyRequests :
    \/ RefuseForAuditCapacity(r) \/ RefuseForConcurrency(r) \/ RefuseMethod(r)
    \/ Admit(r) \/ BodyAborted(r) \/ Handle(r) \/ UpstreamAnswers(r) \/ UpstreamFails(r)

ProxySpec == ProxyInit /\ [][ProxyNext]_proxyVars

----------------------------------------------------------------------------
(* Properties.                                                             *)

\* The decisions the audit records about a request.
DecisionsAbout(r) ==
  {auditEvents[i].decision : i \in {j \in DOMAIN auditEvents : auditEvents[j].request = r}}

Forwarded(r) == \E i \in DOMAIN forwards : forwards[i] = r

\* Every variable keeps its type.
ProxyTypeOK ==
  /\ mode \in Modes
  /\ contents \in [ProxyRequests -> Contents \union {NotRead}]
  /\ stage \in [ProxyRequests -> {"new", "reading", "upstream", "done"}]
  /\ auditEvents \in Seq([request : ProxyRequests,
       decision : {"PASS_THROUGH", "REJECTED", "RESOURCE_LIMIT", "INVALID_REQUEST",
                   "UPSTREAM_ERROR"}])
  /\ forwards \in Seq(ProxyRequests)
  /\ answers \in [ProxyRequests ->
       {"NONE", "503", "405", "413", "502", "REJECTION", "FORWARDED"}]

\* The capacity of the audit is checked when a request arrives and each request
\* under way may still leave two records: the trace outgrows the capacity by
\* them at most, however arrivals, refusals and answers interleave.
AuditBounded == Len(auditEvents) <= MaxAuditEvents + 2 * MaxConcurrentRequests

\* The audit is the evidence of the intervention: read alone, it tells what was
\* sent upstream, what was withheld and what failed; what the upstream saw of
\* controlled transactions is what the mode lets through, pair by pair.
AuditTellsTraffic ==
  \A r \in ProxyRequests :
    LET decisions == DecisionsAbout(r)
        forwarded == Forwarded(r)
    IN  /\ stage[r] \in {"upstream", "done"} /\ answers[r] # "503" => decisions # {}
        /\ forwarded => decisions \intersect {"PASS_THROUGH", "INVALID_REQUEST"} # {}
        /\ "REJECTED" \in decisions => ~forwarded /\ answers[r] = "REJECTION"
        /\ answers[r] = "FORWARDED" => "UPSTREAM_ERROR" \notin decisions
        /\ forwarded /\ mode = "GENERAL_DEGRADATION" => ~contents[r].scheduled
        /\ forwarded /\ mode = "REJECT_CLASS" => contents[r].shape # "PROGRAM_X"
        /\ "REJECTED" \in decisions =>
             \/ mode = "REJECT_CLASS" /\ contents[r].shape = "PROGRAM_X"
             \/ mode = "GENERAL_DEGRADATION" /\ contents[r].scheduled

\* The trace of the proxy: complete about the traffic and bounded.
AuditIsSound == AuditBounded /\ AuditTellsTraffic

\* What the documentation promises: "Stops forwarding when audit capacity is
\* exhausted rather than silently losing evidence"
\* (docs/controlled-hostile-proxy.md).  It does not hold: the capacity is
\* checked on arrival, so a request that waits for its body is forwarded after
\* the records of others have used the capacity up.
NoForwardPastCapacity ==
  [][forwards' # forwards => Len(auditEvents') <= MaxAuditEvents]_proxyVars
=============================================================================
