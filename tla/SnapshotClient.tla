--------------------------- MODULE SnapshotClient ---------------------------
(***************************************************************************)
(* The versioned intelligence feed and its polling client                  *)
(* (packages/sdk/src/intelligence.ts, intelligence-signing.ts).  A         *)
(* publisher builds signed snapshots; poll() may run more than once at a   *)
(* time, takes `now` before it fetches and judges the answer after it;     *)
(* decision() reads what the last accepted snapshot left behind and fails  *)
(* open to local policy.                                                   *)
(***************************************************************************)
EXTENDS Naturals, Sequences, FiniteSets

CONSTANTS
  Routes,           \* route ids
  Pollers,          \* callers of poll() that may overlap
  Classifications,  \* the classifications the analysis publishes
  AvoidAfter, RestoreAfter,  \* hysteresis thresholds of the snapshots
  Ttl,              \* lifetime of a snapshot
  SourceLag,        \* age of the oldest evidence when the snapshot is generated
  SourceMaxAge,     \* largest age of the source evidence
  KeyUntil,         \* end of the publisher key's validity
  MaxVersion,       \* bound: snapshots published
  FeedEnd,          \* bound: last instant of the clock
  Disturbances      \* bound: overlapping polls, failed polls, other contents
                    \* under a used version, steps of the clock backwards

\* The constructor takes only a positive age of the sources.
ValidClientOptions == SourceMaxAge \in Nat \ {0}

ASSUME FeedAssumption ==
  /\ ValidClientOptions
  /\ AvoidAfter \in Nat \ {0} /\ RestoreAfter \in Nat \ {0}
  /\ Ttl \in Nat \ {0} /\ KeyUntil \in Nat
  /\ SourceLag \in Nat
  /\ MaxVersion \in Nat /\ FeedEnd \in Nat
  /\ Disturbances \in Nat

VARIABLES
  feedClock,      \* wall clock of client and publisher
  published,      \* the snapshot the endpoint serves
  polls,          \* the calls of poll() under way
  lastApplied,    \* #lastVersion and #lastSnapshotHash
  active,         \* the three times decision() checks
  hysteresis,     \* #states
  feedAvailable,  \* #feedAvailable
  disturbances,   \* what is left of Disturbances
  votes           \* history: the classes of the snapshots applied, in order

feedVars == <<feedClock, published, polls, lastApplied, active, hysteresis,
              feedAvailable, disturbances, votes>>

TransactionClasses == {"MATCHED_CONTROL", "PROGRAM_X"}
Keys == Routes \X TransactionClasses

\* No snapshot: version 0, an interval that is never current.
NoSnapshot == [version |-> 0, generated |-> 0, expires |-> 0, observed |-> 0,
               classes |-> <<>>]

Snapshots ==
  [version : 0 .. MaxVersion, generated : 0 .. FeedEnd,
   expires : 0 .. (FeedEnd + Ttl + 1), observed : 0 .. FeedEnd,
   classes : UNION {[R -> Classifications] : R \in SUBSET Routes}]

----------------------------------------------------------------------------
(* Pure parts: the builder's entries, the checks, the counters.            *)

\* A route that is asymmetric against PROGRAM_X is healthy for the control.
EntriesFromSummary(classes) ==
  [k \in {key \in Keys : key[1] \in DOMAIN classes} |->
     IF k[2] = "MATCHED_CONTROL" /\ classes[k[1]] = "ASYMMETRIC"
     THEN "HEALTHY" ELSE classes[k[1]]]

AvoidSignal(k, class) ==
  \/ class = "DEGRADED"
  \/ class = "ASYMMETRIC" /\ k[2] = "PROGRAM_X"

Blank == [avoidCount |-> 0, restoreCount |-> 0, avoided |-> FALSE]

\* Faulty variant: a healthy snapshot leaves the avoid counter standing.
CountedNotConsecutive(state, k, class) ==
  CASE AvoidSignal(k, class) ->
         [avoidCount |-> state.avoidCount + 1, restoreCount |-> 0,
          avoided |-> state.avoided \/ state.avoidCount + 1 >= AvoidAfter]
    [] ~AvoidSignal(k, class) /\ class = "HEALTHY" ->
         [avoidCount |-> state.avoidCount, restoreCount |-> state.restoreCount + 1,
          avoided |-> state.avoided /\ state.restoreCount + 1 < RestoreAfter]
    [] OTHER -> Blank

\* One entry of one snapshot counted for its key.
Counted(state, k, class) ==
  CASE AvoidSignal(k, class) ->
         [avoidCount |-> state.avoidCount + 1, restoreCount |-> 0,
          avoided |-> state.avoided \/ state.avoidCount + 1 >= AvoidAfter]
    [] ~AvoidSignal(k, class) /\ class = "HEALTHY" ->
         [avoidCount |-> 0, restoreCount |-> state.restoreCount + 1,
          avoided |-> state.avoided /\ state.restoreCount + 1 < RestoreAfter]
    [] OTHER -> Blank

\* Keys the snapshot does not list lose their state.
Apply(states, s) ==
  LET entries == EntriesFromSummary(s.classes)
  IN  [k \in DOMAIN entries |->
         Counted(IF k \in DOMAIN states THEN states[k] ELSE Blank, k, entries[k])]

\* What comparing two hashes of canonical JSON decides.
SameContent(s, t) == s = t

\* Ages of the listed evidence; an empty snapshot has none.
SourcesOf(s) == IF DOMAIN s.classes = {} THEN {} ELSE {s.observed}
TimesOf(s) == [generated |-> s.generated, expires |-> s.expires, sources |-> SourcesOf(s)]

\* The signed envelope verifies: the publisher's key covers the interval.
VerifiedEnvelope(s) == s.version >= 1 /\ s.expires <= KeyUntil

TemporallyValid(s, at) ==
  /\ s.generated < s.expires
  /\ s.generated <= at /\ at < s.expires
  /\ \A o \in SourcesOf(s) : o <= s.generated /\ at <= o + SourceMaxAge

Credible(s, at) == VerifiedEnvelope(s) /\ TemporallyValid(s, at)
Rollback(s) == s.version < lastApplied.version
Equivocation(s) == s.version = lastApplied.version /\ ~SameContent(s, lastApplied)

Verdict(s, refused) ==
  IF refused THEN "FAIL_OPEN"
  ELSE IF s.version = lastApplied.version THEN "UNCHANGED" ELSE "APPLIED"

\* Faulty variant: the rollback check is dropped, a late answer is applied.
PollVerdictWithoutRollback(s, at) == Verdict(s, ~Credible(s, at) \/ Equivocation(s))

\* Faulty variant: a version seen before is accepted whatever its content.
PollVerdictWithoutHash(s, at) == Verdict(s, ~Credible(s, at) \/ Rollback(s))

\* What poll() makes of an answer.
PollVerdict(s, at) == Verdict(s, ~Credible(s, at) \/ Rollback(s) \/ Equivocation(s))

\* decision() may use the snapshot at this instant.
CurrentAt(t) ==
  /\ active.generated <= t /\ t < active.expires
  /\ active.sources # {} /\ \A o \in active.sources : t <= o + SourceMaxAge

\* decision(): an override wins and is not an opinion of the feed.
DecisionOf(k, override, t) ==
  CASE override # "NONE" -> [disposition |-> override, source |-> "DEVELOPER_OVERRIDE"]
    [] override = "NONE" /\ ~(feedAvailable /\ CurrentAt(t)) ->
         [disposition |-> "LOCAL_PRIMARY_FALLBACK", source |-> "FAIL_OPEN"]
    [] OTHER ->
         [disposition |-> IF k \in DOMAIN hysteresis /\ hysteresis[k].avoided
                          THEN "AVOID" ELSE "LOCAL_PRIMARY_FALLBACK",
          source |-> "SNAPSHOT"]

----------------------------------------------------------------------------
(* The machine.                                                            *)

IdlePoll == [phase |-> "idle", at |-> 0, answer |-> NoSnapshot]

Disturb == disturbances > 0 /\ disturbances' = disturbances - 1

FeedInit ==
  /\ feedClock = 0
  /\ published = NoSnapshot
  /\ polls = [p \in Pollers |-> IdlePoll]
  /\ lastApplied = NoSnapshot
  /\ active = TimesOf(NoSnapshot)
  /\ hysteresis = <<>>
  /\ feedAvailable = FALSE
  /\ disturbances = Disturbances
  /\ votes = <<>>

\* buildIntelligenceSnapshot and its publication under a version.
FeedPublishes(version, ttl) ==
  /\ \E R \in SUBSET Routes : \E c \in [R -> Classifications] :
       published' = [version |-> version, generated |-> feedClock,
                     expires |-> feedClock + ttl, classes |-> c,
                     observed |-> IF feedClock > SourceLag THEN feedClock - SourceLag ELSE 0]
  /\ UNCHANGED <<feedClock, polls, lastApplied, active, hysteresis, feedAvailable, votes>>

\* (one new version per instant bounds the feed)
FeedPublishesNext ==
  /\ published.version < MaxVersion
  /\ published = NoSnapshot \/ published.generated < feedClock
  /\ FeedPublishes(published.version + 1, Ttl)
  /\ UNCHANGED disturbances

\* Another content under the version already published, maybe with a lifetime
\* beyond the key's.
FeedReissues ==
  /\ published.version > 0
  /\ \E ttl \in {Ttl, Ttl + 1} : FeedPublishes(published.version, ttl)
  /\ Disturb

PollStarts(p) ==
  /\ polls[p].phase = "idle"
  /\ polls' = [polls EXCEPT ![p] = [IdlePoll EXCEPT !.phase = "asked", !.at = feedClock]]
  /\ \/ UNCHANGED disturbances /\ \A q \in Pollers : polls[q].phase = "idle"
     \/ Disturb /\ \E q \in Pollers : polls[q].phase # "idle"
  /\ UNCHANGED <<feedClock, published, lastApplied, active, hysteresis, feedAvailable, votes>>

\* The endpoint answers with what it serves now; the client reads it later.
FeedAnswers(p) ==
  /\ polls[p].phase = "asked"
  /\ polls' = [polls EXCEPT ![p].phase = "answered", ![p].answer = published]
  /\ UNCHANGED <<feedClock, published, lastApplied, active, hysteresis, feedAvailable,
                 disturbances, votes>>

FailOpen == feedAvailable' = FALSE /\ UNCHANGED <<lastApplied, active, hysteresis, votes>>

\* A timeout, an HTTP error, a body over the limit, an envelope or a schema
\* that does not verify.
PollFails(p) ==
  /\ polls[p].phase \in {"asked", "answered"}
  /\ Disturb
  /\ polls' = [polls EXCEPT ![p] = IdlePoll]
  /\ FailOpen
  /\ UNCHANGED <<feedClock, published>>

\* Faulty variant: an identical version refreshes the times only.
PollSettlesWithoutRestoring(p) ==
  /\ polls[p].phase = "answered"
  /\ polls' = [polls EXCEPT ![p] = IdlePoll]
  /\ LET s == polls[p].answer
         verdict == PollVerdict(s, polls[p].at)
     IN  \/ verdict = "FAIL_OPEN" /\ FailOpen
         \/ /\ verdict = "UNCHANGED"
            /\ active' = TimesOf(s)
            /\ UNCHANGED <<feedAvailable, lastApplied, hysteresis, votes>>
         \/ /\ verdict = "APPLIED"
            /\ lastApplied' = s
            /\ hysteresis' = Apply(hysteresis, s)
            /\ active' = TimesOf(s)
            /\ feedAvailable' = TRUE
            /\ votes' = Append(votes, s.classes)
  /\ UNCHANGED <<feedClock, published, disturbances>>

PollSettles(p) ==
  /\ polls[p].phase = "answered"
  /\ polls' = [polls EXCEPT ![p] = IdlePoll]
  /\ LET s == polls[p].answer
         verdict == PollVerdict(s, polls[p].at)
     IN  \/ verdict = "FAIL_OPEN" /\ FailOpen
         \/ /\ verdict = "UNCHANGED"
            /\ active' = TimesOf(s)
            /\ feedAvailable' = TRUE
            /\ UNCHANGED <<lastApplied, hysteresis, votes>>
         \/ /\ verdict = "APPLIED"
            /\ lastApplied' = s
            /\ hysteresis' = Apply(hysteresis, s)
            /\ active' = TimesOf(s)
            /\ feedAvailable' = TRUE
            /\ votes' = Append(votes, s.classes)
  /\ UNCHANGED <<feedClock, published, disturbances>>

\* decision() finds the snapshot future-dated, expired or its sources stale.
DecisionTurnsOff ==
  /\ feedAvailable
  /\ ~CurrentAt(feedClock)
  /\ FailOpen
  /\ UNCHANGED <<feedClock, published, polls, disturbances>>

FeedTick ==
  /\ feedClock < FeedEnd
  /\ feedClock' = feedClock + 1
  /\ UNCHANGED <<published, polls, lastApplied, active, hysteresis, feedAvailable,
                 disturbances, votes>>

FeedClockSetBack ==
  /\ feedClock > 0
  /\ feedClock' = feedClock - 1
  /\ Disturb
  /\ UNCHANGED <<published, polls, lastApplied, active, hysteresis, feedAvailable, votes>>

FeedNext ==
  \/ FeedPublishesNext \/ FeedReissues \/ FeedTick \/ FeedClockSetBack
  \/ \E p \in Pollers : PollStarts(p) \/ FeedAnswers(p) \/ PollFails(p) \/ PollSettles(p)
  \/ DecisionTurnsOff

FeedSpec == FeedInit /\ [][FeedNext]_feedVars

\* The application keeps polling and the endpoint keeps answering.
FeedFairness ==
  \A p \in Pollers : WF_feedVars(PollStarts(p)) /\ WF_feedVars(FeedAnswers(p))
                     /\ WF_feedVars(PollSettles(p))
----------------------------------------------------------------------------
(* Properties.                                                             *)

\* Every variable keeps its type; counters stay below the votes cast.
ClientTypeOK ==
  /\ feedClock \in 0 .. FeedEnd
  /\ published \in Snapshots /\ lastApplied \in Snapshots
  /\ polls \in [Pollers -> [phase : {"idle", "asked", "answered"}, at : 0 .. FeedEnd,
                            answer : Snapshots]]
  /\ active \in [generated : 0 .. FeedEnd, expires : 0 .. (FeedEnd + Ttl + 1),
                 sources : SUBSET (0 .. FeedEnd)]
  /\ DOMAIN hysteresis \subseteq Keys
  /\ \A k \in DOMAIN hysteresis :
       hysteresis[k] \in [avoidCount : 0 .. Len(votes), restoreCount : 0 .. Len(votes),
                         avoided : BOOLEAN]
  /\ feedAvailable \in BOOLEAN

\* A decision that says it comes from the snapshot is covered by the very
\* snapshot whose votes it uses: that one is current and its evidence young,
\* whatever polls overlapped, failed or repeated in between.
SteeringIsCurrent ==
  \A k \in Keys, override \in {"NONE", "AVOID", "LOCAL_PRIMARY_FALLBACK"} :
    DecisionOf(k, override, feedClock).source = "SNAPSHOT" =>
      /\ VerifiedEnvelope(lastApplied)
      /\ TemporallyValid(lastApplied, feedClock)
      /\ votes # <<>> /\ votes[Len(votes)] = lastApplied.classes

\* What one snapshot votes for a key.
VotesAvoid(k, classes) ==
  LET entries == EntriesFromSummary(classes) IN k \in DOMAIN entries /\ AvoidSignal(k, entries[k])
VotesHealthy(k, classes) ==
  LET entries == EntriesFromSummary(classes) IN k \in DOMAIN entries /\ entries[k] = "HEALTHY"

AvoidVotes(k) == {i \in 1 .. Len(votes) : VotesAvoid(k, votes[i])}
HealthyVotes(k) == {i \in 1 .. Len(votes) : VotesHealthy(k, votes[i])}

\* What n votes of which these avoid and these are healthy say, by definition: a
\* run of AvoidAfter avoid votes, and since then neither a neutral vote, nor an
\* absence, nor a run of RestoreAfter healthy votes.
Earned(n, avoid, healthy) ==
  \E i \in 1 .. n :
    /\ i >= AvoidAfter /\ (i - AvoidAfter + 1) .. i \subseteq avoid
    /\ \A j \in (i + 1) .. n :
         /\ j \in avoid \union healthy
         /\ j >= i + RestoreAfter => ~((j - RestoreAfter + 1) .. j \subseteq healthy)

AvoidedByVotes(k) == Earned(Len(votes), AvoidVotes(k), HealthyVotes(k))

\* The incremental counters decide exactly what the history of votes says:
\* AVOID is earned by consecutive snapshots and lost by consecutive ones.
HysteresisMatchesVotes ==
  \A k \in Keys :
    (k \in DOMAIN hysteresis /\ hysteresis[k].avoided) <=> AvoidedByVotes(k)

\* A version votes at most once: counters move only when a higher version is
\* applied, so a repeated poll, a late answer of an earlier poll or another
\* content under the same version never adds a vote.
VersionVotesOnce ==
  [][(hysteresis' # hysteresis \/ votes' # votes)
       => lastApplied'.version > lastApplied.version]_feedVars

\* The endpoint serves a snapshot the client could use now.
Servable ==
  /\ VerifiedEnvelope(published)
  /\ TemporallyValid(published, feedClock)
  /\ SourcesOf(published) # {}
  /\ published.version > lastApplied.version \/ published = lastApplied

\* Failed polls, overlapping polls and a clock set back do not turn the feed
\* off for good: while a usable snapshot is served it is available again.
FeedRecovers == []<>(feedAvailable \/ ~Servable)

\* What the client decides is current, and its counters are the history of the
\* votes.
FeedIsSound == SteeringIsCurrent /\ HysteresisMatchesVotes

\* A version votes once, and the feed comes back whenever it can.
FeedGoesOn == VersionVotesOnce /\ FeedRecovers
=============================================================================
