----------------------------- MODULE FeedReports -----------------------------
(***************************************************************************)
(* What the browser-side analytics (algorithms.js) report on the feed of   *)
(* GitHub events: the risk of an event, the triage of the task it belongs  *)
(* to, the anomalies of the feed, and the collisions of branches and pull  *)
(* requests.  ActivityFeed fetches both.                                   *)
(*                                                                         *)
(* Substring tests on names and messages are the classes of an event; a    *)
(* commit stands for the first 40 characters of its message.  The reports  *)
(* are arrays in the order in which their keys first appear; no name is a  *)
(* number, which a JavaScript object would list first.                     *)
(***************************************************************************)
EXTENDS Integers, Sequences, FiniteSets, SequencesExt, Functions

CONSTANTS
    Events,          \* the events GitHub reports: [actor, kind, repo, plane, type, branch,
                     \* action, commits, quota]
    Prs,             \* pull requests: [repo, number, sha], sha "" when it is not known
    MinEvents,       \* events from which anomalies are looked for (5)
    BurstMin,        \* events of one actor that make a burst (15)
    ChurnMin         \* like messages that make a churn (4)

VARIABLES
    feed,            \* the events in the order of the feed
    prs              \* the pull requests in the order of their list

-----------------------------------------------------------------------------
(* Risk and triage *)

PlaneWeight  == [authority |-> 35, execution |-> 25, docs |-> 5, application |-> 15]
ActionWeight == [security |-> 30, schema |-> 25, ci |-> 20, docs |-> 2, push |-> 12,
                 merge |-> 15, open |-> 10, other |-> 10]
ActorWeight  == [dependabot |-> 8, queue |-> 5, bot |-> 15, human |-> 5]

ASSUME EventsAssumption ==
    \A e \in Events :
        /\ e.plane \in DOMAIN PlaneWeight /\ e.action \in DOMAIN ActionWeight
        /\ e.kind \in DOMAIN ActorWeight

EvaluateRisk(e) == 15 + PlaneWeight[e.plane] + ActionWeight[e.action] + ActorWeight[e.kind]

Level(score) ==
    IF score >= 70 THEN "CRITICAL" ELSE IF score >= 50 THEN "HIGH"
    ELSE IF score >= 30 THEN "ELEVATED" ELSE "LOW"

\* The first word found in a title decides.
Confidence(words) ==
    IF "bump" \in words THEN 96 ELSE IF "docs" \in words THEN 94
    ELSE IF "fix" \in words THEN 78 ELSE IF "feat" \in words THEN 62
    ELSE IF "migration" \in words THEN 45 ELSE 88

\* The limit itself is admitted.
NeedsHumanOracle_Above(words, risk) == Confidence(words) < 80 \/ risk > 50

NeedsHumanOracle(words, risk) == Confidence(words) < 80 \/ risk >= 50

-----------------------------------------------------------------------------
(* Anomalies and collisions of a feed *)

\* An object filled from pairs <<key, value>>: its entries, with the values of each key.
Grouped(pairs) ==
    LET Add(groups, p) ==
            IF \E i \in DOMAIN groups : groups[i].key = p[1]
            THEN [i \in DOMAIN groups |->
                     IF groups[i].key = p[1] THEN [groups[i] EXCEPT !.values = Append(@, p[2])]
                     ELSE groups[i]]
            ELSE Append(groups, [key |-> p[1], values |-> <<p[2]>>])
    IN  FoldLeft(Add, <<>>, pairs)

\* The members of a Set filled in the order of s.
Distinct(s) ==
    LET groups == Grouped([i \in DOMAIN s |-> <<s[i], i>>])
    IN  [i \in DOMAIN groups |-> groups[i].key]

Counted(type, groups) ==
    [i \in DOMAIN groups |-> [type |-> type, of |-> groups[i].key, count |-> Len(groups[i].values)]]

Bursts(f) ==
    LET actors == Grouped([i \in DOMAIN f |-> <<<<f[i].actor>>, i>>])
        Bursting(g) == 100 * Len(g.values) >= 45 * Len(f) /\ Len(g.values) >= BurstMin
    IN  Counted("RUNAWAY_AGENT_BURST", SelectSeq(actors, Bursting))

MessageKey(e, commit) == <<e.actor, e.repo, commit>>

\* Only the first commit of an event is counted.
Commits_First(f) ==
    LET pushed == SelectSeq(f, LAMBDA e : e.commits # <<>>)
    IN  [i \in DOMAIN pushed |-> <<MessageKey(pushed[i], pushed[i].commits[1]), i>>]

Commits(f) ==
    FlattenSeq([i \in DOMAIN f |->
        [k \in DOMAIN f[i].commits |-> <<MessageKey(f[i], f[i].commits[k]), i>>]])

Churn(f) ==
    Counted("DUPLICATE_RETRY_CHURN",
            SelectSeq(Grouped(Commits(f)), LAMBDA g : Len(g.values) >= ChurnMin))

Quota(f) ==
    LET rejections == SelectSeq(f, LAMBDA e : e.quota)
    IN  Counted("AGENT_QUOTA_EXHAUSTED", Grouped([i \in DOMAIN rejections |-> <<<<"codex">>, i>>]))

Anomalies(f) == IF Len(f) < MinEvents THEN <<>> ELSE Bursts(f) \o Churn(f) \o Quota(f)

Shared(type, groups) ==
    [i \in DOMAIN groups |-> [type |-> type, of |-> groups[i].key, actors |-> groups[i].values]]

\* Every event that names a branch counts, a deletion too.
Pushes_All(f) == SelectSeq(f, LAMBDA e : e.branch \notin {"", "main"})

Pushes(f) ==
    SelectSeq(f, LAMBDA e : e.type \in {"PushEvent", "CreateEvent"} /\ e.branch \notin {"", "main"})

BranchCollisions(f) ==
    LET pushes   == Pushes(f)
        branches == Grouped([i \in DOMAIN pushes |->
                        <<<<pushes[i].repo, pushes[i].branch>>, pushes[i].actor>>])
        sets     == [i \in DOMAIN branches |-> [branches[i] EXCEPT !.values = Distinct(@)]]
    IN  Shared("BRANCH_CONCURRENCY_COLLISION", SelectSeq(sets, LAMBDA g : Len(g.values) > 1))

\* Pull requests whose head is not known share the head "head".
HeadOf(pr) == <<pr.repo, IF pr.sha = "" THEN "head" ELSE pr.sha>>

HeadCollisions(list) ==
    LET heads == Grouped([i \in DOMAIN list |-> <<HeadOf(list[i]), list[i].number>>])
    IN  Shared("DUPLICATE_PR_HEAD_COLLISION", SelectSeq(heads, LAMBDA g : Len(g.values) > 1))

Collisions(f, list) == BranchCollisions(f) \o HeadCollisions(list)

-----------------------------------------------------------------------------
(* Properties *)

Once(reports, expected) == IsInjective(reports) /\ ToSet(reports) = expected

\* In a feed long enough every actor with enough of its events, every message an actor
\* repeats on a repository often enough, in one push or in several, and an exhausted
\* review quota are reported, each once and with its count, and nothing else, however the
\* events of others come in between (detectAnomalies).
AnomaliesExact ==
    LET Places   == UNION {{<<i, k>> : k \in DOMAIN feed[i].commits} : i \in DOMAIN feed}
        At(c)    == MessageKey(feed[c[1]], feed[c[1]].commits[c[2]])
        OfEvent(i)  == Cardinality({j \in DOMAIN feed : feed[j].actor = feed[i].actor})
        OfCommit(c) == Cardinality({d \in Places : At(d) = At(c)})
        Refused  == {i \in DOMAIN feed : feed[i].quota}
        bursts   == {[type |-> "RUNAWAY_AGENT_BURST", of |-> <<feed[i].actor>>,
                      count |-> OfEvent(i)] :
                        i \in {j \in DOMAIN feed :
                                  OfEvent(j) >= BurstMin /\ 100 * OfEvent(j) >= 45 * Len(feed)}}
        churns   == {[type |-> "DUPLICATE_RETRY_CHURN", of |-> At(c), count |-> OfCommit(c)] :
                        c \in {d \in Places : OfCommit(d) >= ChurnMin}}
        quotas   == {[type |-> "AGENT_QUOTA_EXHAUSTED", of |-> <<"codex">>,
                      count |-> Cardinality(Refused)] : i \in Refused}
    IN  Once(Anomalies(feed),
             IF Len(feed) >= MinEvents THEN bursts \union churns \union quotas ELSE {})

\* Every branch other than main that several actors pushed to or created is reported once
\* and names each of them once, whatever others did to it; so is every head that several
\* pull requests of a repository share, all its unknown heads being one
\* (detectAgentCollisions).
CollisionsExact ==
    LET Branch(i)  == <<feed[i].repo, feed[i].branch>>
        Pushers(b) == {feed[i].actor : i \in {j \in DOMAIN feed :
                          /\ Branch(j) = b
                          /\ feed[j].type = "PushEvent" \/ feed[j].type = "CreateEvent"}}
        Numbers(h) == {prs[i].number : i \in {j \in DOMAIN prs : HeadOf(prs[j]) = h}}
        reports    == Collisions(feed, prs)
        branches   == {b \in {Branch(i) : i \in DOMAIN feed} :
                          b[2] \notin {"", "main"} /\ Cardinality(Pushers(b)) > 1}
        heads      == {h \in {HeadOf(prs[i]) : i \in DOMAIN prs} : Cardinality(Numbers(h)) > 1}
    IN  /\ \A i \in DOMAIN reports : IsInjective(reports[i].actors)
        /\ Once([i \in DOMAIN reports |-> [reports[i] EXCEPT !.actors = ToSet(@)]],
                {[type |-> "BRANCH_CONCURRENCY_COLLISION", of |-> b, actors |-> Pushers(b)] :
                     b \in branches}
                \union {[type |-> "DUPLICATE_PR_HEAD_COLLISION", of |-> h, actors |-> Numbers(h)] :
                     h \in heads})

\* Whatever its title says, a task of an event of HIGH or CRITICAL level is never
\* admitted without a human: the levels of evaluateRisk and the limit of
\* activeLearningTriage agree.
HighRiskIsReviewed ==
    \A i \in DOMAIN feed :
        Level(EvaluateRisk(feed[i])) \in {"HIGH", "CRITICAL"} =>
            \A words \in SUBSET {"bump", "docs", "fix", "feat", "migration"} :
                NeedsHumanOracle(words, EvaluateRisk(feed[i]))

=============================================================================
