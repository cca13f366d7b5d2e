---------------------------- MODULE ServerProofs ----------------------------
(***************************************************************************)
(* Proofs about what the server decides and keeps apart from its command   *)
(* plane: the verdicts on agents, the reports on the feed, its hash chain  *)
(* and the evidence gate, for any agents, events, tiers and limits.        *)
(***************************************************************************)
EXTENDS AgentVerdicts, FeedReports, HashChain, EvidenceDecisions, SequenceLemmas,
        FiniteSetTheorems

CONSTANTS
    Bots, MaxTime, MaxActions,               \* FleetActivity
    MaxFeed, MaxStored, MaxEdits,            \* ActivityFeed
    MaxChain                                 \* EvidenceGate

VARIABLES clock, agents, window              \* FleetActivity

Fleet == INSTANCE FleetActivity

Feed == INSTANCE ActivityFeed

Gate == INSTANCE EvidenceGate

-----------------------------------------------------------------------------
(* Verdicts: however old the last pruning is, the times kept of an agent   *)
(* are those of its observations, as far as the current minute goes.       *)

From(T) == {t \in Nat : t >= T}

\* The observations of an agent since T.
Since(a, T) == {i \in DOMAIN history : history[i][1] = a /\ history[i][2] >= T}

FleetTypes ==
    /\ clock \in Nat
    /\ window \in [Agents -> Seq(Nat)]
    /\ history \in Seq(Agents \X Nat)
    /\ \A i \in DOMAIN history : history[i][2] <= clock
    /\ verdict \in [Agents -> [at : Nat, actions : Nat, runaway : BOOLEAN,
                               level : {"NOMINAL", "ELEVATED", "CRITICAL"}, alarm : BOOLEAN]]

WindowKept ==
    \A a \in Agents, T \in Int :
        T >= clock - Minute => Len(Select(window[a], From(T))) = Cardinality(Since(a, T))

FleetInv == FleetTypes /\ WindowKept /\ WindowExact /\ AlarmMeansCritical

\* The operators of the instance are those above.
LEMMA SamePruned == \A s : Fleet!Pruned(s) = Select(s, From(clock - Minute))
BY DEF Fleet!Pruned, Fleet!Select, Select, From

LEMMA SinceFinite ==
    ASSUME FleetTypes, NEW a, NEW T
    PROVE  IsFiniteSet(Since(a, T)) /\ Cardinality(Since(a, T)) \in Nat
<1>1. Len(history) \in Nat /\ DOMAIN history = 1..Len(history)
  BY DEF FleetTypes
<1>2. IsFiniteSet(1..Len(history))
  BY <1>1, FS_Interval
<1>3. Since(a, T) \subseteq 1..Len(history)
  BY <1>1 DEF Since
<1>4. QED
  BY <1>2, <1>3, FS_Subset, FS_CardinalityType

\* One more observation counts for its own agent, from its time on.
LEMMA SinceObserved ==
    ASSUME FleetTypes, NEW a \in Agents, NEW b \in Agents, NEW T \in Int,
           history' = Append(history, <<a, clock>>)
    PROVE  Cardinality(Since(b, T)') = IF b = a /\ clock >= T THEN Cardinality(Since(b, T)) + 1
                                       ELSE Cardinality(Since(b, T))
<1> DEFINE n == Len(history)
           h == history'
<1>1. /\ n \in Nat /\ DOMAIN history = 1..n /\ clock \in Int
      /\ <<a, clock>> \in Agents \X Nat
  BY DEF FleetTypes
<1>2. /\ DOMAIN h = 1..(n + 1) /\ h[n + 1] = <<a, clock>>
      /\ \A i \in 1..n : h[i] = history[i]
  BY <1>1, AppendProperties, LenProperties DEF FleetTypes
<1> DEFINE new == {i \in DOMAIN h : h[i][1] = b /\ h[i][2] >= T}
<1>3. Since(b, T)' = new
  BY DEF Since
<1>4. n + 1 \notin Since(b, T)
  BY <1>1 DEF Since
<1>5. CASE b = a /\ clock >= T
  <2>1. h[n + 1][1] = a /\ h[n + 1][2] = clock
    BY <1>2
  <2>2. \A i \in 1..n : i \in new <=> i \in Since(b, T)
    BY <1>1, <1>2 DEF Since
  <2>3. n + 1 \in new
    BY <1>1, <1>2, <1>5, <2>1
  <2>4. new \subseteq 1..(n + 1) /\ Since(b, T) \subseteq 1..n
    BY <1>1, <1>2 DEF Since
  <2>5. new = Since(b, T) \union {n + 1}
    <3>1. ASSUME NEW i PROVE i \in new <=> i \in Since(b, T) \union {n + 1}
      <4> HIDE DEF new
      <4>1. i \in 1..(n + 1) <=> i \in 1..n \/ i = n + 1
        BY <1>1
      <4>2. QED
        BY <2>2, <2>3, <2>4, <4>1
    <3>2. QED
      BY <3>1
  <2>6. Cardinality(Since(b, T) \union {n + 1}) = Cardinality(Since(b, T)) + 1
    BY <1>4, SinceFinite, FS_AddElement
  <2>7. QED
    BY <1>3, <1>5, <2>5, <2>6
<1>6. CASE ~(b = a /\ clock >= T)
  <2>1. new = Since(b, T)
    BY <1>1, <1>2, <1>6 DEF Since
  <2>2. QED
    BY <1>3, <1>6, <2>1
<1>7. QED
  BY <1>5, <1>6

\* What the window of an agent that acts now holds.
LEMMA WindowAfter ==
    ASSUME FleetTypes, WindowKept, VerdictsAssumption, NEW a \in Agents
    PROVE  /\ Fleet!Window(a) \in Seq(Nat)
           /\ \A T \in Int : T >= clock - Minute =>
                  Len(Select(Fleet!Window(a), From(T)))
                    = IF clock >= T THEN Cardinality(Since(a, T)) + 1 ELSE Cardinality(Since(a, T))
           /\ Len(Fleet!Window(a)) = Cardinality(Since(a, clock - Minute)) + 1
<1> DEFINE w == window[a]
           t == Append(w, clock)
           C == clock - Minute
           p == Fleet!Window(a)
<1>1. /\ w \in Seq(Nat) /\ clock \in Nat /\ Minute \in Nat /\ C \in Int /\ clock >= C
      /\ t \in Seq(Nat)
  BY VerdictsAssumption, AppendProperties DEF FleetTypes, VerdictsAssumption
<1>2. p = Select(t, From(C))
  BY SamePruned DEF Fleet!Window
<1>0. w = window[a] /\ t = Append(w, clock) /\ C = clock - Minute /\ p = Fleet!Window(a)
  OBVIOUS
<1> HIDE DEF w, t, C, p
<1>3. p \in Seq(Nat)
  BY <1>1, <1>2, SelectType
<1>4. ASSUME NEW T \in Int, T >= C
      PROVE  Len(Select(p, From(T)))
               = IF clock >= T THEN Cardinality(Since(a, T)) + 1 ELSE Cardinality(Since(a, T))
  <2>1. From(C) \intersect From(T) = From(T)
    BY <1>1, <1>4 DEF From
  <2>2. Select(p, From(T)) = Select(t, From(T))
    <3>1. Select(Select(t, From(C)), From(T)) = Select(t, From(C) \intersect From(T))
      BY <1>1, SelectSelect
    <3>2. QED
      BY <1>2, <2>1, <3>1
  <2>3. clock \in From(T) <=> clock >= T
    BY <1>1 DEF From
  <2>4. Select(w, From(T)) \in Seq(Nat) /\ Len(Select(w, From(T))) = Cardinality(Since(a, T))
    BY <1>1, <1>4, <1>0, SelectType DEF WindowKept
  <2>5. Select(t, From(T)) = IF clock \in From(T) THEN Append(Select(w, From(T)), clock)
                             ELSE Select(w, From(T))
    <3>1. Select(Append(w, clock), From(T)) = IF clock \in From(T)
                                              THEN Append(Select(w, From(T)), clock)
                                              ELSE Select(w, From(T))
      BY <1>1, SelectAppend
    <3>2. QED
      BY <1>0, <3>1
  <2>6. QED
    BY <1>1, <2>2, <2>3, <2>4, <2>5, AppendProperties
<1>5. Select(p, From(C)) = p
  <2>1. ToSet(p) \subseteq From(C)
    BY <1>1, <1>2, ElementsOfSelect
  <2>2. QED
    BY <1>3, <2>1, SelectAll
<1>6. QED
  BY <1>1, <1>3, <1>4, <1>5, <1>0

\* No combination of plane, mutation and actor scores exactly 70.
LEMMA NoScoreBetween ==
    ASSUME NEW a, NEW plane \in DOMAIN Fleet!PlanePriors, NEW mutation \in {"destructive", "push", "read"}
    PROVE  Fleet!Score(a, plane, mutation) \in Int /\ Fleet!Score(a, plane, mutation) # 70
<1> DEFINE base == Fleet!PlanePriors[plane]
           actor == Fleet!ActorLR(a)
           change == Fleet!MutationLR(mutation)
           defect == base * actor * change
           clean == (100 - base) * 10000
<1>1. base \in {40, 28, 22, 12}
  BY DEF Fleet!PlanePriors
<1>2. actor \in {135, 85}
  BY DEF Fleet!ActorLR
<1>3. change \in {280, 115, 90}
  BY DEF Fleet!MutationLR
<1>4. Fleet!Score(a, plane, mutation) = (200 * defect + defect + clean) \div (2 * (defect + clean))
  BY DEF Fleet!Score
<1> HIDE DEF base, actor, change
<1>5. \A b \in {40, 28, 22, 12}, x \in {135, 85}, y \in {280, 115, 90} :
        LET d == b * x * y
            c == (100 - b) * 10000
            q == (200 * d + d + c) \div (2 * (d + c))
        IN  q \in Int /\ q # 70
  OBVIOUS
<1>6. QED
  BY <1>1, <1>2, <1>3, <1>4, <1>5

LEMMA VerdictWarns ==
    ASSUME NEW a, NEW plane \in DOMAIN Fleet!PlanePriors, NEW mutation \in {"destructive", "push", "read"}
    PROVE  LET v == Fleet!Verdict(a, plane, mutation)
           IN  /\ v.at = clock /\ v.actions = Len(Fleet!Window(a))
               /\ v.runaway = (Len(Fleet!Window(a)) >= RunawayMin)
               /\ v.level \in {"NOMINAL", "ELEVATED", "CRITICAL"} /\ v.alarm \in BOOLEAN
               /\ v.alarm = (v.level = "CRITICAL")
<1> DEFINE score == Fleet!Score(a, plane, mutation)
           v == Fleet!Verdict(a, plane, mutation)
<1>1. score \in Int /\ score # 70
  BY NoScoreBetween
<1>2. v = [at |-> clock, actions |-> Len(Fleet!Window(a)),
           runaway |-> Len(Fleet!Window(a)) >= RunawayMin,
           level |-> Fleet!RiskLevel(score), alarm |-> Fleet!Alarm(score)]
  BY DEF Fleet!Verdict
<1> HIDE DEF score, v
<1>3. /\ Fleet!RiskLevel(score) \in {"NOMINAL", "ELEVATED", "CRITICAL"}
      /\ Fleet!RiskLevel(score) = "CRITICAL" <=> score >= 70
  <2>1. CASE score >= 70
    BY <2>1 DEF Fleet!RiskLevel
  <2>2. CASE score < 70 /\ score >= 40
    BY <1>1, <2>2 DEF Fleet!RiskLevel
  <2>3. CASE score < 40
    BY <1>1, <2>3 DEF Fleet!RiskLevel
  <2>4. QED
    BY <1>1, <2>1, <2>2, <2>3
<1>4. Fleet!Alarm(score) \in BOOLEAN /\ (Fleet!Alarm(score) <=> score >= 70)
  BY <1>1 DEF Fleet!Alarm
<1>5. QED
  BY <1>2, <1>3, <1>4 DEF v

LEMMA FleetInit == Fleet!Init => FleetInv
<1> SUFFICES ASSUME Fleet!Init PROVE FleetInv
  OBVIOUS
<1> USE DEF Fleet!Init
<1>1. FleetTypes
  BY DEF FleetTypes
<1>2. \A a, T : Since(a, T) = {}
  BY DEF Since
<1>3. Cardinality({}) = 0
  BY FS_EmptySet
<1>4. WindowKept
  <2>1. \A a \in Agents : window[a] = <<>>
    OBVIOUS
  <2>2. \A T : Len(Select(<<>>, From(T))) = 0
    BY SelectEmpty
  <2>3. QED
    BY <1>2, <1>3, <2>1, <2>2 DEF WindowKept
<1>5. WindowExact
  <2>1. \A a \in Agents : verdict[a].actions = 0 /\ verdict[a].runaway = FALSE
    OBVIOUS
  <2>2. \A a : Recent(a, verdict[a].at) = {}
    BY DEF Recent
  <2>3. (0 >= RunawayMin) = FALSE
    BY VerdictsAssumption DEF VerdictsAssumption
  <2>4. QED
    BY <1>3, <2>1, <2>2, <2>3 DEF WindowExact
<1>6. AlarmMeansCritical
  BY DEF AlarmMeansCritical
<1>7. QED
  BY <1>1, <1>4, <1>5, <1>6 DEF FleetInv

LEMMA FleetObserve ==
    ASSUME FleetInv, NEW a \in Agents, NEW plane \in DOMAIN Fleet!PlanePriors,
           NEW mutation \in {"destructive", "push", "read"}, Fleet!Observe(a, plane, mutation)
    PROVE  FleetInv'
<1> USE DEF FleetInv
<1> DEFINE p == Fleet!Window(a)
           v == Fleet!Verdict(a, plane, mutation)
<1>1. /\ window' = [window EXCEPT ![a] = p] /\ verdict' = [verdict EXCEPT ![a] = v]
      /\ history' = Append(history, <<a, clock>>) /\ clock' = clock
  BY DEF Fleet!Observe
<1>2. /\ v.at = clock /\ v.actions = Len(p) /\ v.runaway = (Len(p) >= RunawayMin)
      /\ v.level \in {"NOMINAL", "ELEVATED", "CRITICAL"} /\ v.alarm \in BOOLEAN
      /\ v.alarm = (v.level = "CRITICAL")
  BY VerdictWarns
<1>3. v = [at |-> v.at, actions |-> v.actions, runaway |-> v.runaway,
           level |-> v.level, alarm |-> v.alarm]
  BY DEF Fleet!Verdict
<1>4. /\ p \in Seq(Nat) /\ Len(p) \in Nat
      /\ \A T \in Int : T >= clock - Minute =>
             Len(Select(p, From(T)))
               = IF clock >= T THEN Cardinality(Since(a, T)) + 1 ELSE Cardinality(Since(a, T))
      /\ Len(p) = Cardinality(Since(a, clock - Minute)) + 1
  BY WindowAfter, VerdictsAssumption, LenProperties
<1> HIDE DEF p, v
<1>5. FleetTypes'
  <2>1. v \in [at : Nat, actions : Nat, runaway : BOOLEAN,
               level : {"NOMINAL", "ELEVATED", "CRITICAL"}, alarm : BOOLEAN]
    <3>1. v.at \in Nat /\ v.actions \in Nat /\ v.runaway \in BOOLEAN
      BY <1>2, <1>4, VerdictsAssumption DEF FleetTypes, VerdictsAssumption
    <3>2. QED
      BY <1>2, <1>3, <3>1
  <2>2. verdict' \in [Agents -> [at : Nat, actions : Nat, runaway : BOOLEAN,
                      level : {"NOMINAL", "ELEVATED", "CRITICAL"}, alarm : BOOLEAN]]
    BY <1>1, <2>1 DEF FleetTypes
  <2>3. history' \in Seq(Agents \X Nat) /\ \A i \in DOMAIN history' : history'[i][2] <= clock
    <3> DEFINE e == <<a, clock>>
    <3>1. /\ e \in Agents \X Nat /\ e[2] = clock /\ clock \in Nat /\ history \in Seq(Agents \X Nat)
          /\ \A i \in DOMAIN history : history[i][2] <= clock
      BY DEF FleetTypes
    <3> HIDE DEF e
    <3>2. /\ Append(history, e) \in Seq(Agents \X Nat)
          /\ DOMAIN Append(history, e) = 1..(Len(history) + 1)
          /\ Append(history, e)[Len(history) + 1] = e
          /\ \A i \in 1..Len(history) : Append(history, e)[i] = history[i]
          /\ DOMAIN history = 1..Len(history) /\ Len(history) \in Nat
      BY <3>1, AppendProperties, LenProperties
    <3>3. \A i \in 1..(Len(history) + 1) : i \in 1..Len(history) \/ i = Len(history) + 1
      BY <3>2
    <3>4. history' = Append(history, e)
      BY <1>1 DEF e
    <3>5. \A i \in DOMAIN history' : history'[i][2] <= clock
      BY <3>1, <3>2, <3>3, <3>4
    <3>6. QED
      BY <3>2, <3>4, <3>5
  <2>4. window' \in [Agents -> Seq(Nat)]
    BY <1>1, <1>4 DEF FleetTypes
  <2>5. QED
    BY <1>1, <2>2, <2>3, <2>4 DEF FleetTypes
<1>6. \A b \in Agents, T \in Int :
        Cardinality(Since(b, T)') = IF b = a /\ clock >= T THEN Cardinality(Since(b, T)) + 1
                                    ELSE Cardinality(Since(b, T))
  BY <1>1, SinceObserved
<1>7. WindowKept'
  <2> SUFFICES ASSUME NEW b \in Agents, NEW T \in Int, T >= clock - Minute
               PROVE  Len(Select(window'[b], From(T))) = Cardinality(Since(b, T)')
    BY <1>1 DEF WindowKept
  <2>1. CASE b = a
    BY <1>1, <1>4, <1>6, <2>1 DEF FleetTypes
  <2>2. CASE b # a
    BY <1>1, <1>6, <2>2 DEF FleetTypes, WindowKept
  <2>3. QED
    BY <2>1, <2>2
<1>8. WindowExact'
  <2> SUFFICES ASSUME NEW b \in Agents
               PROVE  LET seen == Cardinality(Recent(b, verdict[b].at)')
                      IN  /\ verdict'[b].actions = seen
                          /\ verdict'[b].runaway = (seen >= RunawayMin)
    BY DEF WindowExact
  <2>1. CASE b = a
    <3>1. verdict'[b] = v
      BY <1>1, <2>1 DEF FleetTypes
    <3>2. Recent(b, verdict[b].at)' = Since(a, clock - Minute)'
      BY <1>1, <1>2, <2>1, <3>1 DEF Recent, Since
    <3>3. clock - Minute \in Int /\ clock >= clock - Minute
      BY VerdictsAssumption DEF FleetTypes, VerdictsAssumption
    <3>4. Cardinality(Since(a, clock - Minute)') = Len(p)
      BY <1>1, <1>4, <1>6, <3>3
    <3>5. QED
      BY <1>2, <3>1, <3>2, <3>4
  <2>2. CASE b # a
    <3>1. verdict'[b] = verdict[b] /\ verdict[b].at \in Nat
      BY <1>1, <2>2 DEF FleetTypes
    <3>2. PICK T \in Int : T = verdict[b].at - Minute
      BY <3>1, VerdictsAssumption DEF VerdictsAssumption
    <3>3. Recent(b, verdict[b].at)' = Since(b, T)' /\ Recent(b, verdict[b].at) = Since(b, T)
      BY <3>1, <3>2 DEF Recent, Since
    <3>4. Cardinality(Since(b, T)') = Cardinality(Since(b, T))
      BY <1>6, <2>2
    <3>5. QED
      BY <3>1, <3>3, <3>4 DEF WindowExact
  <2>3. QED
    BY <2>1, <2>2
<1>9. AlarmMeansCritical'
  BY <1>1, <1>2 DEF AlarmMeansCritical, FleetTypes
<1>10. QED
  BY <1>5, <1>7, <1>8, <1>9

LEMMA FleetNext == FleetInv /\ [Fleet!Next]_(Fleet!vars) => FleetInv'
<1> SUFFICES ASSUME FleetInv, [Fleet!Next]_(Fleet!vars) PROVE FleetInv'
  OBVIOUS
<1>1. ASSUME UNCHANGED <<window, history, verdict>>, clock' \in Nat, clock' >= clock
      PROVE  FleetInv'
  <2> USE <1>1 DEF FleetInv
  <2>1. FleetTypes'
    BY DEF FleetTypes
  <2>2. WindowKept'
    <3>1. \A a, T : Since(a, T)' = Since(a, T)
      <4>1. history' = history
        OBVIOUS
      <4>2. QED
        BY <4>1 DEF Since
    <3>2. \A T \in Int : T >= clock' - Minute => T >= clock - Minute
      <4> DEFINE later == clock'
      <4>1. Minute \in Nat /\ clock \in Nat /\ later \in Nat /\ later >= clock
        BY VerdictsAssumption DEF FleetTypes
      <4> HIDE <1>1 DEF later
      <4>2. \A T \in Int : T >= later - Minute => T >= clock - Minute
        BY <4>1
      <4>3. QED
        BY <4>2 DEF later
    <3>3. QED
      BY <3>1, <3>2 DEF WindowKept
  <2>3. WindowExact' /\ AlarmMeansCritical'
    BY DEF WindowExact, AlarmMeansCritical, Recent
  <2>4. QED
    BY <2>1, <2>2, <2>3
<1>2. CASE Fleet!Tick
  BY <1>1, <1>2 DEF Fleet!Tick, FleetInv, FleetTypes
<1>3. ASSUME NEW a \in Agents, Fleet!Register(a) PROVE FleetInv'
  BY <1>1, <1>3 DEF Fleet!Register, FleetInv, FleetTypes
<1>4. CASE UNCHANGED Fleet!vars
  BY <1>1, <1>4 DEF Fleet!vars, FleetInv, FleetTypes
<1>5. QED
  BY <1>2, <1>3, <1>4, FleetObserve DEF Fleet!Next

\* However rarely an agent's times are pruned, its last verdict counts its observations of
\* the minute before it (TemporalAnomalyEngine.evaluate).
THEOREM WindowsExact == Fleet!Spec => []WindowExact
<1>1. FleetInv => WindowExact
  BY DEF FleetInv
<1>2. QED
  BY FleetInit, FleetNext, <1>1, PTL DEF Fleet!Spec

\* The cockpit warns of exactly what the engine calls CRITICAL (BayesianRiskEngine.evaluate,
\* handleLiveObservation).
THEOREM WarningsAgree == Fleet!Spec => []AlarmMeansCritical
<1>1. FleetInv => AlarmMeansCritical
  BY DEF FleetInv
<1>2. QED
  BY FleetInit, FleetNext, <1>1, PTL DEF Fleet!Spec

-----------------------------------------------------------------------------
(* The feed is a sequence of events: what is proved of an event holds of   *)
(* each of the feed.                                                       *)

FeedInv == feed \in Seq(Events)

LEMMA FeedInvHolds == Feed!Spec => []FeedInv
<1>1. Feed!Init => FeedInv
  BY DEF Feed!Init, FeedInv
<1>2. FeedInv /\ [Feed!Next]_(Feed!vars) => FeedInv'
  BY AppendProperties
     DEF FeedInv, Feed!Next, Feed!Arrive, Feed!OpenPr, Feed!Seal, Feed!Edit, Feed!vars
<1>3. QED
  BY <1>1, <1>2, PTL DEF Feed!Spec

LEMMA RisksReviewed == FeedInv => HighRiskIsReviewed
<1> SUFFICES ASSUME FeedInv, NEW i \in DOMAIN feed,
                    Level(EvaluateRisk(feed[i])) \in {"HIGH", "CRITICAL"},
                    NEW words \in SUBSET {"bump", "docs", "fix", "feat", "migration"}
             PROVE  NeedsHumanOracle(words, EvaluateRisk(feed[i]))
  BY DEF HighRiskIsReviewed
<1> DEFINE e == feed[i]
           r == EvaluateRisk(e)
<1>1. e \in Events
  BY DEF FeedInv
<1> HIDE DEF e
<1>2. /\ PlaneWeight[e.plane] \in Nat /\ ActionWeight[e.action] \in Nat
      /\ ActorWeight[e.kind] \in Nat
  <2>1. PlaneWeight \in [DOMAIN PlaneWeight -> Nat]
    BY DEF PlaneWeight
  <2>2. ActionWeight \in [DOMAIN ActionWeight -> Nat]
    BY DEF ActionWeight
  <2>3. ActorWeight \in [DOMAIN ActorWeight -> Nat]
    BY DEF ActorWeight
  <2>4. QED
    BY <1>1, <2>1, <2>2, <2>3, EventsAssumption
<1>3. r \in Nat
  BY <1>2 DEF EvaluateRisk
<1> HIDE DEF r
<1>4. Level(r) \in {"HIGH", "CRITICAL"}
  BY DEF r, e
<1>5. r >= 50
  BY <1>3, <1>4 DEF Level
<1>6. QED
  BY <1>5 DEF NeedsHumanOracle, r, e

\* No task of an event of HIGH or CRITICAL level is admitted without a human
\* (evaluateRisk, activeLearningTriage).
THEOREM HighRiskReviewed == Feed!Spec => []HighRiskIsReviewed
BY FeedInvHolds, RisksReviewed, PTL

-----------------------------------------------------------------------------
(* The hash chain: whatever was edited and hashed anew, a chain is a       *)
(* sequence of blocks over some hashes; and when it verifies, each hash    *)
(* names the position, the event and the hash before it, so that equal     *)
(* hashes have equal pasts.                                                *)

\* The first n blocks over s.
IsChain(f, s, n) ==
    f = [i \in 1..n |-> Block(i, s[i], IF i = 1 THEN Genesis ELSE f[i - 1].hash)]

LEMMA ChainExists == ASSUME NEW s PROVE \A n \in Nat : \E f : IsChain(f, s, n)
<1> DEFINE T == {n \in Nat : \E f : IsChain(f, s, n)}
<1>1. 0 \in T
  <2>1. IsChain([i \in 1..0 |-> <<>>], s, 0)
    BY DEF IsChain
  <2>2. QED
    BY <2>1
<1>2. ASSUME NEW n \in Nat, n \in T PROVE n + 1 \in T
  <2>1. PICK f : IsChain(f, s, n)
    BY <1>2
  <2> DEFINE b == Block(n + 1, s[n + 1], IF n + 1 = 1 THEN Genesis ELSE f[n].hash)
             g == [i \in 1..(n + 1) |-> IF i = n + 1 THEN b ELSE f[i]]
  <2>2. \A i \in 1..n : f[i] = Block(i, s[i], IF i = 1 THEN Genesis ELSE f[i - 1].hash)
    BY <2>1 DEF IsChain
  <2>3. \A i \in 1..(n + 1) : g[i] = Block(i, s[i], IF i = 1 THEN Genesis ELSE g[i - 1].hash)
    <3>1. TAKE i \in 1..(n + 1)
    <3>2. CASE i = n + 1
      <4>1. g[i] = b
        BY <3>2
      <4>2. i # 1 => i - 1 = n /\ i - 1 \in 1..(n + 1) /\ i - 1 # n + 1
        BY <3>2
      <4>3. i # 1 => g[i - 1] = f[n]
        BY <4>2
      <4>4. QED
        BY <3>2, <4>1, <4>3
    <3>3. CASE i # n + 1
      <4>1. i \in 1..n /\ g[i] = f[i]
        BY <3>3
      <4>2. i # 1 => i - 1 \in 1..(n + 1) /\ i - 1 # n + 1
        BY <3>3
      <4>3. i # 1 => g[i - 1] = f[i - 1]
        BY <4>2
      <4>4. QED
        BY <2>2, <4>1, <4>3
    <3>4. QED
      BY <3>2, <3>3
  <2>4. g = [i \in 1..(n + 1) |-> g[i]]
    OBVIOUS
  <2> HIDE DEF g
  <2>5. IsChain(g, s, n + 1)
    BY <2>3, <2>4 DEF IsChain
  <2>6. QED
    BY <2>5
<1>3. Nat \subseteq T
  <2> HIDE DEF T
  <2>1. QED
    BY <1>1, <1>2, NatSetInduction
<1>4. QED
  BY <1>3

\* The blocks of the generated chain, and that it depends on what is sealed alone.
LEMMA Generated ==
    ASSUME NEW events \in Seq(Events)
    PROVE  LET s == Sealable(events)
               c == GenerateHashChain(events)
           IN  /\ s \in Seq(Events) /\ Sealable(s) = s
               /\ IsChain(c, s, Len(s))
               /\ GenerateHashChain(s) = c
<1> DEFINE s == Sealable(events)
           m == IF Len(events) < MaxBlocks THEN Len(events) ELSE MaxBlocks
<1>1. MaxBlocks \in Nat /\ Len(events) \in Nat /\ m \in 0..Len(events) /\ m \in 0..MaxBlocks
  BY ChainAssumption
<1>2. s = SubSeq(events, 1, m)
  BY DEF Sealable
<1>3. s \in Seq(Events) /\ Len(s) = m
  BY <1>1, <1>2, SubSeqProperties
<1> HIDE DEF s
<1>4. Sealable(s) = s
  <2>1. (IF Len(s) < MaxBlocks THEN Len(s) ELSE MaxBlocks) = Len(s)
    BY <1>1, <1>3
  <2>2. SubSeq(s, 1, Len(s)) = s
    BY <1>3, SubSeqProperties, SeqEqual
  <2>3. QED
    BY <2>1, <2>2 DEF Sealable
<1>5. Len(s) \in Nat
  BY <1>3
<1>6. GenerateHashChain(events) = CHOOSE f : IsChain(f, s, Len(s))
  BY DEF GenerateHashChain, IsChain, s
<1>7. GenerateHashChain(s) = CHOOSE f : IsChain(f, s, Len(s))
  BY <1>4 DEF GenerateHashChain, IsChain
<1>8. \E f : IsChain(f, s, Len(s))
  BY <1>5, ChainExists
<1>9. IsChain(GenerateHashChain(events), s, Len(s))
  BY <1>6, <1>8
<1>10. QED
  BY <1>3, <1>4, <1>6, <1>7, <1>9 DEF s

\* A hash is not the predecessor of the first block.
LEMMA TripleNotEmpty == ASSUME NEW a, NEW b, NEW c PROVE <<a, b, c>> # <<>>
<1>1. Len(<<a, b, c>>) = 3 /\ Len(<<>>) = 0
  OBVIOUS
<1>2. QED
  BY <1>1

HashSet(g, m) == {g[i].hash : i \in 1..m} \union {Genesis}

Blocks(H) == [payload : [index : Nat, event : Events, prev : H], prevHash : H, hash : H]

Before(c, i) == IF i = 1 THEN Genesis ELSE c[i - 1].hash

LEMMA GeneratedHashes ==
    ASSUME NEW s \in Seq(Events), NEW c, IsChain(c, s, Len(s))
    PROVE  /\ DOMAIN c = 1..Len(s)
           /\ \A i \in 1..Len(s) : c[i] = Block(i, s[i], Before(c, i))
           /\ \A i \in 1..Len(s) : c[i].hash = <<i, s[i], Before(c, i)>>
<1>1. DOMAIN c = 1..Len(s) /\ \A i \in 1..Len(s) : c[i] = Block(i, s[i], Before(c, i))
  BY DEF IsChain, Before
<1>2. \A i, e, h : Block(i, e, h).hash = <<i, e, h>>
  BY DEF Block, Hash
<1>3. QED
  BY <1>1, <1>2

LEMMA GeneratedType ==
    ASSUME NEW s \in Seq(Events), NEW c, IsChain(c, s, Len(s))
    PROVE  c \in Seq(Blocks(HashSet(c, Len(s)))) /\ Verified(c)
<1> DEFINE n == Len(s)
           H == HashSet(c, n)
<1>1. /\ DOMAIN c = 1..n /\ n \in Nat
      /\ \A i \in 1..n : c[i] = Block(i, s[i], Before(c, i))
      /\ \A i \in 1..n : s[i] \in Events
  BY GeneratedHashes
<1>2. \A i \in 1..n : c[i].hash \in H
  BY DEF HashSet
<1>3. \A i \in 1..n : Before(c, i) \in H
  <2>1. TAKE i \in 1..n
  <2>2. CASE i = 1
    BY <2>2 DEF Before, HashSet
  <2>3. CASE i # 1
    <3>1. i - 1 \in 1..n
      BY <1>1, <2>3
    <3>2. QED
      BY <1>2, <2>3, <3>1 DEF Before
  <2>4. QED
    BY <2>2, <2>3
<1> HIDE DEF H
<1>4. \A i \in 1..n : c[i] \in Blocks(H)
  <2>1. TAKE i \in 1..n
  <2> DEFINE b == Block(i, s[i], Before(c, i))
  <2>2. b = [payload |-> [index |-> i, event |-> s[i], prev |-> Before(c, i)],
             prevHash |-> Before(c, i), hash |-> b.hash]
    BY DEF Block
  <2>3. b = c[i] /\ b.hash \in H /\ Before(c, i) \in H /\ s[i] \in Events /\ i \in Nat
    BY <1>1, <1>2, <1>3
  <2> HIDE DEF b
  <2>4. QED
    BY <2>2, <2>3 DEF Blocks
<1>5. c \in Seq(Blocks(H))
  <2>1. c = [i \in 1..n |-> c[i]]
    BY <1>1 DEF IsChain
  <2>2. c \in [1..n -> Blocks(H)]
    BY <1>4, <2>1
  <2>3. \A k \in Nat : [1..k -> Blocks(H)] \subseteq Seq(Blocks(H))
    BY SeqDef, Zenon
  <2>4. QED
    BY <1>1, <2>2, <2>3, Zenon
<1>6. Verified(c)
  <2> SUFFICES ASSUME NEW i \in 1..n PROVE c[i].prevHash = Expected(c, i) /\ ContentOk(c, i)
    BY <1>1 DEF Verified
  <2>1. Expected(c, i) = Before(c, i)
    BY DEF Expected, Before
  <2>2. /\ c[i].prevHash = Before(c, i)
        /\ c[i].payload = [index |-> i, event |-> s[i], prev |-> Before(c, i)]
        /\ c[i].hash = Hash(c[i].payload)
    BY <1>1 DEF Block
  <2>3. [c[i].payload EXCEPT !.prev = Before(c, i)] = c[i].payload
    BY <2>2
  <2>4. QED
    BY <2>1, <2>2, <2>3 DEF ContentOk
<1>7. QED
  BY <1>5, <1>6 DEF H

\* A block that verifies has the hash of its position, its event and the block before it.
LEMMA VerifiedHash ==
    ASSUME NEW H, NEW c \in Seq(Blocks(H)), Verified(c), NEW i \in 1..Len(c)
    PROVE  c[i].hash = <<c[i].payload.index, c[i].payload.event, Before(c, i)>>
<1> DEFINE p == c[i].payload
<1>1. DOMAIN c = 1..Len(c) /\ c[i] \in Blocks(H)
  OBVIOUS
<1>2. Expected(c, i) = Before(c, i) /\ ContentOk(c, i)
  BY <1>1 DEF Verified, Expected, Before
<1>3. p \in [index : Nat, event : Events, prev : H]
  BY <1>1 DEF Blocks
<1>4. Hash([p EXCEPT !.prev = Before(c, i)]) = c[i].hash
  BY <1>2 DEF ContentOk
<1> HIDE DEF p
<1>5. Hash([p EXCEPT !.prev = Before(c, i)]) = <<p.index, p.event, Before(c, i)>>
  BY <1>3 DEF Hash
<1>6. QED
  BY <1>4, <1>5 DEF p

\* What a hash of the generated chain vouches for, in a chain that verifies.
LEMMA HashVouches ==
    ASSUME NEW s \in Seq(Events), NEW g, IsChain(g, s, Len(s)),
           NEW H, NEW c \in Seq(Blocks(H)), Verified(c)
    PROVE  \A i \in 1..Len(c), k \in 1..Len(s) :
               c[i].hash = g[k].hash =>
                   i = k /\ \A j \in 1..i : c[j].payload.event = s[j]
<1> DEFINE m == Len(s)
           n == Len(c)
           Same(i, k) == i = k /\ \A j \in 1..i : c[j].payload.event = s[j]
           T == {i \in Nat : i \in 1..n =>
                    \A k \in 1..m : c[i].hash = g[k].hash => Same(i, k)}
<1>1. \A k \in 1..m : g[k].hash = <<k, s[k], Before(g, k)>>
  BY GeneratedHashes
<1>2. \A i \in 1..n : c[i].hash = <<c[i].payload.index, c[i].payload.event, Before(c, i)>>
  BY VerifiedHash
<1>3. n \in Nat /\ m \in Nat
  OBVIOUS
<1> HIDE DEF m, n
<1>4. 0 \in T
  BY <1>3
<1>5. ASSUME NEW i \in Nat, i \in T PROVE i + 1 \in T
  <2> SUFFICES ASSUME i + 1 \in 1..n, NEW k \in 1..m, c[i + 1].hash = g[k].hash
               PROVE  Same(i + 1, k)
    BY <1>5
  <2>1. <<c[i + 1].payload.index, c[i + 1].payload.event, Before(c, i + 1)>> = <<k, s[k], Before(g, k)>>
    BY <1>1, <1>2
  <2>2. c[i + 1].payload.event = s[k] /\ Before(c, i + 1) = Before(g, k)
    BY <2>1
  <2>3. CASE i = 0
    <3>1. Before(c, i + 1) = <<>>
      BY <2>3 DEF Before, Genesis
    <3>2. ASSUME k # 1 PROVE FALSE
      <4>1. k - 1 \in 1..m /\ Before(g, k) = g[k - 1].hash
        BY <1>3, <3>2 DEF Before
      <4>2. g[k - 1].hash = <<k - 1, s[k - 1], Before(g, k - 1)>>
        BY <1>1, <4>1
      <4>3. QED
        BY <2>2, <3>1, <4>1, <4>2, TripleNotEmpty
    <3>3. k = 1
      BY <3>2
    <3>4. QED
      BY <2>2, <2>3, <3>3
  <2>4. CASE i # 0
    <3>1. i \in 1..n /\ Before(c, i + 1) = c[i].hash
      BY <1>3, <2>4 DEF Before
    <3>2. c[i].hash = <<c[i].payload.index, c[i].payload.event, Before(c, i)>>
      BY <1>2, <3>1
    <3>3. ASSUME k = 1 PROVE FALSE
      <4>1. Before(g, k) = <<>>
        BY <3>3 DEF Before, Genesis
      <4>2. QED
        BY <2>2, <3>1, <3>2, <4>1, TripleNotEmpty
    <3>4. k - 1 \in 1..m /\ Before(g, k) = g[k - 1].hash
      BY <1>3, <3>3 DEF Before
    <3>5. c[i].hash = g[k - 1].hash
      BY <2>2, <3>1, <3>4
    <3>6. Same(i, k - 1)
      BY <1>5, <3>1, <3>4, <3>5
    <3>7. i + 1 = k
      BY <1>3, <3>6
    <3>8. \A j \in 1..(i + 1) : j \in 1..i \/ j = i + 1
      OBVIOUS
    <3>9. \A j \in 1..(i + 1) : c[j].payload.event = s[j]
      BY <2>2, <3>6, <3>7, <3>8
    <3>10. QED
      BY <3>7, <3>9
  <2>5. QED
    BY <2>3, <2>4
<1>6. Nat \subseteq T
  <2> HIDE DEF T
  <2>1. QED
    BY <1>4, <1>5, NatSetInduction
<1>7. QED
  BY <1>3, <1>6 DEF n, m

\* Chains whose events agree up to a place have one beginning.
LEMMA SameBeginning ==
    ASSUME NEW s \in Seq(Events), NEW H, NEW c \in Seq(Blocks(H)),
           NEW i \in 1..Len(c), i \in 1..Len(s),
           \A j \in 1..i : c[j].payload.event = s[j]
    PROVE  SubSeq(EventsOf(c), 1, i) = SubSeq(s, 1, i)
<1> DEFINE d == EventsOf(c)
<1>1. Len(c) \in Nat /\ DOMAIN c = 1..Len(c) /\ \A j \in 1..Len(c) : c[j] \in Blocks(H)
  OBVIOUS
<1>2. \A j \in 1..Len(c) : c[j].payload.event \in Events
  BY <1>1 DEF Blocks
<1>3. d = [j \in 1..Len(c) |-> c[j].payload.event]
  BY <1>1 DEF EventsOf
<1>4. d \in [1..Len(c) -> Events] /\ \A j \in 1..Len(c) : d[j] = c[j].payload.event
  BY <1>2, <1>3
<1> HIDE DEF d
<1>5. d \in Seq(Events) /\ Len(d) = Len(c)
  <2>1. \A k \in Nat : [1..k -> Events] \subseteq Seq(Events)
    BY SeqDef, Zenon
  <2>2. d \in Seq(Events)
    BY <1>1, <1>4, <2>1, Zenon
  <2>3. QED
    BY <1>1, <1>4, <2>2, LenProperties
<1>6. SubSeq(d, 1, i) \in Seq(Events) /\ Len(SubSeq(d, 1, i)) = i
      /\ \A j \in 1..i : SubSeq(d, 1, i)[j] = d[j]
  BY <1>1, <1>5, SubSeqProperties
<1>7. SubSeq(s, 1, i) \in Seq(Events) /\ Len(SubSeq(s, 1, i)) = i
      /\ \A j \in 1..i : SubSeq(s, 1, i)[j] = s[j]
  BY SubSeqProperties
<1>8. \A j \in 1..i : d[j] = s[j]
  BY <1>1, <1>4
<1>9. SubSeq(d, 1, i) = SubSeq(s, 1, i)
  BY <1>6, <1>7, <1>8, SeqEqual
<1>10. QED
  BY <1>9 DEF d

-----------------------------------------------------------------------------
\* The operators of the instance are those of HashChain.
LEMMA SameChain ==
    /\ \A e : Feed!Sealable(e) = Sealable(e)
    /\ \A e : Feed!GenerateHashChain(e) = GenerateHashChain(e)
    /\ \A i, e, h : Feed!Block(i, e, h) = Block(i, e, h)
    /\ \A c, i : Feed!RemoveAt(c, i) = RemoveAt(c, i)
BY DEF Feed!Sealable, Sealable, Feed!GenerateHashChain, GenerateHashChain, Feed!Genesis, Genesis,
       Feed!Block, Block, Feed!Hash, Hash, Feed!RemoveAt, RemoveAt

ChainInv ==
    /\ FeedInv
    /\ sealed \in Seq(Events) /\ Sealable(sealed) = sealed
    /\ \E H : chain \in Seq(Blocks(H))
    /\ edits \in Nat
    /\ edits = 0 => Verified(chain)

LEMMA ChainInit == Feed!Init => ChainInv
<1> SUFFICES ASSUME Feed!Init PROVE ChainInv
  OBVIOUS
<1> USE DEF Feed!Init
<1>1. FeedInv
  BY DEF FeedInv
<1>2. Sealable(<<>>) = <<>>
  <2>1. (IF Len(<<>>) < MaxBlocks THEN Len(<<>>) ELSE MaxBlocks) = 0
    BY ChainAssumption
  <2>2. SubSeq(<<>>, 1, 0) = <<>>
    OBVIOUS
  <2>3. QED
    BY <2>1, <2>2 DEF Sealable
<1>3. Verified(<<>>)
  BY DEF Verified
<1>4. QED
  BY <1>1, <1>2, <1>3 DEF ChainInv

\* An edit leaves a sequence of blocks, over the hashes it has and the editor's.
LEMMA EditedType ==
    ASSUME NEW H, NEW c \in Seq(Blocks(H)), c # <<>>, NEW d \in Feed!Edited(c)
    PROVE  \E G : d \in Seq(Blocks(G))
<1> DEFINE n == Len(c)
           New(e) == Block(n + 1, e, c[n].hash)
           K == Feed!Computable(c)
           G == H \union K \union {New(e).hash : e \in Events}
           B == Blocks(G)
<1>1. n \in Nat /\ n \in 1..n /\ DOMAIN c = 1..n /\ \A i \in 1..n : c[i] \in Blocks(H)
  BY EmptySeq
<1>2. Blocks(H) \subseteq B
  BY DEF Blocks
<1>3. c \in Seq(B) /\ \A i \in 1..n : c[i] \in B
  BY <1>1, <1>2
<1>4. \/ \E i \in 1..n :
           \/ \E e \in Events : d = [c EXCEPT ![i].payload.event = e]
           \/ \E k \in 1..MaxBlocks : d = [c EXCEPT ![i].payload.index = k]
           \/ \E h \in K : d = [c EXCEPT ![i].payload.prev = h]
           \/ \E h \in K : d = [c EXCEPT ![i].prevHash = h]
           \/ \E h \in K : d = [c EXCEPT ![i].hash = h]
           \/ d = RemoveAt(c, i)
           \/ \E j \in 1..n : d = [c EXCEPT ![i] = c[j], ![j] = c[i]]
      \/ \E e \in Events : d = Append(c, New(e))
  <2> DEFINE Event(i) == {[c EXCEPT ![i].payload.event = e] : e \in Events}
             Index(i) == {[c EXCEPT ![i].payload.index = k] : k \in 1..MaxBlocks}
             Prev(i) == {[c EXCEPT ![i].payload.prev = h] : h \in K}
             Link(i) == {[c EXCEPT ![i].prevHash = h] : h \in K}
             Hashed(i) == {[c EXCEPT ![i].hash = h] : h \in K}
             Swapped(i) == {[c EXCEPT ![i] = c[j], ![j] = c[i]] : j \in DOMAIN c}
             Altered(i) == Event(i) \union Index(i) \union Prev(i) \union Link(i) \union Hashed(i)
             Moved(i) == {Feed!RemoveAt(c, i)} \union Swapped(i)
             Longer == {Append(c, Feed!Block(n + 1, e, c[n].hash)) : e \in Events}
  <2>1. d \in (UNION {Altered(i) \union Moved(i) : i \in DOMAIN c}) \union Longer
    BY Zenon DEF Feed!Edited
  <2>2. \/ \E i \in 1..n : \/ d \in Event(i) \/ d \in Index(i) \/ d \in Prev(i) \/ d \in Link(i)
                          \/ d \in Hashed(i) \/ d = Feed!RemoveAt(c, i) \/ d \in Swapped(i)
        \/ d \in Longer
    <3> HIDE DEF Event, Index, Prev, Link, Hashed, Swapped, Altered, Moved, Longer
    <3>1. CASE d \in Longer
      BY <3>1
    <3>2. CASE d \notin Longer
      <4>0. \E i \in DOMAIN c : d \in Altered(i) \/ d \in Moved(i)
        BY <2>1, <3>2, Zenon
      <4>1. PICK i \in 1..n : d \in Altered(i) \/ d \in Moved(i)
        BY <1>1, <4>0, Zenon
      <4>2. CASE d \in Altered(i)
        <5>1. d \in Event(i) \/ d \in Index(i) \/ d \in Prev(i) \/ d \in Link(i) \/ d \in Hashed(i)
          BY <4>2, Zenon DEF Altered
        <5>2. QED
          BY <5>1, Zenon
      <4>3. CASE d \in Moved(i)
        <5>1. d = Feed!RemoveAt(c, i) \/ d \in Swapped(i)
          BY <4>3, Zenon DEF Moved
        <5>2. QED
          BY <5>1, Zenon
      <4>4. QED
        BY <4>1, <4>2, <4>3
    <3>3. QED
      BY <3>1, <3>2
  <2>3. d \in Longer => \E e \in Events : d = Append(c, New(e))
    BY SameChain
  <2>4. ASSUME NEW i
        PROVE  /\ d \in Event(i) => \E e \in Events : d = [c EXCEPT ![i].payload.event = e]
               /\ d \in Index(i) => \E k \in 1..MaxBlocks : d = [c EXCEPT ![i].payload.index = k]
               /\ d \in Prev(i) => \E h \in K : d = [c EXCEPT ![i].payload.prev = h]
               /\ d \in Link(i) => \E h \in K : d = [c EXCEPT ![i].prevHash = h]
               /\ d \in Hashed(i) => \E h \in K : d = [c EXCEPT ![i].hash = h]
               /\ d \in Swapped(i) => \E j \in 1..n : d = [c EXCEPT ![i] = c[j], ![j] = c[i]]
    BY <1>1
  <2> HIDE DEF Event, Index, Prev, Link, Hashed, Swapped, Longer
  <2>5. QED
    BY <2>2, <2>3, <2>4, SameChain
<1> HIDE DEF K, New
<1>5. ASSUME NEW i \in 1..n, NEW b \in B, d = [c EXCEPT ![i] = b] PROVE d \in Seq(B)
  BY <1>1, <1>3, <1>5
<1>6. ASSUME NEW i \in 1..n, NEW e \in Events, d = [c EXCEPT ![i].payload.event = e]
      PROVE  d \in Seq(B)
  <2>1. [c[i] EXCEPT !.payload.event = e] \in B
    BY <1>3 DEF Blocks
  <2>2. d = [c EXCEPT ![i] = [c[i] EXCEPT !.payload.event = e]]
    BY <1>6
  <2>3. QED
    BY <1>5, <2>1, <2>2
<1>7. ASSUME NEW i \in 1..n, NEW k \in 1..MaxBlocks, d = [c EXCEPT ![i].payload.index = k]
      PROVE  d \in Seq(B)
  <2>0. k \in Nat
    BY ChainAssumption
  <2>1. [c[i] EXCEPT !.payload.index = k] \in B
    BY <1>3, <2>0 DEF Blocks
  <2>2. d = [c EXCEPT ![i] = [c[i] EXCEPT !.payload.index = k]]
    BY <1>7
  <2>3. QED
    BY <1>5, <2>1, <2>2
<1>8. ASSUME NEW i \in 1..n, NEW h \in K, d = [c EXCEPT ![i].payload.prev = h]
      PROVE  d \in Seq(B)
  <2>1. [c[i] EXCEPT !.payload.prev = h] \in B
    BY <1>3 DEF Blocks
  <2>2. d = [c EXCEPT ![i] = [c[i] EXCEPT !.payload.prev = h]]
    BY <1>8
  <2>3. QED
    BY <1>5, <2>1, <2>2
<1>9. ASSUME NEW i \in 1..n, NEW h \in K, d = [c EXCEPT ![i].prevHash = h] PROVE d \in Seq(B)
  <2>1. [c[i] EXCEPT !.prevHash = h] \in B
    BY <1>3 DEF Blocks
  <2>2. QED
    BY <1>5, <1>9, <2>1
<1>10. ASSUME NEW i \in 1..n, NEW h \in K, d = [c EXCEPT ![i].hash = h] PROVE d \in Seq(B)
  <2>1. [c[i] EXCEPT !.hash = h] \in B
    BY <1>3 DEF Blocks
  <2>2. QED
    BY <1>5, <1>10, <2>1
<1>11. ASSUME NEW i \in 1..n, d = RemoveAt(c, i) PROVE d \in Seq(B)
  <2>1. d = SubSeq(c, 1, i - 1) \o SubSeq(c, i + 1, n)
    BY <1>11 DEF RemoveAt
  <2>2. SubSeq(c, 1, i - 1) \in Seq(B) /\ SubSeq(c, i + 1, n) \in Seq(B)
    BY <1>1, <1>3, SubSeqProperties
  <2>3. QED
    BY <2>1, <2>2, ConcatProperties
<1>12. ASSUME NEW i \in 1..n, NEW j \in 1..n, d = [c EXCEPT ![i] = c[j], ![j] = c[i]]
       PROVE  d \in Seq(B)
  BY <1>1, <1>3, <1>12
<1>13. ASSUME NEW e \in Events, d = Append(c, New(e)) PROVE d \in Seq(B)
  <2>1. New(e) = [payload |-> [index |-> n + 1, event |-> e, prev |-> c[n].hash],
                  prevHash |-> c[n].hash, hash |-> New(e).hash]
    BY DEF New, Block
  <2>2. c[n].hash \in G /\ New(e).hash \in G /\ n + 1 \in Nat
    BY <1>1 DEF Blocks
  <2> HIDE DEF G
  <2>3. New(e) \in B
    BY <2>1, <2>2 DEF Blocks
  <2>4. QED
    BY <1>3, <1>13, <2>3, AppendProperties
<1> HIDE DEF B
<1>14. d \in Seq(B)
  BY <1>4, <1>6, <1>7, <1>8, <1>9, <1>10, <1>11, <1>12, <1>13
<1>15. QED
  BY <1>14 DEF B

LEMMA ChainNext == ChainInv /\ [Feed!Next]_(Feed!vars) => ChainInv'
<1> SUFFICES ASSUME ChainInv, [Feed!Next]_(Feed!vars) PROVE ChainInv'
  OBVIOUS
<1>1. ASSUME NEW e \in Events, Feed!Arrive(e) PROVE ChainInv'
  <2>1. UNCHANGED <<chain, sealed, edits>> /\ feed' = Append(feed, e)
    BY <1>1 DEF Feed!Arrive
  <2>2. feed' \in Seq(Events)
    BY <2>1, AppendProperties DEF ChainInv, FeedInv
  <2>3. QED
    BY <2>1, <2>2 DEF ChainInv, FeedInv
<1>2. ASSUME NEW pr \in Prs, Feed!OpenPr(pr) PROVE ChainInv'
  BY <1>2 DEF Feed!OpenPr, ChainInv, FeedInv
<1>3. CASE Feed!Seal
  <2>1. /\ chain' = GenerateHashChain(feed) /\ sealed' = Sealable(feed)
        /\ feed' = feed /\ edits' = edits /\ feed \in Seq(Events)
    BY <1>3, SameChain DEF Feed!Seal, ChainInv, FeedInv
  <2>2. /\ sealed' \in Seq(Events) /\ Sealable(sealed') = sealed'
        /\ IsChain(chain', sealed', Len(sealed'))
    BY <2>1, Generated
  <2>3. chain' \in Seq(Blocks(HashSet(chain', Len(sealed')))) /\ Verified(chain')
    BY <2>2, GeneratedType
  <2>4. QED
    BY <2>1, <2>2, <2>3 DEF ChainInv, FeedInv
<1>4. CASE Feed!Edit
  <2>1. /\ edits' = edits + 1 /\ chain' \in Feed!Edited(chain) /\ chain # <<>>
        /\ feed' = feed /\ sealed' = sealed
    BY <1>4 DEF Feed!Edit
  <2>2. PICK H : chain \in Seq(Blocks(H))
    BY DEF ChainInv
  <2>3. \E G : chain' \in Seq(Blocks(G))
    BY <2>1, <2>2, EditedType
  <2>4. edits' \in Nat /\ edits' # 0
    BY <2>1 DEF ChainInv
  <2>5. QED
    BY <2>1, <2>3, <2>4 DEF ChainInv, FeedInv
<1>5. CASE UNCHANGED Feed!vars
  BY <1>5 DEF Feed!vars, ChainInv, FeedInv
<1>6. QED
  BY <1>1, <1>2, <1>3, <1>4, <1>5 DEF Feed!Next

\* A hash that was kept vouches for every event up to its block, in a chain that verifies
\* after any edits, forged hashes included; an untouched chain verifies
\* (verifyHashChainIntegrity, generateHashChain).
THEOREM TamperingShows == Feed!Spec => []TamperEvident
<1>1. ChainInv => TamperEvident
  <2> SUFFICES ASSUME ChainInv PROVE TamperEvident
    OBVIOUS
  <2>1. IsChain(Original, sealed, Len(sealed)) /\ sealed \in Seq(Events)
    BY Generated DEF ChainInv, Original
  <2>2. PICK H : chain \in Seq(Blocks(H))
    BY DEF ChainInv
  <2>3. DOMAIN chain = 1..Len(chain) /\ DOMAIN Original = 1..Len(sealed)
    BY <2>1, <2>2, GeneratedHashes
  <2>4. ASSUME Verified(chain), NEW i \in DOMAIN chain, NEW k \in DOMAIN Original,
               chain[i].hash = Original[k].hash
        PROVE  i = k /\ SubSeq(EventsOf(chain), 1, i) = SubSeq(sealed, 1, k)
    <3>1. i = k /\ \A j \in 1..i : chain[j].payload.event = sealed[j]
      BY <2>1, <2>2, <2>3, <2>4, HashVouches
    <3>2. QED
      BY <2>1, <2>2, <2>3, <3>1, SameBeginning
  <2>5. QED
    BY <2>4 DEF ChainInv, TamperEvident
<1>2. QED
  BY ChainInit, ChainNext, <1>1, PTL DEF Feed!Spec

-----------------------------------------------------------------------------
(* Evidence: the lower end of the Wilson interval moves with the outcomes, *)
(* because the score test of one more detection rejects what it rejected   *)
(* before, and that of one more miss nothing new.                          *)

LEMMA LargestElement ==
    ASSUME NEW T, T \subseteq 0..100, 0 \in T
    PROVE  Max(T) \in T /\ \A q \in T : Max(T) >= q
<1> DEFINE U == {u \in Nat : 100 - u \in T}
<1>1. 100 \in U
  OBVIOUS
<1>2. PICK u \in U : \A v \in U : u <= v
  BY <1>1, LeastElement
<1>3. 100 - u \in T /\ \A q \in T : 100 - u >= q
  <2>1. 100 - u \in T /\ u \in Nat
    BY <1>2
  <2>2. ASSUME NEW q \in T PROVE 100 - u >= q
    <3>1. 100 - q \in Nat /\ 100 - (100 - q) = q
      OBVIOUS
    <3>2. 100 - q \in U
      BY <3>1
    <3>3. u <= 100 - q
      BY <1>2, <3>2
    <3>4. QED
      BY <2>1, <3>1, <3>3
  <2>3. QED
    BY <2>1, <2>2
<1>4. QED
  BY <1>3 DEF Max

\* Products and their factors grow together.
LEMMA ProductMonotone ==
    ASSUME NEW a \in Int, NEW b \in Int, NEW c \in Nat, a >= b
    PROVE  a * c >= b * c
<1>1. a - b \in Nat /\ (a - b) * c >= 0
  OBVIOUS
<1>2. (a - b) * c = a * c - b * c
  OBVIOUS
<1>3. QED
  BY <1>1, <1>2

LEMMA ProductCancel ==
    ASSUME NEW a \in Int, NEW b \in Int, NEW c \in Nat, c > 0, a * c >= b * c
    PROVE  a >= b
<1>1. SUFFICES ASSUME b >= a + 1 PROVE FALSE
  OBVIOUS
<1>2. b * c >= (a + 1) * c
  BY <1>1, ProductMonotone
<1>3. (a + 1) * c = a * c + c
  OBVIOUS
<1>4. QED
  BY <1>2, <1>3

\* One more detection: what was apart stays apart.
LEMMA ApartDetected ==
    ASSUME NEW q \in 0..100, NEW n \in Nat \ {0}, NEW k \in 0..n, q * n <= 100 * k, Apart(q, k, n)
    PROVE  Apart(q, k + 1, n + 1)
<1> DEFINE d == 100 * k - n * q
           u == 100 - q
           v == n * q
           w == q * u
<1>1. /\ d \in Nat /\ u \in Nat /\ v \in Nat /\ u <= 100 /\ q \in Nat /\ w \in Nat
      /\ 100 * (k + 1) - (n + 1) * q = d + u
  OBVIOUS
<1>2. 25 * d * d >= 96 * v * u
  BY DEF Apart
<1>3. d <= n * u
  OBVIOUS
<1>4. v * u = n * w /\ (n + 1) * q * u = v * u + w
  OBVIOUS
<1>5. n * u \in Nat /\ n * w = (n * u) * q
  OBVIOUS
<1> HIDE DEF d, u, v, w
<1>6. 25 * (d * d) >= 96 * (n * w)
  <2>1. 25 * d * d = 25 * (d * d) /\ 96 * v * u = 96 * (v * u)
    BY <1>1
  <2>2. QED
    BY <1>2, <1>4, <2>1
<1>7. 50 * (d * u) >= 96 * w
  <2>1. CASE d = 0
    <3>1. 96 * (n * w) <= 0 /\ d * u = 0 /\ d * d = 0
      BY <1>1, <1>6, <2>1
    <3>2. n * w >= 1 * w
      BY <1>1, ProductMonotone
    <3>3. QED
      BY <1>1, <3>1, <3>2
  <2>2. CASE d > 0
    <3>1. (n * u) * q >= d * q
      BY <1>1, <1>3, <1>5, ProductMonotone
    <3>2. 25 * (d * d) >= 96 * (d * q)
      BY <1>1, <1>5, <1>6, <3>1
    <3>3. (25 * d) * d >= (96 * q) * d
      BY <1>1, <3>2
    <3>4. 25 * d >= 96 * q
      BY <1>1, <2>2, <3>3, ProductCancel
    <3>5. (25 * d) * u >= (96 * q) * u
      BY <1>1, <3>4, ProductMonotone
    <3>6. (25 * d) * u = 25 * (d * u) /\ (96 * q) * u = 96 * w /\ d * u \in Nat
      BY <1>1 DEF w
    <3>7. QED
      BY <1>1, <3>5, <3>6
  <2>3. QED
    BY <1>1, <2>1, <2>2
<1>8. 25 * (d + u) * (d + u) >= 25 * (d * d) + 50 * (d * u)
  <2>1. 25 * (d + u) * (d + u) = 25 * (d * d) + 50 * (d * u) + 25 * (u * u) /\ u * u >= 0
    BY <1>1
  <2>2. QED
    BY <1>1, <2>1
<1>9. 25 * (d + u) * (d + u) >= 96 * (n * w) + 96 * w
  BY <1>1, <1>6, <1>7, <1>8
<1>10. 96 * (n + 1) * q * u = 96 * (n * w) + 96 * w
  <2>1. 96 * (n + 1) * q * u = 96 * ((n + 1) * q * u)
    BY <1>1
  <2>2. QED
    BY <1>1, <1>4, <2>1
<1>11. QED
  BY <1>1, <1>9, <1>10 DEF Apart, u

\* One more miss: what is apart was apart.
LEMMA ApartMissed ==
    ASSUME NEW q \in 0..100, NEW n \in Nat, NEW k \in Nat, q * (n + 1) <= 100 * k,
           Apart(q, k, n + 1)
    PROVE  Apart(q, k, n)
<1> DEFINE d == 100 * k - (n + 1) * q
           u == 100 - q
           e == 100 * k - n * q
<1>1. d \in Nat /\ e \in Nat /\ u \in Nat /\ q \in Nat /\ e >= d
  OBVIOUS
<1>2. 25 * d * d >= 96 * (n + 1) * q * u
  BY DEF Apart
<1> DEFINE w == q * u
<1>3. w \in Nat /\ 96 * (n + 1) * q * u = 96 * (n * w) + 96 * w /\ 96 * n * q * u = 96 * (n * w)
  OBVIOUS
<1> HIDE DEF d, e, w
<1>4. d * d \in Nat /\ e * e >= d * d
  <2>1. e * d >= d * d /\ e * e >= d * e
    BY <1>1, ProductMonotone
  <2>2. QED
    BY <1>1, <2>1
<1>5. 25 * e * e = 25 * (e * e) /\ 25 * d * d = 25 * (d * d)
  BY <1>1
<1>6. 25 * e * e >= 96 * n * q * u
  BY <1>1, <1>2, <1>3, <1>4, <1>5
<1>7. QED
  BY <1>6 DEF Apart, e
LEMMA RejectedType ==
    ASSUME NEW n \in Nat \ {0}, NEW k \in 0..n
    PROVE  0 \in Rejected(k, n) /\ Rejected(k, n) \subseteq 0..99
<1>1. \A r \in 0..0 : Apart(r, k, n)
  <2>1. 25 * (100 * k - n * 0) * (100 * k - n * 0) = 250000 * (k * k) /\ k * k >= 0
    OBVIOUS
  <2>2. 96 * n * 0 * (100 - 0) = 0
    OBVIOUS
  <2>3. QED
    BY <2>1, <2>2 DEF Apart
<1>2. ASSUME NEW q \in Rejected(k, n), q # 0 PROVE q \in 0..99
  <2>1. q \in 0..100 /\ q * n < 100 * k
    BY <1>2 DEF Rejected, Percent
  <2>2. q # 100
    BY <2>1
  <2>3. QED
    BY <2>1, <2>2
<1>3. QED
  BY <1>1, <1>2 DEF Rejected, Percent

LEMMA DetectionRejects ==
    ASSUME NEW n \in Nat \ {0}, NEW k \in 0..n
    PROVE  Rejected(k, n) \subseteq Rejected(k + 1, n + 1)
<1> SUFFICES ASSUME NEW q \in Rejected(k, n) PROVE q \in Rejected(k + 1, n + 1)
  OBVIOUS
<1>1. q \in 0..100 /\ (q = 0 \/ q * n < 100 * k) /\ \A r \in 0..q : Apart(r, k, n)
  BY DEF Rejected, Percent
<1>2. q * n <= 100 * k /\ q * (n + 1) = q * n + q
  BY <1>1
<1>3. q = 0 \/ q * (n + 1) < 100 * (k + 1)
  BY <1>1, <1>2
<1>4. ASSUME NEW r \in 0..q PROVE Apart(r, k + 1, n + 1)
  <2>1. r \in 0..100 /\ q * n >= r * n
    BY <1>1, ProductMonotone
  <2>2. r * n <= 100 * k
    BY <1>1, <1>2, <2>1
  <2>3. QED
    BY <1>1, <2>1, <2>2, ApartDetected
<1>5. QED
  BY <1>1, <1>3, <1>4 DEF Rejected, Percent

LEMMA MissRejects ==
    ASSUME NEW n \in Nat \ {0}, NEW k \in 0..n
    PROVE  Rejected(k, n + 1) \subseteq Rejected(k, n)
<1> SUFFICES ASSUME NEW q \in Rejected(k, n + 1) PROVE q \in Rejected(k, n)
  OBVIOUS
<1>1. /\ q \in 0..100 /\ (q = 0 \/ q * (n + 1) < 100 * k)
      /\ \A r \in 0..q : Apart(r, k, n + 1)
  BY DEF Rejected, Percent
<1>2. q * (n + 1) <= 100 * k /\ q * (n + 1) = q * n + q
  BY <1>1
<1>3. q = 0 \/ q * n < 100 * k
  BY <1>1, <1>2
<1>4. ASSUME NEW r \in 0..q PROVE Apart(r, k, n)
  <2>1. r \in 0..100 /\ q * (n + 1) >= r * (n + 1)
    BY <1>1, ProductMonotone
  <2>2. r * (n + 1) <= 100 * k
    BY <1>1, <1>2, <2>1
  <2>3. QED
    BY <1>1, <2>1, <2>2, ApartMissed
<1>5. QED
  BY <1>1, <1>3, <1>4 DEF Rejected, Percent

\* The end of the interval is a rate below 100%.
LEMMA LowType ==
    ASSUME NEW n \in Nat \ {0}, NEW k \in 0..n
    PROVE  Max(Rejected(k, n)) \in Rejected(k, n) /\ Max(Rejected(k, n)) \in 0..99
<1>1. 0 \in Rejected(k, n) /\ Rejected(k, n) \subseteq 0..99
  BY RejectedType
<1>2. Max(Rejected(k, n)) \in Rejected(k, n)
  BY <1>1, LargestElement
<1>3. QED
  BY <1>1, <1>2

\* It does not fall with a detection and does not rise with a miss.
LEMMA LowMoves ==
    ASSUME NEW n \in Nat \ {0}, NEW k \in 0..n
    PROVE  /\ Max(Rejected(k + 1, n + 1)) >= Max(Rejected(k, n))
           /\ Max(Rejected(k, n + 1)) <= Max(Rejected(k, n))
<1>1. k + 1 \in 0..(n + 1) /\ k \in 0..(n + 1) /\ n + 1 \in Nat \ {0}
  OBVIOUS
<1>2. /\ 0 \in Rejected(k, n) /\ Rejected(k, n) \subseteq 0..100
      /\ 0 \in Rejected(k + 1, n + 1) /\ Rejected(k + 1, n + 1) \subseteq 0..100
  BY <1>1, RejectedType
<1>3. Max(Rejected(k, n)) \in Rejected(k, n) /\ \A q \in Rejected(k, n) : Max(Rejected(k, n)) >= q
  BY <1>2, LargestElement
<1>4. \A q \in Rejected(k + 1, n + 1) : Max(Rejected(k + 1, n + 1)) >= q
  BY <1>2, LargestElement
<1>5. Max(Rejected(k, n + 1)) \in Rejected(k, n + 1)
  BY <1>1, LowType
<1>6. Rejected(k, n) \subseteq Rejected(k + 1, n + 1) /\ Rejected(k, n + 1) \subseteq Rejected(k, n)
  BY DetectionRejects, MissRejects
<1>7. QED
  BY <1>3, <1>4, <1>5, <1>6

\* The outcomes recorded of a tier are a detection rate of its calibration.
EvidenceInv ==
    /\ calibration \in [Tiers -> [passes : Nat, total : Nat]]
    /\ \A t \in Tiers :
           calibration[t].passes <= calibration[t].total /\ calibration[t].total <= MaxOutcomes
    /\ mission \in Seq(Tiers \X BOOLEAN)

LEMMA GateInit == Gate!Init => EvidenceInv
BY EvidenceAssumption DEF Gate!Init, EvidenceInv

LEMMA CountType ==
    ASSUME NEW c \in [passes : Nat, total : Nat], NEW b \in BOOLEAN, c.passes <= c.total
    PROVE  /\ Gate!Count(c, b) \in [passes : Nat, total : Nat]
           /\ Gate!Count(c, b).total = c.total + 1
           /\ Gate!Count(c, b).passes = c.passes + (IF b THEN 1 ELSE 0)
           /\ Gate!Count(c, b).passes <= Gate!Count(c, b).total
BY DEF Gate!Count

LEMMA GateNext == EvidenceInv /\ [Gate!Next]_(Gate!vars) => EvidenceInv'
<1> SUFFICES ASSUME EvidenceInv, [Gate!Next]_(Gate!vars) PROVE EvidenceInv'
  OBVIOUS
<1>1. ASSUME NEW t \in Tiers, NEW b \in BOOLEAN, Gate!RecordCalibration(t, b) PROVE EvidenceInv'
  <2> DEFINE c == Gate!Count(calibration[t], b)
             later == calibration'
  <2>1. c \in [passes : Nat, total : Nat] /\ c.passes <= c.total /\ c.total = calibration[t].total + 1
    BY CountType DEF EvidenceInv
  <2>2. calibration[t].total < MaxOutcomes /\ later = [calibration EXCEPT ![t] = c] /\ UNCHANGED mission
    BY <1>1 DEF Gate!RecordCalibration
  <2> HIDE DEF c, later
  <2>3. later \in [Tiers -> [passes : Nat, total : Nat]]
    BY <2>1, <2>2 DEF EvidenceInv
  <2>4. \A u \in Tiers : later[u] = IF u = t THEN c ELSE calibration[u]
    BY <2>2 DEF EvidenceInv
  <2>5. c.total <= MaxOutcomes
    BY <2>1, <2>2, EvidenceAssumption DEF EvidenceInv
  <2>6. \A u \in Tiers : later[u].passes <= later[u].total /\ later[u].total <= MaxOutcomes
    BY <2>1, <2>4, <2>5 DEF EvidenceInv
  <2>7. QED
    BY <2>2, <2>3, <2>6 DEF EvidenceInv, later
<1>2. ASSUME NEW t \in Tiers, NEW b \in BOOLEAN, Gate!CollectEvidence(t, b) PROVE EvidenceInv'
  <2>1. mission' \in Seq(Tiers \X BOOLEAN) /\ UNCHANGED calibration
    BY <1>2, AppendProperties DEF Gate!CollectEvidence, EvidenceInv
  <2>2. QED
    BY <2>1 DEF EvidenceInv
<1>3. CASE UNCHANGED Gate!vars
  BY <1>3 DEF Gate!vars, EvidenceInv
<1>4. QED
  BY <1>1, <1>2, <1>3 DEF Gate!Next

LEMMA CalibratedSensitivity ==
    ASSUME EvidenceInv, NEW t \in Tiers, Calibrated(t)
    PROVE  /\ calibration[t].total \in Nat \ {0}
           /\ calibration[t].passes \in 0..calibration[t].total
           /\ GetSensitivity(t) = Max(Rejected(calibration[t].passes, calibration[t].total))
<1> DEFINE n == calibration[t].total
           k == calibration[t].passes
<1>1. n \in Nat \ {0} /\ k \in 0..n /\ n \in 1..MaxOutcomes
  BY EvidenceAssumption DEF EvidenceInv, Calibrated
<1> HIDE DEF n, k
<1>2. WilsonLow[n][k] = Max(Rejected(k, n))
  BY <1>1 DEF WilsonLow
<1>3. GetSensitivity(t) = WilsonLow[n][k]
  BY DEF GetSensitivity, n, k
<1>4. QED
  BY <1>1, <1>2, <1>3 DEF n, k

\* A calibrated sensitivity is below 100%.
LEMMA SensitivityType ==
    ASSUME EvidenceInv, NEW t \in Tiers
    PROVE  GetSensitivity(t) \in 0..100 /\ (Calibrated(t) => GetSensitivity(t) \in 0..99)
<1>1. CASE Calibrated(t)
  <2>1. PICK n \in Nat \ {0} : \E k \in 0..n : GetSensitivity(t) = Max(Rejected(k, n))
    BY <1>1, CalibratedSensitivity
  <2>2. QED
    BY <2>1, LowType
<1>2. CASE ~Calibrated(t)
  <2>1. GetSensitivity(t) = Sensitivity[t]
    BY <1>2 DEF GetSensitivity
  <2>2. QED
    BY <1>2, <2>1, EvidenceAssumption
<1>3. QED
  BY <1>1, <1>2

LEMMA GateInvHolds == Gate!Spec => []EvidenceInv
BY GateInit, GateNext, PTL DEF Gate!Spec

\* Once a tier is calibrated, a missed defect never raises its sensitivity and a detected
\* one never lowers it (recordCalibration, wilsonCI).
THEOREM SensitivityFollowsOutcomes == Gate!Spec => OutcomesMoveSensitivity
<1> DEFINE Moves(t) ==
             Calibrated(t) =>
                 /\ calibration'[t].passes > calibration[t].passes => GetSensitivity(t)' >= GetSensitivity(t)
                 /\ calibration'[t].passes = calibration[t].passes => GetSensitivity(t)' <= GetSensitivity(t)
<1>1. EvidenceInv /\ EvidenceInv' /\ [Gate!Next]_(Gate!vars) =>
          [\A t \in Tiers : Moves(t)]_<<calibration, mission>>
  <2> SUFFICES ASSUME EvidenceInv, EvidenceInv', Gate!Next, NEW t \in Tiers, Calibrated(t)
               PROVE  /\ calibration'[t].passes > calibration[t].passes => GetSensitivity(t)' >= GetSensitivity(t)
                      /\ calibration'[t].passes = calibration[t].passes => GetSensitivity(t)' <= GetSensitivity(t)
    BY DEF Gate!vars
  <2> DEFINE later == calibration'
             n == calibration[t].total
             k == calibration[t].passes
             s == GetSensitivity(t)
             r == GetSensitivity(t)'
  <2>1. n \in Nat \ {0} /\ k \in 0..n /\ s = Max(Rejected(k, n))
    BY CalibratedSensitivity
  <2>2. s \in 0..100
    BY SensitivityType
  <2>3. CASE later[t] = calibration[t]
    <3>1. r = s
      BY <2>3 DEF GetSensitivity, Calibrated
    <3> HIDE DEF later, n, k, s, r
    <3>2. later[t].passes = k
      BY <2>3 DEF k
    <3>3. QED
      BY <2>1, <2>2, <3>1, <3>2 DEF later, k, s, r
  <2>4. CASE later[t] # calibration[t]
    <3>1. PICK b \in BOOLEAN : Gate!RecordCalibration(t, b)
      BY <2>4 DEF Gate!Next, Gate!RecordCalibration, Gate!CollectEvidence, EvidenceInv
    <3>2. later[t] = Gate!Count(calibration[t], b)
      BY <3>1 DEF Gate!RecordCalibration, EvidenceInv
    <3>3. later[t].total = n + 1 /\ later[t].passes = k + (IF b THEN 1 ELSE 0)
      BY <3>2, CountType DEF EvidenceInv
    <3>4. Calibrated(t)'
      <4>1. later[t].total >= MinSamples
        <5> HIDE DEF later
        <5>1. QED
          BY <2>1, <3>3, EvidenceAssumption DEF Calibrated
      <4>2. QED
        BY <4>1 DEF Calibrated
    <3>5. r = Max(Rejected(later[t].passes, later[t].total))
      <4>1. r = WilsonLow[later[t].total][later[t].passes]
        BY <3>4 DEF GetSensitivity
      <4>2. later[t].total \in 1..MaxOutcomes /\ later[t].passes \in 0..later[t].total
        <5>1. later[t].total <= MaxOutcomes
          BY DEF EvidenceInv
        <5> HIDE DEF later, n, k
        <5>2. QED
          BY <2>1, <3>3, <5>1, EvidenceAssumption
      <4> HIDE DEF later, r
      <4>3. QED
        BY <4>1, <4>2 DEF WilsonLow
    <3> HIDE DEF later, n, k, s, r
    <3>6. CASE b
      <4>1. r >= s /\ later[t].passes = k + 1
        BY <2>1, <3>3, <3>5, <3>6, LowMoves
      <4>2. QED
        BY <2>1, <4>1 DEF k, later, r, s
    <3>7. CASE ~b
      <4>1. r <= s /\ later[t].passes = k
        BY <2>1, <3>3, <3>5, <3>7, LowMoves
      <4>2. QED
        BY <2>1, <4>1 DEF k, later, r, s
    <3>8. QED
      BY <3>6, <3>7
  <2>5. QED
    BY <2>3, <2>4
<1>2. QED
  BY GateInvHolds, <1>1, PTL DEF Gate!Spec, OutcomesMoveSensitivity

-----------------------------------------------------------------------------
(* The bound on false completions and the odds of a defect are folds over  *)
(* the tiers and over the evidence, from the left.                         *)

LEMMA MissRateType ==
    ASSUME EvidenceInv, NEW t \in Tiers
    PROVE  MissRate(t) \in 0..100
<1>1. GetSensitivity(t) \in 0..100
  BY SensitivityType
<1>2. QED
  BY <1>1 DEF MissRate

Fractions == [num : Nat, den : Nat \ {0}]

One == [num |-> 1, den |-> 1]

Missed(f, m) == [num |-> f.num * m, den |-> f.den * 100]

LEMMA MissedType ==
    ASSUME NEW f \in Fractions, NEW m \in Nat
    PROVE  /\ Missed(f, m) \in Fractions
           /\ Missed(f, m).num = f.num * m /\ Missed(f, m).den = f.den * 100
<1>1. f.num \in Nat /\ f.den \in Nat \ {0}
  BY DEF Fractions
<1>2. f.num * m \in Nat /\ f.den * 100 \in Nat \ {0}
  BY <1>1
<1>3. QED
  BY <1>2 DEF Missed, Fractions

LEMMA ProductSteps ==
    ASSUME EvidenceInv, NEW gate \in Seq(Tiers)
    PROVE  \E f \in [0..Len(gate) -> Fractions] :
               /\ f[0] = One /\ Product(gate) = f[Len(gate)]
               /\ \A n \in 1..Len(gate) : f[n] = Missed(f[n - 1], MissRate(gate[n]))
<1> DEFINE N == Len(gate)
           Follows(f) == f = [n \in 0..N |-> IF n = 0 THEN One ELSE Missed(f[n - 1], MissRate(gate[n]))]
           step == [n \in 1..N |-> [x \in Fractions |-> Missed(x, MissRate(gate[n]))]]
<1>1. N \in Nat /\ One \in Fractions
  BY DEF One, Fractions
<1>2. \A n \in 1..N, x \in Fractions : Missed(x, MissRate(gate[n])) \in Fractions
  <2>1. TAKE n \in 1..N, x \in Fractions
  <2>2. gate[n] \in Tiers
    OBVIOUS
  <2>3. MissRate(gate[n]) \in Nat
    <3>1. \A t \in Tiers : MissRate(t) \in 0..100
      BY MissRateType
    <3>2. 0..100 \subseteq Nat
      OBVIOUS
    <3>3. QED
      BY <2>2, <3>1, <3>2, Zenon
  <2>4. QED
    BY <2>3, MissedType
<1>3. step \in [1..N -> [Fractions -> Fractions]]
  BY <1>2
<1>4. \A n \in 1..N, x \in Fractions : step[n][x] = Missed(x, MissRate(gate[n]))
  OBVIOUS
<1> HIDE DEF step
<1>5. PICK f \in [0..N -> Fractions] : Recursion(f, One, step, N)
  BY <1>1, <1>3, RecursionExists
<1>6. \A n \in 1..N : f[n] = Missed(f[n - 1], MissRate(gate[n]))
  <2>1. TAKE n \in 1..N
  <2>2. n - 1 \in 0..N
    BY <1>1
  <2>3. f[n - 1] \in Fractions
    BY <2>2
  <2>4. QED
    BY <1>4, <1>5, <2>3 DEF Recursion
<1>7. Follows(f)
  <2>1. f = [n \in 0..N |-> f[n]]
    OBVIOUS
  <2>2. \A n \in 0..N : f[n] = IF n = 0 THEN One ELSE Missed(f[n - 1], MissRate(gate[n]))
    BY <1>5, <1>6 DEF Recursion
  <2>3. QED
    BY <2>1, <2>2
<1> DEFINE g == CHOOSE f_1 : Follows(f_1)
<1>8. Follows(g)
  BY <1>7
<1>9. Product(gate) = g[N]
  BY DEF Product, One, Missed
<1> HIDE DEF g
<1>10. f[0] = One /\ g[0] = One
  BY <1>1, <1>5, <1>8 DEF Recursion
<1>11. \A n \in 1..N : g[n] = Missed(g[n - 1], MissRate(gate[n]))
  BY <1>1, <1>8
<1>12. \A n \in 0..N : f[n] = g[n]
  <2>1. AlikeOnwards(f, g, N)
    BY <1>6, <1>10, <1>11 DEF AlikeOnwards
  <2>2. QED
    BY <1>1, <2>1, RecursionUnique
<1>13. f[N] = g[N]
  BY <1>1, <1>12
<1>14. QED
  BY <1>6, <1>9, <1>10, <1>13

\* One more tier multiplies the product by its miss rate.
LEMMA ProductAppend ==
    ASSUME EvidenceInv, NEW gate \in Seq(Tiers), NEW t \in Tiers
    PROVE  /\ Product(gate) \in Fractions
           /\ Product(Append(gate, t)) = Missed(Product(gate), MissRate(t))
<1> DEFINE N == Len(gate)
           longer == Append(gate, t)
<1>1. N \in Nat /\ longer \in Seq(Tiers) /\ Len(longer) = N + 1 /\ longer[N + 1] = t
      /\ \A n \in 1..N : longer[n] = gate[n]
  BY AppendProperties
<1>0. \A h, k : AlikeOnwards(h, k, N) => \A n \in 0..N : h[n] = k[n]
  BY <1>1, RecursionUnique
<1>2. PICK f \in [0..N -> Fractions] :
          /\ f[0] = One /\ Product(gate) = f[N]
          /\ \A n \in 1..N : f[n] = Missed(f[n - 1], MissRate(gate[n]))
  BY ProductSteps
<1> HIDE DEF longer
<1>3. PICK g \in [0..(N + 1) -> Fractions] :
          /\ g[0] = One /\ Product(longer) = g[N + 1]
          /\ \A n \in 1..(N + 1) : g[n] = Missed(g[n - 1], MissRate(longer[n]))
  BY <1>1, ProductSteps
<1> HIDE DEF N
<1>4. \A n \in 1..N : f[n - 1] = g[n - 1] => f[n] = g[n]
  <2>1. TAKE n \in 1..N
  <2>2. n \in 1..(N + 1)
    BY <1>1
  <2>3. QED
    BY <1>1, <1>2, <1>3, <2>2
<1>5. \A n \in 0..N : f[n] = g[n]
  <2>1. AlikeOnwards(f, g, N)
    BY <1>2, <1>3, <1>4 DEF AlikeOnwards
  <2>2. QED
    BY <1>0, <2>1, Zenon
<1>6. f[N] = g[N] /\ f[N] \in Fractions
  BY <1>1, <1>5
<1>7. g[N + 1] = Missed(g[N], MissRate(t))
  <2>1. N + 1 \in 1..(N + 1) /\ (N + 1) - 1 = N
    BY <1>1
  <2>2. QED
    BY <1>1, <1>3, <2>1
<1>8. QED
  BY <1>2, <1>3, <1>6, <1>7 DEF longer

\* A product is zero exactly when a factor is.
LEMMA ProductZero ==
    ASSUME EvidenceInv, NEW gate \in Seq(Tiers)
    PROVE  ProvablyZero(gate) <=> \E i \in DOMAIN gate : MissRate(gate[i]) = 0
<1> DEFINE N == Len(gate)
           m(i) == MissRate(gate[i])
<1>1. N \in Nat /\ DOMAIN gate = 1..N
  OBVIOUS
<1>2. PICK f \in [0..N -> Fractions] :
          /\ f[0] = One /\ Product(gate) = f[N]
          /\ \A n \in 1..N : f[n] = Missed(f[n - 1], m(n))
  BY ProductSteps
<1>3. \A n \in 1..N : m(n) \in Nat
  <2>1. \A t \in Tiers : MissRate(t) \in 0..100
    BY MissRateType
  <2>2. \A n \in 1..N : gate[n] \in Tiers
    OBVIOUS
  <2>3. 0..100 \subseteq Nat
    OBVIOUS
  <2>4. QED
    BY <2>1, <2>2, <2>3, Zenon
<1> HIDE DEF m, N
<1> DEFINE T == {n \in Nat : n <= N => (f[n].num = 0 <=> \E i \in 1..n : m(i) = 0)}
<1>4. 0 \in T
  <2>1. f[0].num = 1
    BY <1>2 DEF One
  <2>2. QED
    BY <2>1
<1>5. ASSUME NEW n \in Nat, n \in T PROVE n + 1 \in T
  <2> SUFFICES ASSUME n + 1 <= N PROVE f[n + 1].num = 0 <=> \E i \in 1..(n + 1) : m(i) = 0
    OBVIOUS
  <2>1. n + 1 \in 1..N /\ (n + 1) - 1 = n /\ n \in 0..N /\ f[n] \in Fractions
    BY <1>1, <1>5
  <2>2. f[n + 1] = Missed(f[n], m(n + 1)) /\ m(n + 1) \in Nat
    BY <1>2, <1>3, <2>1
  <2>3. f[n + 1].num = f[n].num * m(n + 1) /\ f[n].num \in Nat
    BY <2>1, <2>2, MissedType DEF Fractions
  <2>4. f[n + 1].num = 0 <=> f[n].num = 0 \/ m(n + 1) = 0
    <3>1. \A a, b \in Nat : a * b = 0 <=> a = 0 \/ b = 0
      OBVIOUS
    <3>2. QED
      BY <2>2, <2>3, <3>1
  <2>5. f[n].num = 0 <=> \E i \in 1..n : m(i) = 0
    BY <1>1, <1>5, <2>1
  <2>6. (\E i \in 1..(n + 1) : m(i) = 0) <=> (\E i \in 1..n : m(i) = 0) \/ m(n + 1) = 0
    <3>1. \A i \in 1..(n + 1) : i \in 1..n \/ i = n + 1
      OBVIOUS
    <3>2. 1..n \subseteq 1..(n + 1) /\ n + 1 \in 1..(n + 1)
      OBVIOUS
    <3>3. QED
      BY <3>1, <3>2, Zenon
  <2>7. QED
    BY <2>4, <2>5, <2>6
<1>6. Nat \subseteq T
  <2> HIDE DEF T
  <2>1. QED
    BY <1>4, <1>5, NatSetInduction
<1>7. f[N].num = 0 <=> \E i \in 1..N : m(i) = 0
  BY <1>1, <1>6
<1>8. QED
  BY <1>1, <1>2, <1>7 DEF ProvablyZero, m

\* A gate proves zero false completions exactly while a tier declared infallible is among
\* those named and is not calibrated (getSensitivity, computeFCRBound).
THEOREM ZeroIsDeclared == Gate!Spec => []ZeroBoundIsDeclared
<1>1. EvidenceInv => ZeroBoundIsDeclared
  <2> SUFFICES ASSUME EvidenceInv, NEW gate \in Gates
               PROVE  ProvablyZero(gate) <=>
                          \E i \in DOMAIN gate : ~Calibrated(gate[i]) /\ Sensitivity[gate[i]] = 100
    BY DEF ZeroBoundIsDeclared
  <2>1. PICK n \in 0..MaxGate : gate \in [1..n -> Tiers]
    BY DEF Gates
  <2>2. gate \in Seq(Tiers)
    <3>1. n \in Nat
      BY EvidenceAssumption
    <3>2. QED
      BY <2>1, <3>1, SeqDef, Zenon
  <2>3. ASSUME NEW i \in DOMAIN gate
        PROVE  MissRate(gate[i]) = 0 <=> ~Calibrated(gate[i]) /\ Sensitivity[gate[i]] = 100
    <3>1. gate[i] \in Tiers
      BY <2>1
    <3>2. /\ GetSensitivity(gate[i]) \in 0..100
          /\ Calibrated(gate[i]) => GetSensitivity(gate[i]) \in 0..99
      BY <3>1, SensitivityType
    <3>3. MissRate(gate[i]) = 0 <=> GetSensitivity(gate[i]) = 100
      BY <3>2 DEF MissRate
    <3>4. ~Calibrated(gate[i]) => GetSensitivity(gate[i]) = Sensitivity[gate[i]]
      BY DEF GetSensitivity
    <3>5. Calibrated(gate[i]) => GetSensitivity(gate[i]) # 100
      BY <3>2
    <3>6. QED
      BY <3>3, <3>4, <3>5
  <2>4. QED
    BY <2>2, <2>3, ProductZero
<1>2. QED
  BY GateInvHolds, <1>1, PTL

\* A fraction that is no larger is rounded to no more.
LEMMA RoundedMonotone ==
    ASSUME NEW a \in Nat, NEW d \in Nat \ {0}, NEW m \in 0..100, NEW b \in Nat, b = a * m
    PROVE  Rounded(b, d * 100) <= Rounded(a, d)
<1> DEFINE x == 2 * a + d
           y == 2 * d
           u == 2 * b + d * 100
           q == x \div y
           r == u \div (y * 100)
<1>1. x \in Nat /\ y \in Nat \ {0} /\ u \in Nat /\ y * 100 \in Nat \ {0} /\ 2 * (d * 100) = y * 100
  OBVIOUS
<1>2. u <= 100 * x
  <2>1. 100 * a >= m * a /\ m * a = b
    BY ProductMonotone
  <2>2. QED
    BY <2>1
<1> HIDE DEF x, y, u
<1>3. \A p \in Nat, k \in Nat \ {0} : p \div k \in Nat /\ (p \div k) * k <= p /\ p < (p \div k + 1) * k
  OBVIOUS
<1>4. q \in Nat /\ x < (q + 1) * y
  BY <1>1, <1>3
<1>5. r \in Nat /\ r * (y * 100) <= u
  BY <1>1, <1>3
<1> HIDE DEF q, r
<1>6. r <= q
  <2>1. SUFFICES ASSUME r >= q + 1 PROVE FALSE
    BY <1>4, <1>5
  <2>2. r * (y * 100) >= (q + 1) * (y * 100)
    BY <1>1, <1>4, <1>5, <2>1, ProductMonotone
  <2>3. (q + 1) * (y * 100) = 100 * ((q + 1) * y)
    BY <1>1, <1>4
  <2>4. (q + 1) * y \in Nat /\ r * (y * 100) \in Nat
    BY <1>1, <1>4, <1>5
  <2>5. QED
    BY <1>1, <1>2, <1>4, <1>5, <2>2, <2>3, <2>4
<1>7. Rounded(a, d) = q /\ Rounded(b, d * 100) = r
  BY <1>1 DEF Rounded, q, r, x, y, u
<1>8. QED
  BY <1>6, <1>7

\* One more tier never raises the bound on false completions.
MoreEvidenceNeverHurts ==
    \A gate \in Gates, t \in Tiers : FCRBound(Append(gate, t)) <= FCRBound(gate)

\* Whatever outcomes were recorded, one more tier never raises the reported bound on false
\* completions (getSensitivity, computeFCRBound).
THEOREM EvidenceNeverHurts == Gate!Spec => []MoreEvidenceNeverHurts
<1>1. EvidenceInv => MoreEvidenceNeverHurts
  <2> SUFFICES ASSUME EvidenceInv, NEW gate \in Gates, NEW t \in Tiers
               PROVE  FCRBound(Append(gate, t)) <= FCRBound(gate)
    BY DEF MoreEvidenceNeverHurts
  <2> DEFINE f == Product(gate)
             m == MissRate(t)
  <2>1. PICK n \in 0..MaxGate : gate \in [1..n -> Tiers]
    BY DEF Gates
  <2>2. n \in Nat
    BY EvidenceAssumption
  <2>3. gate \in Seq(Tiers)
    BY <2>1, <2>2, SeqDef, Zenon
  <2>4. f \in Fractions /\ Product(Append(gate, t)) = Missed(f, m)
    BY <2>3, ProductAppend
  <2>5. m \in 0..100 /\ BoundScale \in Nat
    BY MissRateType, EvidenceAssumption
  <2> HIDE DEF f, m
  <2>6. f.num \in Nat /\ f.den \in Nat \ {0} /\ m \in Nat
    BY <2>4, <2>5 DEF Fractions
  <2>7. Missed(f, m).num = f.num * m /\ Missed(f, m).den = f.den * 100
    BY <2>4, <2>6, MissedType
  <2>8. /\ f.num * BoundScale \in Nat /\ (f.num * m) * BoundScale \in Nat
        /\ (f.num * m) * BoundScale = (f.num * BoundScale) * m
    BY <2>5, <2>6
  <2>9. Rounded((f.num * m) * BoundScale, f.den * 100) <= Rounded(f.num * BoundScale, f.den)
    BY <2>5, <2>6, <2>8, RoundedMonotone
  <2>10. QED
    BY <2>4, <2>7, <2>9 DEF FCRBound, f
<1>2. QED
  BY GateInvHolds, <1>1, PTL

Odds == [value : Nat, certain : Nat]

LEMMA ScaledType ==
    ASSUME NEW v \in Nat, NEW num \in Nat, NEW den \in Nat \ {0}
    PROVE  /\ Scaled(v, num, den) \in Nat
           /\ v >= 1 /\ num >= 1 => Scaled(v, num, den) >= 1
           /\ v >= 1 /\ num >= den => Scaled(v, num, den) >= v
<1> DEFINE p == v * num
<1>1. p \in Nat /\ v * den \in Nat /\ num * v = p /\ den * v = v * den /\ 1 * num = num /\ den * 1 = den
  OBVIOUS
<1>2. \A x \in Nat : x \div den \in Nat /\ (x >= den => x \div den >= 1) /\ (x >= v * den => x \div den >= v)
  <2>1. TAKE x \in Nat
  <2>2. x \div den \in Nat /\ x < (x \div den + 1) * den
    OBVIOUS
  <2> DEFINE d == x \div den
  <2> HIDE DEF d
  <2>3. d \in Nat /\ x < (d + 1) * den
    BY <2>2 DEF d
  <2>4. x >= den => d >= 1
    <3>1. SUFFICES ASSUME x >= den, d = 0 PROVE FALSE
      BY <2>3
    <3>2. QED
      BY <2>3, <3>1
  <2>5. x >= v * den => d >= v
    <3>1. SUFFICES ASSUME x >= v * den, v >= d + 1 PROVE FALSE
      BY <2>3
    <3>2. v * den >= (d + 1) * den
      BY <2>3, <3>1, ProductMonotone
    <3>3. QED
      BY <2>3, <3>1, <3>2
  <2>6. QED
    BY <2>3, <2>4, <2>5 DEF d
<1>3. v >= 1 => p >= num
  BY <1>1, ProductMonotone
<1>4. num >= den => p >= v * den
  BY <1>1, ProductMonotone
<1>5. Scaled(v, num, den) = IF p = 0 THEN 0 ELSE IF p < den THEN 1 ELSE p \div den
  BY DEF Scaled
<1> HIDE DEF p
<1>6. Scaled(v, num, den) \in Nat
  BY <1>1, <1>2, <1>5
<1>7. v >= 1 /\ num >= 1 => Scaled(v, num, den) >= 1
  BY <1>1, <1>2, <1>3, <1>5
<1>8. ASSUME v >= 1, num >= den PROVE Scaled(v, num, den) >= v
  <2>1. p >= num /\ num >= den
    BY <1>3, <1>8
  <2>2. p >= den /\ p # 0
    BY <1>1, <2>1
  <2>3. Scaled(v, num, den) = p \div den
    BY <1>1, <1>5, <2>2
  <2>4. QED
    BY <1>1, <1>2, <1>4, <1>8, <2>3
<1>9. QED
  BY <1>6, <1>7, <1>8

\* A failure that is no good sign, of a tier that detects at least as often as it raises a
\* false alarm, never lowers the odds.
LEMMA UpdateType ==
    ASSUME EvidenceInv, NEW e \in Tiers \X BOOLEAN, NEW odds \in Odds
    PROVE  /\ Update(e, odds) \in Odds
           /\ ~e[2] /\ GetSensitivity(e[1]) + Specificity[e[1]] >= 100 /\ odds.value >= 1 =>
                  /\ Update(e, odds).value >= 1
                  /\ \/ Update(e, odds).certain > 0
                     \/ Update(e, odds).value >= odds.value /\ Update(e, odds).certain = odds.certain
<1> DEFINE s == GetSensitivity(e[1])
           p == Specificity[e[1]]
           v == odds.value
           up == Update(e, odds)
<1>1. e[1] \in Tiers /\ e[2] \in BOOLEAN
  OBVIOUS
<1>2. s \in 0..100 /\ p \in 1..100
  BY <1>1, SensitivityType, EvidenceAssumption
<1>3. v \in Nat /\ odds.certain \in Nat /\ odds = [value |-> v, certain |-> odds.certain]
  BY DEF Odds
<1>4. up = IF e[2] THEN [odds EXCEPT !.value = Scaled(v, 100 - s, p)]
           ELSE IF p = 100
           THEN IF s = 0 THEN odds ELSE [value |-> Scaled(v, s, 100), certain |-> odds.certain + 1]
           ELSE [odds EXCEPT !.value = Scaled(v, s, 100 - p)]
  BY DEF Update
<1> HIDE DEF s, p, v, up
<1>5. \A x \in Nat : [odds EXCEPT !.value = x] = [value |-> x, certain |-> odds.certain]
  BY <1>3 DEF Odds
<1>6. CASE e[2]
  <2>1. 100 - s \in Nat /\ p \in Nat \ {0}
    BY <1>2
  <2>2. Scaled(v, 100 - s, p) \in Nat
    BY <1>3, <2>1, ScaledType
  <2>3. up \in Odds
    BY <1>3, <1>4, <1>5, <1>6, <2>2 DEF Odds
  <2>4. QED
    BY <1>6, <2>3 DEF up
<1>7. CASE ~e[2] /\ p = 100 /\ s = 0
  <2>1. up = odds
    BY <1>4, <1>7
  <2>2. QED
    BY <1>3, <2>1 DEF up, v
<1>8. CASE ~e[2] /\ p = 100 /\ s # 0
  <2>1. up = [value |-> Scaled(v, s, 100), certain |-> odds.certain + 1]
    BY <1>4, <1>8
  <2>2. s \in Nat /\ s >= 1 /\ 100 \in Nat \ {0}
    BY <1>2, <1>8
  <2>3. Scaled(v, s, 100) \in Nat /\ (v >= 1 => Scaled(v, s, 100) >= 1)
    BY <1>3, <2>2, ScaledType
  <2>4. up \in Odds /\ up.certain > 0 /\ (v >= 1 => up.value >= 1)
    BY <1>3, <2>1, <2>3 DEF Odds
  <2>5. QED
    BY <2>4 DEF up, v
<1>9. CASE ~e[2] /\ p # 100
  <2>1. s \in Nat /\ 100 - p \in Nat \ {0} /\ (s + p >= 100 => s >= 100 - p /\ s >= 1)
    BY <1>2, <1>9
  <2>2. /\ Scaled(v, s, 100 - p) \in Nat
        /\ v >= 1 /\ s >= 1 => Scaled(v, s, 100 - p) >= 1
        /\ v >= 1 /\ s >= 100 - p => Scaled(v, s, 100 - p) >= v
    BY <1>3, <2>1, ScaledType
  <2>3. up = [value |-> Scaled(v, s, 100 - p), certain |-> odds.certain]
    BY <1>4, <1>5, <1>9, <2>2
  <2>4. up \in Odds /\ up.certain = odds.certain
        /\ (s + p >= 100 /\ v >= 1 => up.value >= 1 /\ up.value >= v)
    BY <1>3, <2>1, <2>2, <2>3 DEF Odds
  <2>5. QED
    BY <2>4 DEF up, v, s, p
<1>10. QED
  BY <1>1, <1>6, <1>7, <1>8, <1>9

LEMMA PriorType ==
    ASSUME NEW plane \in DOMAIN Prior
    PROVE  PriorOdds(plane) \in Odds /\ PriorOdds(plane).value >= 1 /\ PriorOdds(plane).certain = 0
<1> DEFINE x == Prior[plane]
           v == (x * Unit) \div (100 - x)
<1>1. x \in 1..99
  <2>1. Alpha \in Nat /\ x \in (2 * Alpha + 1)..99
    BY EvidenceAssumption
  <2> HIDE DEF x
  <2>2. QED
    BY <2>1
<1>2. PriorOdds(plane) = [value |-> v, certain |-> 0]
  BY DEF PriorOdds
<1> HIDE DEF x
<1>3. v \in Nat /\ v >= 1
  <2>1. x * Unit \in Nat /\ 100 - x \in 1..99 /\ x * Unit >= 100 - x
    BY <1>1 DEF Unit
  <2>2. \A m \in Nat, d \in 1..99 : m >= d => m \div d \in Nat /\ m \div d >= 1
    OBVIOUS
  <2>3. QED
    BY <2>1, <2>2
<1> HIDE DEF v
<1>4. QED
  BY <1>2, <1>3 DEF Odds

LEMMA SequentialSteps ==
    ASSUME EvidenceInv, NEW plane \in DOMAIN Prior, NEW evidence \in Seq(Tiers \X BOOLEAN)
    PROVE  \E f \in [0..Len(evidence) -> Odds] :
               /\ f[0] = PriorOdds(plane) /\ SequentialUpdate(plane, evidence) = f[Len(evidence)]
               /\ \A n \in 1..Len(evidence) : f[n] = Update(evidence[n], f[n - 1])
<1> DEFINE N == Len(evidence)
           Follows(f) == f = [n \in 0..N |-> IF n = 0 THEN PriorOdds(plane) ELSE Update(evidence[n], f[n - 1])]
           step == [n \in 1..N |-> [o \in Odds |-> Update(evidence[n], o)]]
<1>1. N \in Nat /\ PriorOdds(plane) \in Odds
  BY PriorType
<1>2. \A n \in 1..N, o \in Odds : Update(evidence[n], o) \in Odds
  <2>1. TAKE n \in 1..N, o \in Odds
  <2>2. evidence[n] \in Tiers \X BOOLEAN
    OBVIOUS
  <2>3. \A e \in Tiers \X BOOLEAN : Update(e, o) \in Odds
    BY UpdateType
  <2>4. QED
    BY <2>2, <2>3, Zenon
<1>3. step \in [1..N -> [Odds -> Odds]]
  BY <1>2
<1>4. \A n \in 1..N, o \in Odds : step[n][o] = Update(evidence[n], o)
  OBVIOUS
<1> HIDE DEF step
<1>5. PICK f \in [0..N -> Odds] : Recursion(f, PriorOdds(plane), step, N)
  BY <1>1, <1>3, RecursionExists
<1>6. \A n \in 1..N : f[n] = Update(evidence[n], f[n - 1])
  <2>1. TAKE n \in 1..N
  <2>2. n - 1 \in 0..N
    BY <1>1
  <2>3. f[n - 1] \in Odds
    BY <2>2
  <2>4. QED
    BY <1>4, <1>5, <2>3 DEF Recursion
<1>7. Follows(f)
  <2>1. f = [n \in 0..N |-> f[n]]
    OBVIOUS
  <2>2. \A n \in 0..N : f[n] = IF n = 0 THEN PriorOdds(plane) ELSE Update(evidence[n], f[n - 1])
    BY <1>5, <1>6 DEF Recursion
  <2>3. QED
    BY <2>1, <2>2
<1> DEFINE g == CHOOSE f_1 : Follows(f_1)
<1>8. Follows(g)
  BY <1>7
<1>9. SequentialUpdate(plane, evidence) = g[N]
  BY DEF SequentialUpdate
<1> HIDE DEF g
<1>10. f[0] = PriorOdds(plane) /\ g[0] = PriorOdds(plane)
  BY <1>1, <1>5, <1>8 DEF Recursion
<1>11. \A n \in 1..N : g[n] = Update(evidence[n], g[n - 1])
  BY <1>1, <1>8
<1>12. \A n \in 0..N : f[n] = g[n]
  <2>1. AlikeOnwards(f, g, N)
    BY <1>6, <1>10, <1>11 DEF AlikeOnwards
  <2>2. QED
    BY <1>1, <2>1, RecursionUnique
<1>13. f[N] = g[N]
  BY <1>1, <1>12
<1>14. QED
  BY <1>6, <1>9, <1>10, <1>13

\* Where every failure counts against a change and nothing passes, the odds of a defect
\* stay at those of the plane or above.
LEMMA OddsStay ==
    ASSUME EvidenceInv, NEW plane \in DOMAIN Prior, NEW evidence \in Seq(Tiers \X BOOLEAN),
           \A i \in DOMAIN evidence :
               ~evidence[i][2] /\ GetSensitivity(evidence[i][1]) + Specificity[evidence[i][1]] >= 100
    PROVE  LET odds == SequentialUpdate(plane, evidence)
           IN  /\ odds \in Odds /\ odds.value >= 1
               /\ odds.certain > 0 \/ odds.value >= PriorOdds(plane).value
<1> DEFINE N == Len(evidence)
           v == PriorOdds(plane).value
           Above(odds) == odds \in Odds /\ odds.value >= 1 /\ (odds.certain > 0 \/ odds.value >= v)
<1>1. N \in Nat /\ v \in Nat /\ Above(PriorOdds(plane))
  BY PriorType DEF Odds
<1>2. PICK f \in [0..N -> Odds] :
          /\ f[0] = PriorOdds(plane) /\ SequentialUpdate(plane, evidence) = f[N]
          /\ \A n \in 1..N : f[n] = Update(evidence[n], f[n - 1])
  BY SequentialSteps
<1>3. ASSUME NEW e \in Tiers \X BOOLEAN, NEW odds, Above(odds),
             ~e[2] /\ GetSensitivity(e[1]) + Specificity[e[1]] >= 100
      PROVE  Above(Update(e, odds))
  <2> DEFINE up == Update(e, odds)
  <2>1. /\ up \in Odds /\ up.value >= 1
        /\ up.certain > 0 \/ (up.value >= odds.value /\ up.certain = odds.certain)
    BY <1>3, UpdateType
  <2>2. odds \in Odds /\ (odds.certain > 0 \/ odds.value >= v)
    BY <1>3
  <2> HIDE DEF up, v
  <2>3. QED
    BY <1>1, <2>1, <2>2 DEF up, Odds
<1> HIDE DEF Above
<1> DEFINE T == {n \in Nat : n <= N => Above(f[n])}
<1>4. 0 \in T
  BY <1>1, <1>2
<1>5. ASSUME NEW n \in Nat, n \in T PROVE n + 1 \in T
  <2> SUFFICES ASSUME n + 1 <= N PROVE Above(f[n + 1])
    OBVIOUS
  <2>1. n + 1 \in 1..N /\ (n + 1) - 1 = n /\ Above(f[n])
    BY <1>1, <1>5
  <2>2. f[n + 1] = Update(evidence[n + 1], f[n])
    BY <1>2, <2>1
  <2>3. /\ evidence[n + 1] \in Tiers \X BOOLEAN
        /\ ~evidence[n + 1][2]
        /\ GetSensitivity(evidence[n + 1][1]) + Specificity[evidence[n + 1][1]] >= 100
    BY <2>1
  <2>4. QED
    BY <1>3, <2>1, <2>2, <2>3
<1>6. Nat \subseteq T
  <2> HIDE DEF T
  <2>1. QED
    BY <1>4, <1>5, NatSetInduction
<1>7. Above(f[N])
  BY <1>1, <1>6
<1>8. QED
  BY <1>2, <1>7 DEF Above

\* Odds no better than those of the plane are above twice alpha.
LEMMA PriorIsAbove ==
    ASSUME NEW plane \in DOMAIN Prior, NEW odds \in Odds, NEW percent \in 0..(2 * Alpha),
           odds.value >= 1, odds.certain > 0 \/ odds.value >= PriorOdds(plane).value
    PROVE  ~Below(odds, percent)
<1> DEFINE x == Prior[plane]
           B == 100 - x
           y == 100 - percent
           v == (x * Unit) \div B
           w == odds.value
<1>1. Alpha \in Nat /\ x \in (2 * Alpha + 1)..99
  BY EvidenceAssumption
<1>2. w \in Nat /\ w >= 1
  BY DEF Odds
<1>3. PriorOdds(plane).value = v
  BY DEF PriorOdds
<1>4. x \in Nat /\ B \in 1..99 /\ y \in Nat /\ y >= B + 1 /\ percent = 100 - y /\ x = 100 - B
  <2> HIDE DEF x
  <2>1. QED
    BY <1>1
<1> HIDE DEF x, B, y, w
<1>5. v \in Nat /\ (v + 1) * B >= 10000 * x + 1
  <2>1. \A m \in Nat, d \in 1..99 : m \div d \in Nat /\ (m \div d + 1) * d >= m + 1
    OBVIOUS
  <2>2. x * Unit \in Nat /\ x * Unit = 10000 * x
    BY <1>4 DEF Unit
  <2>3. QED
    BY <1>4, <2>1, <2>2
<1> HIDE DEF v
<1> SUFFICES ASSUME odds.certain = 0, w * y < percent * Unit PROVE FALSE
  BY <1>2 DEF Below, w, y
<1>6. w >= v
  BY <1>3 DEF w, Odds
<1>7. w * y >= v * y
  BY <1>2, <1>4, <1>5, <1>6, ProductMonotone
<1>8. v * y >= v * B + v
  <2>1. y * v >= (B + 1) * v
    BY <1>4, <1>5, ProductMonotone
  <2>2. y * v = v * y /\ (B + 1) * v = v * B + v
    BY <1>4, <1>5
  <2>3. QED
    BY <1>4, <1>5, <2>1, <2>2
<1>9. v * B + B >= 10000 * x + 1
  <2>1. (v + 1) * B = v * B + B
    BY <1>4, <1>5
  <2>2. QED
    BY <1>5, <2>1
<1>10. v * B \in Nat /\ w * y < 10000 * (100 - y)
  BY <1>4, <1>5 DEF Unit
<1>11. v * B + v < 10000 * (100 - y)
  <2>1. v * y \in Nat /\ w * y \in Nat
    BY <1>2, <1>4, <1>5
  <2>2. QED
    BY <1>4, <1>5, <1>7, <1>8, <1>10, <2>1
<1>12. QED
  BY <1>4, <1>5, <1>9, <1>10, <1>11

\* Naming strong tiers for the gate earns no autonomy by itself: the evidence contains a pass,
\* or a failure of a tier that detects less often than it raises a false alarm (decide).
THEOREM AutonomyIsEarned == Gate!Spec => []AutonomyRestsOnAPass
<1>1. EvidenceInv => AutonomyRestsOnAPass
  <2> SUFFICES ASSUME EvidenceInv, NEW p \in DOMAIN Prior, NEW gate \in Gates,
                      \A i \in DOMAIN mission :
                          ~mission[i][2] /\ GetSensitivity(mission[i][1]) + Specificity[mission[i][1]] >= 100
               PROVE  Decide(p, mission, gate) = "HALT_AND_ESCALATE"
    BY DEF AutonomyRestsOnAPass
  <2> DEFINE odds == SequentialUpdate(p, mission)
  <2>1. mission \in Seq(Tiers \X BOOLEAN)
    BY DEF EvidenceInv
  <2>3. odds \in Odds /\ odds.value >= 1 /\ (odds.certain > 0 \/ odds.value >= PriorOdds(p).value)
    BY <2>1, OddsStay
  <2>4. Alpha \in 0..(2 * Alpha) /\ 2 * Alpha \in 0..(2 * Alpha)
    BY EvidenceAssumption
  <2> HIDE DEF odds
  <2>5. ~Below(odds, Alpha) /\ ~Below(odds, 2 * Alpha)
    BY <2>3, <2>4, PriorIsAbove
  <2>6. QED
    BY <2>5 DEF Decide, odds
<1>2. QED
  BY GateInvHolds, <1>1, PTL

\* While a tier detects at least as often as it raises a false alarm, its failure never
\* lowers the odds of a defect.
FailureCountsAgainst ==
    \A t \in Tiers, odds \in Odds :
        GetSensitivity(t) + Specificity[t] >= 100 /\ odds.value >= 1 =>
            LET after == Update(<<t, FALSE>>, odds)
            IN  after.certain > 0 \/ after.value >= odds.value

\* What computeLikelihoodRatio says of a failure holds of every tier that is better than
\* its false alarms, whatever outcomes were recorded (computeLikelihoodRatio, sequentialUpdate).
THEOREM FailuresCountAgainst == Gate!Spec => []FailureCountsAgainst
<1>1. EvidenceInv => FailureCountsAgainst
  <2> SUFFICES ASSUME EvidenceInv, NEW t \in Tiers, NEW odds \in Odds,
                      GetSensitivity(t) + Specificity[t] >= 100, odds.value >= 1
               PROVE  \/ Update(<<t, FALSE>>, odds).certain > 0
                      \/ Update(<<t, FALSE>>, odds).value >= odds.value
    BY DEF FailureCountsAgainst
  <2> DEFINE e == <<t, FALSE>>
  <2>1. e \in Tiers \X BOOLEAN /\ e[1] = t /\ ~e[2]
    OBVIOUS
  <2> HIDE DEF e
  <2>2. GetSensitivity(e[1]) + Specificity[e[1]] >= 100
    BY <2>1
  <2>3. Update(e, odds).certain > 0 \/ Update(e, odds).value >= odds.value
    BY <2>1, <2>2, UpdateType
  <2>4. QED
    BY <2>3 DEF e
<1>2. QED
  BY GateInvHolds, <1>1, PTL

=============================================================================
