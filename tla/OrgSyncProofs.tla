---------------------------- MODULE OrgSyncProofs ----------------------------
(* Proofs about OrgSync, for any repositories, syncs and commits.  One       *)
(* inductive invariant serves all three theorems: besides the types it says  *)
(* that a verified head is not ahead of its repository, that an undisturbed  *)
(* sync carries what the file still declares, and what an exact sync left.   *)
EXTENDS OrgSync, TLAPS

Views == [headSha : Heads \union {Placeholder}, verified : BOOLEAN,
          short : Heads \union {Placeholder, None}]

VerifiedBehind == \A r \in Repos : view[r].verified => view[r].short <= head[r]

CarriesDeclared ==
    \A s \in alone : sync[s].phase = "answered" => sync[s].orgState = declared

ExactLeaves ==
    exact => \A r \in KeyRepos \intersect Governed :
                 /\ r \in DOMAIN contract /\ contract[r] = declared[r]
                 /\ view[r].short = head[r]

SyncInv == TypeOK /\ DOMAIN sync = Syncs /\ VerifiedBehind /\ CarriesDeclared /\ ExactLeaves

\* The repositories that a list may name, and what a sync may carry of the file.
Lists == {Repos, SeedRepos}
States == OrgStates \union {NoState}

LEMMA EnrichedType ==
    ASSUME TypeOK, NEW r \in Repos, NEW o \in States, NEW got
    PROVE  /\ Enriched(r, o, got) \in Views
           /\ Enriched(r, o, got).verified => r \in got /\ Enriched(r, o, got).short = head[r]
           /\ r \in got => Enriched(r, o, got).short = head[r]
<1>1. head[r] \in Heads
  BY DEF TypeOK
<1>2. r \in DOMAIN o => o[r] \in Heads
  BY DEF States, OrgStates, NoState
<1>3. LatestHead(r, o, got) \in Heads \union {Placeholder} /\ (r \in got => LatestHead(r, o, got) = head[r])
  BY <1>1, <1>2 DEF LatestHead
<1>4. (r \in got) \in BOOLEAN
  OBVIOUS
<1> DEFINE e == Enriched(r, o, got)
<1>5. e = [headSha |-> LatestHead(r, o, got), short |-> LatestHead(r, o, got), verified |-> r \in got]
  BY DEF Enriched
<1>6. e \in Views
  BY <1>3, <1>4, <1>5 DEF Views
<1>7. e.verified = (r \in got) /\ e.short = LatestHead(r, o, got)
  BY <1>5
<1>8. QED
  BY <1>3, <1>6, <1>7

\* A sync that finishes keeps the invariant, if what it carries is the file's when it is
\* undisturbed, and what it keeps is what it carries.
LEMMA FinishInv ==
    ASSUME SyncInv, NEW s \in Syncs, NEW raw \in Lists, NEW o \in States, NEW calm,
           calm \subseteq InFlight \union {s}, s \in calm => o \in {declared, NoState},
           \A x \in calm : x # s => x \in alone,
           contract' = Keep(o), token' \in BOOLEAN, Finish(s, raw, o, calm)
    PROVE  SyncInv'
<1> PICK got \in SUBSET KeyRepos :
        /\ view' = [r \in Repos |-> IF r \in raw THEN Enriched(r, o, got) ELSE view[r]]
        /\ sync' = [sync EXCEPT ![s] = Idle]
        /\ exact' = (s \in calm /\ Complete(raw, o, got))
        /\ alone' = calm \ {s}
        /\ UNCHANGED world
  BY DEF Finish
<1>1. head' = head /\ declared' = declared
  BY DEF world
<1>2. \A r \in Repos : view'[r] \in Views /\ (view'[r].verified => view'[r].short <= head[r])
  <2> TAKE r \in Repos
  <2>1. CASE r \in raw
    BY <2>1, EnrichedType DEF SyncInv, TypeOK, Heads
  <2>2. CASE r \notin raw
    BY <2>2 DEF SyncInv, TypeOK, VerifiedBehind, Views
  <2>3. QED
    BY <2>1, <2>2
<1>3. view' \in [Repos -> Views]
  BY <1>2
<1>4. contract' \in States
  BY DEF SyncInv, TypeOK, Keep, States
<1>5. sync'[s] = Idle /\ \A x \in Syncs : x # s => sync'[x] = sync[x]
  BY DEF SyncInv, TypeOK
<1>6. TypeOK'
  BY <1>1, <1>3, <1>4, <1>5 DEF SyncInv, TypeOK, States, Views, InFlight, Idle, OrgStates
<1>7. CarriesDeclared'
  BY <1>1, <1>5 DEF SyncInv, CarriesDeclared, InFlight
<1>8. ExactLeaves'
  <2> SUFFICES ASSUME s \in calm, Complete(raw, o, got), NEW r \in KeyRepos \intersect Governed
               PROVE  r \in DOMAIN contract' /\ contract'[r] = declared[r] /\ view'[r].short = head[r]
    BY <1>1 DEF ExactLeaves
  <2>1. r \in Repos /\ raw = Repos /\ got = KeyRepos /\ o = declared
    BY OrgSyncAssumption DEF Complete, OrgSyncAssumption
  <2>2. contract' = declared /\ declared \in [Governed -> Heads]
    BY <2>1 DEF Keep, Complete, SyncInv, TypeOK, OrgStates
  <2>3. view'[r].short = head[r]
    BY <2>1, EnrichedType DEF SyncInv
  <2>4. QED
    BY <2>2, <2>3
<1>9. DOMAIN sync' = Syncs
  BY DEF SyncInv
<1>10. QED
  BY <1>1, <1>2, <1>6, <1>7, <1>8, <1>9 DEF SyncInv, VerifiedBehind

\* A sync that moves on without finishing.
LEMMA MoveInv ==
    ASSUME SyncInv, NEW s \in Syncs, NEW calm, calm \subseteq InFlight \union {s},
           \A x \in calm : x # s => x \in alone,
           NEW r, sync' = [sync EXCEPT ![s] = r], alone' = calm,
           \/ r = [phase |-> "listing"]
           \/ \E raw \in Lists : r = [phase |-> "asking", raw |-> raw]
           \/ \E raw \in Lists : r = [phase |-> "answered", raw |-> raw, orgState |-> declared],
           token' \in BOOLEAN, UNCHANGED <<world, contract, view, exact>>
    PROVE  SyncInv'
<1>1. head' = head /\ declared' = declared
  BY DEF world
<1>2. sync'[s] = r /\ \A x \in Syncs : x # s => sync'[x] = sync[x]
  BY DEF SyncInv
<1>3. r.phase # "idle" /\ (r.phase = "answered" => r.orgState = declared)
  OBVIOUS
<1>4. \/ r \in {Idle, [phase |-> "listing"]}
      \/ r \in [phase : {"asking"}, raw : {Repos, SeedRepos}]
      \/ r \in [phase : {"answered"}, raw : {Repos, SeedRepos}, orgState : OrgStates]
  BY DEF SyncInv, TypeOK, Lists
<1>5. InFlight \subseteq Syncs /\ InFlight' = InFlight \union {s}
  BY <1>2, <1>3 DEF InFlight
<1>6. TypeOK'
  BY <1>1, <1>2, <1>4, <1>5 DEF SyncInv, TypeOK, OrgStates
<1>7. CarriesDeclared'
  BY <1>1, <1>2, <1>3, <1>5 DEF SyncInv, CarriesDeclared
<1>8. ExactLeaves' /\ VerifiedBehind' /\ DOMAIN sync' = Syncs
  BY <1>1 DEF SyncInv, ExactLeaves, VerifiedBehind
<1>9. QED
  BY <1>6, <1>7, <1>8 DEF SyncInv

LEMMA FetchInv ==
    ASSUME SyncInv, NEW s \in Syncs, NEW raw \in Lists, NEW calm,
           calm \subseteq InFlight \union {s}, \A x \in calm : x # s => x \in alone,
           FetchOrgState(s, raw, calm)
    PROVE  SyncInv'
<1>1. token' \in BOOLEAN /\ declared \in States /\ NoState \in States
      /\ Keep(NoState) = contract
  BY DEF FetchOrgState, ResolveToken, SyncInv, TypeOK, States, Keep
<1>2. CASE contract' = Keep(declared) /\ Finish(s, raw, declared, calm)
  BY <1>1, <1>2, FinishInv
<1>3. CASE /\ sync' = [sync EXCEPT ![s] = [phase |-> "asking", raw |-> raw]]
           /\ alone' = calm /\ UNCHANGED <<world, contract, view, exact>>
  BY <1>1, <1>3, MoveInv
<1>4. CASE UNCHANGED contract /\ Finish(s, raw, NoState, calm)
  <2>1. contract' = Keep(NoState)
    BY <1>1, <1>4
  <2>2. QED
    BY <1>1, <1>4, <2>1, FinishInv
<1>5. QED
  BY <1>2, <1>3, <1>4 DEF FetchOrgState

\* A sync that starts is undisturbed if no other is in flight.
LEMMA CalmAlone ==
    ASSUME NEW s
    PROVE  Calm(s) \subseteq {s}
BY DEF Calm

LEMMA AloneInFlight ==
    ASSUME SyncInv, NEW s
    PROVE  alone \subseteq InFlight \union {s} /\ Repos \in Lists /\ SeedRepos \in Lists
           /\ token \in BOOLEAN /\ NoState \in States /\ Keep(NoState) = contract
BY DEF SyncInv, TypeOK, Lists, States, Keep

\* What a sync that waits for the file carries.
LEMMA Waiting ==
    ASSUME SyncInv, NEW s \in Syncs, sync[s].phase \in {"asking", "answered"}
    PROVE  sync[s].raw \in Lists /\ (sync[s].phase = "answered" => sync[s].orgState \in States)
BY DEF SyncInv, TypeOK, Idle, Lists, States

LEMMA SyncStep ==
    ASSUME SyncInv, NEW s \in Syncs,
           \/ StartListed(s) \/ StartAsking(s) \/ Listed(s)
           \/ ReadOrgState(s) \/ Answered(s) \/ AnswerLost(s)
    PROVE  SyncInv'
<1>1. CASE StartListed(s)
  BY <1>1, CalmAlone, AloneInFlight, FetchInv DEF StartListed
<1>2. CASE StartAsking(s)
  <2>1. token' \in BOOLEAN
    BY <1>2, AloneInFlight DEF StartAsking, ResolveToken
  <2>2. Calm(s) \subseteq InFlight \union {s} /\ \A x \in Calm(s) : x # s => x \in alone
    BY CalmAlone
  <2>3. QED
    BY <1>2, <2>1, <2>2, MoveInv DEF StartAsking
<1>3. CASE Listed(s)
  BY <1>3, AloneInFlight, FetchInv DEF Listed
<1>4. CASE ReadOrgState(s)
  <2>1. sync[s].raw \in Lists
    BY <1>4, Waiting DEF ReadOrgState
  <2> DEFINE r == [phase |-> "answered", raw |-> sync[s].raw, orgState |-> declared]
  <2>2. sync' = [sync EXCEPT ![s] = r]
    BY <1>4 DEF ReadOrgState, SyncInv
  <2>3. UNCHANGED <<world, contract, view, exact>> /\ alone' = alone /\ token' \in BOOLEAN
    BY <1>4, AloneInFlight DEF ReadOrgState
  <2>4. \E raw \in Lists : r = [phase |-> "answered", raw |-> raw, orgState |-> declared]
    BY <2>1
  <2>5. alone \subseteq InFlight \union {s}
    BY AloneInFlight
  <2> HIDE DEF r
  <2>6. QED
    BY <2>2, <2>3, <2>4, <2>5, MoveInv
<1>5. CASE Answered(s)
  <2>1. sync[s].phase = "answered" /\ contract' = Keep(sync[s].orgState) /\ token' = token
        /\ Finish(s, sync[s].raw, sync[s].orgState, alone)
    BY <1>5 DEF Answered
  <2>2. sync[s].raw \in Lists /\ sync[s].orgState \in States
    BY <2>1, Waiting
  <2>3. s \in alone => sync[s].orgState \in {declared, NoState}
    BY <2>1 DEF SyncInv, CarriesDeclared
  <2>4. QED
    BY <2>1, <2>2, <2>3, AloneInFlight, FinishInv
<1>6. CASE AnswerLost(s)
  <2>1. sync[s].raw \in Lists /\ token' = token /\ contract' = Keep(NoState)
        /\ Finish(s, sync[s].raw, NoState, alone)
    BY <1>6, Waiting, AloneInFlight DEF AnswerLost
  <2>2. QED
    BY <2>1, AloneInFlight, FinishInv
<1>7. QED
  BY <1>1, <1>2, <1>3, <1>4, <1>5, <1>6

LEMMA PushInv ==
    ASSUME SyncInv, NEW r \in Repos, Push(r)
    PROVE  SyncInv'
<1>1. /\ head' = [head EXCEPT ![r] = @ + 1] /\ head[r] < MaxHead
      /\ alone' = {} /\ exact' = FALSE /\ UNCHANGED <<declared, token, contract, view, sync>>
  BY DEF Push
<1>2. \A q \in Repos : head'[q] \in Heads /\ head[q] \in Heads /\ head[q] <= head'[q]
  BY <1>1, OrgSyncAssumption DEF SyncInv, TypeOK, Heads, OrgSyncAssumption
<1>3. head' \in [Repos -> Heads]
  BY <1>1, <1>2 DEF SyncInv, TypeOK
<1>4. VerifiedBehind'
  <2> SUFFICES ASSUME NEW q \in Repos, view[q].verified PROVE view[q].short <= head'[q]
    BY <1>1 DEF VerifiedBehind
  <2>1. view[q].short \in Int /\ view[q].short <= head[q]
    BY DEF SyncInv, TypeOK, VerifiedBehind, Heads, Placeholder, None
  <2>2. QED
    BY <1>2, <2>1 DEF Heads
<1>5. TypeOK'
  BY <1>1, <1>3 DEF SyncInv, TypeOK, InFlight, OrgStates
<1>6. QED
  BY <1>1, <1>4, <1>5 DEF SyncInv, CarriesDeclared, ExactLeaves

LEMMA ReconcileInv ==
    ASSUME SyncInv, Reconcile
    PROVE  SyncInv'
<1>1. /\ declared' = [r \in Governed |-> head[r]]
      /\ alone' = {} /\ exact' = FALSE /\ UNCHANGED <<head, token, contract, view, sync>>
  BY DEF Reconcile
<1>2. declared' \in [Governed -> Heads]
  BY <1>1, OrgSyncAssumption DEF SyncInv, TypeOK, OrgSyncAssumption
<1>3. TypeOK'
  BY <1>1, <1>2 DEF SyncInv, TypeOK, InFlight, OrgStates
<1>4. QED
  BY <1>1, <1>3 DEF SyncInv, CarriesDeclared, ExactLeaves, VerifiedBehind

LEMMA ObserveInv ==
    ASSUME SyncInv, NEW r \in Repos, NEW h \in Heads, ObservePush(r, h)
    PROVE  SyncInv'
<1>1. view' = [view EXCEPT ![r].headSha = h] /\ UNCHANGED <<world, token, contract, sync, alone, exact>>
  BY DEF ObservePush
<1>2. head' = head /\ declared' = declared
  BY <1>1 DEF world
<1>3. \A q \in Repos : view'[q] \in Views /\ view'[q].short = view[q].short
                       /\ view'[q].verified = view[q].verified
  BY <1>1 DEF SyncInv, TypeOK, Views
<1>4. view' \in [Repos -> Views]
  BY <1>1, <1>3 DEF SyncInv, TypeOK
<1>5. TypeOK'
  BY <1>1, <1>2, <1>4 DEF SyncInv, TypeOK, InFlight, OrgStates, Views
<1>6. VerifiedBehind' /\ CarriesDeclared'
  BY <1>1, <1>2, <1>3 DEF SyncInv, VerifiedBehind, CarriesDeclared
<1>7. ExactLeaves'
  BY <1>1, <1>2, <1>3, OrgSyncAssumption DEF SyncInv, ExactLeaves, OrgSyncAssumption
<1>8. QED
  BY <1>1, <1>5, <1>6, <1>7 DEF SyncInv

LEMMA SyncInit == Init => SyncInv
<1> SUFFICES ASSUME Init PROVE SyncInv
  OBVIOUS
<1>1. 1 \in Heads /\ Governed \subseteq Repos
  BY OrgSyncAssumption DEF Heads, OrgSyncAssumption
<1>2. /\ head = [r \in Repos |-> 1] /\ declared = [r \in Governed |-> 1]
      /\ contract = NoState /\ token = FALSE
      /\ view = [r \in Repos |-> [headSha |-> Placeholder, short |-> None, verified |-> FALSE]]
      /\ sync = [s \in Syncs |-> Idle] /\ alone = {} /\ exact = FALSE
  BY DEF Init
<1>3. TypeOK
  BY <1>1, <1>2 DEF TypeOK, OrgStates
<1>4. QED
  BY <1>2, <1>3 DEF SyncInv, VerifiedBehind, CarriesDeclared, ExactLeaves

LEMMA SyncNext == SyncInv /\ [Next]_vars => SyncInv'
<1> SUFFICES ASSUME SyncInv, [Next]_vars PROVE SyncInv'
  OBVIOUS
<1>1. CASE \E s \in Syncs : \/ StartListed(s) \/ StartAsking(s) \/ Listed(s)
                           \/ ReadOrgState(s) \/ Answered(s) \/ AnswerLost(s)
  BY <1>1, SyncStep
<1>2. CASE \E r \in Repos : Push(r)
  BY <1>2, PushInv
<1>3. CASE \E r \in Repos : \E h \in Heads : ObservePush(r, h)
  BY <1>3, ObserveInv
<1>4. CASE Reconcile
  BY <1>4, ReconcileInv
<1>5. CASE UNCHANGED vars
  BY <1>5 DEF vars, world, SyncInv, TypeOK, VerifiedBehind, CarriesDeclared, ExactLeaves,
     InFlight, OrgStates
<1>6. QED
  BY <1>1, <1>2, <1>3, <1>4, <1>5 DEF Next

\* Heads are commits, and a sync carries repositories and what the file said.
THEOREM TypeCorrect == Spec => []TypeOK
<1>1. SyncInv => TypeOK
  BY DEF SyncInv
<1>2. QED
  BY SyncInit, SyncNext, <1>1, PTL DEF Spec

\* After an undisturbed sync the reality diff is right about every key repository
\* (syncLiveOrg, computeRealityDiff).
THEOREM SyncExact == Spec => []UndisturbedSyncIsExact
<1>1. SyncInv => UndisturbedSyncIsExact
  <2> SUFFICES ASSUME SyncInv, exact, NEW r \in KeyRepos \intersect Governed
               PROVE  (RealityDiff(r) = "HEAD_DRIFTED") <=> (head[r] # declared[r])
    BY DEF UndisturbedSyncIsExact
  <2>1. r \in DOMAIN contract /\ contract[r] = declared[r] /\ view[r].short = head[r]
    BY DEF SyncInv, ExactLeaves
  <2>2. head[r] # None
    BY OrgSyncAssumption DEF SyncInv, TypeOK, Heads, None, OrgSyncAssumption
  <2>3. ObservedHead(r) = head[r]
    BY <2>1, <2>2 DEF ObservedHead
  <2>4. QED
    BY <2>1, <2>3 DEF RealityDiff
<1>2. QED
  BY SyncInit, SyncNext, <1>1, PTL DEF Spec

\* A sync never takes a verified head back (syncLiveOrg).
THEOREM HeadsForward == Spec => VerifiedHeadsForward
<1> DEFINE Forward == \A r \in Repos : view[r].verified /\ view'[r].verified
                                         => view'[r].short >= view[r].short
<1>1. SyncInv /\ [Next]_vars => Forward \/ UNCHANGED vars
  <2> SUFFICES ASSUME SyncInv, [Next]_vars PROVE Forward \/ UNCHANGED vars
    OBVIOUS
  <2>1. ASSUME NEW r \in Repos, view[r].verified
        PROVE  view[r].short \in Int /\ view[r].short <= head[r] /\ head[r] \in Int
    BY <2>1 DEF SyncInv, TypeOK, VerifiedBehind, Heads, Placeholder, None
  <2>2. ASSUME view' = view PROVE Forward
    BY <2>1, <2>2
  <2>3. ASSUME NEW s \in Syncs, NEW raw \in Lists, NEW o \in States, NEW calm,
               Finish(s, raw, o, calm)
        PROVE  Forward
    <3>1. PICK got \in SUBSET KeyRepos :
              view' = [r \in Repos |-> IF r \in raw THEN Enriched(r, o, got) ELSE view[r]]
      BY <2>3 DEF Finish
    <3>2. TypeOK
      BY DEF SyncInv
    <3>3. \A r \in Repos : Enriched(r, o, got).verified => Enriched(r, o, got).short = head[r]
      BY <2>3, <3>2, EnrichedType
    <3>4. ASSUME NEW r \in Repos, view[r].verified, view'[r].verified
          PROVE  view'[r].short >= view[r].short
      <4>1. CASE r \in raw
        BY <3>1, <3>3, <3>4, <2>1, <4>1
      <4>2. CASE r \notin raw
        BY <3>1, <3>4, <2>1, <4>2
      <4>3. QED
        BY <4>1, <4>2
    <3>5. QED
      BY <3>4
  <2> HIDE DEF Forward
  <2>4. ASSUME NEW s \in Syncs, NEW raw \in Lists, NEW calm, FetchOrgState(s, raw, calm)
        PROVE  Forward
    <3>1. declared \in States /\ NoState \in States
      BY DEF SyncInv, TypeOK, States
    <3>2. QED
      BY <2>2, <2>3, <2>4, <3>1 DEF FetchOrgState
  <2>5. CASE \E s \in Syncs : StartListed(s) \/ Listed(s)
    BY <2>4, <2>5, AloneInFlight DEF StartListed, Listed, Lists
  <2>6. CASE \E s \in Syncs : StartAsking(s) \/ ReadOrgState(s)
    BY <2>2, <2>6 DEF StartAsking, ReadOrgState
  <2>7. CASE \E s \in Syncs : Answered(s)
    <3> PICK s \in Syncs : Answered(s)
      BY <2>7
    <3>1. sync[s].raw \in Lists /\ sync[s].orgState \in States
      BY Waiting DEF Answered
    <3>2. QED
      BY <2>3, <3>1 DEF Answered
  <2>8. CASE \E s \in Syncs : AnswerLost(s)
    <3> PICK s \in Syncs : AnswerLost(s)
      BY <2>8
    <3>1. sync[s].raw \in Lists /\ NoState \in States
      BY Waiting, AloneInFlight DEF AnswerLost
    <3>2. QED
      BY <2>3, <3>1 DEF AnswerLost
  <2>9. CASE \E r \in Repos : Push(r)
    BY <2>2, <2>9 DEF Push
  <2>10. CASE \E r \in Repos : \E h \in Heads : ObservePush(r, h)
    <3> PICK r \in Repos, h \in Heads : ObservePush(r, h)
      BY <2>10
    <3>1. view' = [view EXCEPT ![r].headSha = h]
      BY DEF ObservePush
    <3>2. \A q \in Repos : view'[q].short = view[q].short /\ view[q] \in Views
      BY <3>1 DEF SyncInv, TypeOK, Views
    <3>3. QED
      BY <2>1, <3>2 DEF Forward
  <2>11. CASE Reconcile
    BY <2>2, <2>11 DEF Reconcile
  <2>12. QED
    BY <2>5, <2>6, <2>7, <2>8, <2>9, <2>10, <2>11 DEF Next
<1>2. QED
  BY SyncInit, SyncNext, <1>1, PTL DEF Spec, VerifiedHeadsForward

=============================================================================
