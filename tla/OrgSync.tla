------------------------------- MODULE OrgSync -------------------------------
(***************************************************************************)
(* The organisation sync of the Node server: GitHubAdapter.syncLiveOrg     *)
(* (integrations/github/src/adapter.js), the projection of what it brings  *)
(* (StateProjector.updateRepositories) and the reality diff computed from  *)
(* the two (computeRealityDiff, packages/ontology/src/index.js).           *)
(*                                                                         *)
(* Each of the sync's reads is tried with the gh command first, which      *)
(* blocks the event loop, and then over https, which does not: from one    *)
(* await of an https answer to the next a sync is one step.  Nothing keeps *)
(* two syncs apart, and one may be asked for while another waits.          *)
(*                                                                         *)
(* A commit is its number in the history of its repository; the variables  *)
(* alone and exact are observations that no action reads.                  *)
(***************************************************************************)
EXTENDS Integers, FiniteSets

CONSTANTS
    Repos,           \* repositories of the organisation
    KeyRepos,        \* keyRepos: those whose latest commit is fetched
    Governed,        \* those that latest-org-state.json declares
    SeedRepos,       \* the repositories of seed-data.json
    Syncs,           \* requests for a sync (server start, GET and POST /api/org/sync)
    MaxHead          \* bound on the commits of a repository

Placeholder == 0     \* '7a89abb'
None == -1           \* no short head
NoState == [r \in {} |-> Placeholder]

Heads == 1..MaxHead

ASSUME OrgSyncAssumption ==
    /\ KeyRepos \subseteq Repos /\ Governed \subseteq Repos /\ SeedRepos \subseteq Repos
    /\ Governed # {} /\ MaxHead \in Nat \ {0}

VARIABLES
    head,            \* the commit each repository is at
    declared,        \* the heads that latest-org-state.json declares
    token,           \* whether the adapter has a token
    contract,        \* GitHubAdapter.orgStateContract: NoState or such heads
    view,            \* StateProjector.repositories
    sync,            \* where each requested sync is
    alone,           \* the syncs that nothing has disturbed since they started
    exact            \* the last sync to finish was undisturbed and got every answer

world == <<head, declared>>
vars  == <<world, token, contract, view, sync, alone, exact>>

-----------------------------------------------------------------------------
(* What the sync computes *)

\* The contract is looked at before the commit.
LatestHead_Declared(r, orgState, got) ==
    IF r \in DOMAIN orgState THEN orgState[r]
    ELSE IF r \in got THEN head[r] ELSE Placeholder

\* latestCommit?.sha || contract.remote_head_sha || '7a89abb'
LatestHead(r, orgState, got) ==
    IF r \in got THEN head[r]
    ELSE IF r \in DOMAIN orgState THEN orgState[r]
    ELSE Placeholder

\* The model of repository r that updateRepositories enters.
Enriched(r, orgState, got) ==
    [headSha |-> LatestHead(r, orgState, got), short |-> LatestHead(r, orgState, got),
     verified |-> r \in got]

\* The head that applyObservation keeps is compared, not the one the sync brought.
ObservedHead_Pushed(r) == view[r].headSha

ObservedHead(r) == IF view[r].short # None THEN view[r].short ELSE view[r].headSha

RealityDiff(r) ==
    IF r \notin DOMAIN contract THEN "UNREGISTERED_IN_CONTRACT"
    ELSE IF contract[r] = ObservedHead(r) THEN "IN_SYNC"
    ELSE "HEAD_DRIFTED"

-----------------------------------------------------------------------------
(* A sync *)

Idle == [phase |-> "idle"]

InFlight == {s \in Syncs : sync[s].phase # "idle"}

Complete(raw, orgState, got) == raw = Repos /\ orgState # NoState /\ got = KeyRepos

\* The commits are fetched with gh alone; what was read is entered and answered.
\* Repositories the list does not name keep their entries.
Finish(s, raw, orgState, calm) ==
    \E got \in SUBSET KeyRepos :
        /\ view' = [r \in Repos |-> IF r \in raw THEN Enriched(r, orgState, got) ELSE view[r]]
        /\ sync' = [sync EXCEPT ![s] = Idle]
        /\ exact' = (s \in calm /\ Complete(raw, orgState, got))
        /\ alone' = calm \ {s}
        /\ UNCHANGED world

\* What fetchGovernanceOrgState returns it also keeps.
Keep(orgState) == IF orgState = NoState THEN contract ELSE orgState

\* A token once found is kept.
ResolveToken == token' \in {token, TRUE}

\* fetchGovernanceOrgState asks gh, then with a token https.
FetchOrgState(s, raw, calm) ==
 /\ ResolveToken
 /\ \/ contract' = Keep(declared) /\ Finish(s, raw, declared, calm)
    \/ /\ token'
       /\ sync' = [sync EXCEPT ![s] = [phase |-> "asking", raw |-> raw]]
       /\ alone' = calm
       /\ UNCHANGED <<world, contract, view, exact>>
    \/ ~token' /\ UNCHANGED contract /\ Finish(s, raw, NoState, calm)

\* A sync that finds another in flight is disturbed, and disturbs it.
Calm(s) == IF InFlight = {} THEN {s} ELSE {}

StartListed(s) == sync[s] = Idle /\ FetchOrgState(s, Repos, Calm(s))

\* gh repo list fails: discover asks https.
StartAsking(s) ==
    /\ sync[s] = Idle
    /\ sync' = [sync EXCEPT ![s] = [phase |-> "listing"]]
    /\ alone' = Calm(s)
    /\ ResolveToken
    /\ UNCHANGED <<world, contract, view, exact>>

\* An error or a timeout of the list is answered with the seeds.
Listed(s) ==
    /\ sync[s].phase = "listing"
    /\ \E raw \in {Repos, SeedRepos} : FetchOrgState(s, raw, alone)

\* GitHub reads the file; its answer is on the way.
ReadOrgState(s) ==
    /\ sync[s].phase = "asking"
    /\ sync' = [sync EXCEPT ![s] = [phase |-> "answered", raw |-> @.raw, orgState |-> declared]]
    /\ UNCHANGED <<world, token, contract, view, alone, exact>>

Answered(s) ==
    /\ sync[s].phase = "answered"
    /\ contract' = Keep(sync[s].orgState) /\ UNCHANGED token
    /\ Finish(s, sync[s].raw, sync[s].orgState, alone)

\* An error of https resolves to null.
AnswerLost(s) ==
    /\ sync[s].phase \in {"asking", "answered"}
    /\ UNCHANGED <<token, contract>>
    /\ Finish(s, sync[s].raw, NoState, alone)

-----------------------------------------------------------------------------
(* What happens around it *)

\* A commit is pushed.
Push(r) ==
    /\ head[r] < MaxHead
    /\ head' = [head EXCEPT ![r] = @ + 1]
    /\ alone' = {} /\ exact' = FALSE
    /\ UNCHANGED <<declared, token, contract, view, sync>>

\* org-state-verify writes the heads of the day into latest-org-state.json.
Reconcile ==
    /\ declared # [r \in Governed |-> head[r]]
    /\ declared' = [r \in Governed |-> head[r]]
    /\ alone' = {} /\ exact' = FALSE
    /\ UNCHANGED <<head, token, contract, view, sync>>

\* applyObservation: a push is reported, now or late.
ObservePush(r, h) ==
    /\ h <= head[r] /\ h # view[r].headSha
    /\ view' = [view EXCEPT ![r].headSha = h]
    /\ UNCHANGED <<world, token, contract, sync, alone, exact>>

Init ==
    /\ head = [r \in Repos |-> 1] /\ declared = [r \in Governed |-> 1]
    /\ contract = NoState /\ token = FALSE
    /\ view = [r \in Repos |-> [headSha |-> Placeholder, short |-> None, verified |-> FALSE]]
    /\ sync = [s \in Syncs |-> Idle]
    /\ alone = {} /\ exact = FALSE

Next ==
    \/ \E s \in Syncs : \/ StartListed(s) \/ StartAsking(s) \/ Listed(s)
                        \/ ReadOrgState(s) \/ Answered(s) \/ AnswerLost(s)
    \/ \E r \in Repos : Push(r) \/ \E h \in Heads : ObservePush(r, h)
    \/ Reconcile

Spec == Init /\ [][Next]_vars

-----------------------------------------------------------------------------
(* Properties *)

OrgStates == [Governed -> Heads]

\* Heads are commits; a repository that was never synced has no short head; a sync
\* that has been listed carries its repositories, and one answered a file.
TypeOK ==
    /\ head \in [Repos -> Heads] /\ declared \in OrgStates
    /\ contract \in OrgStates \union {NoState} /\ token \in BOOLEAN
    /\ view \in [Repos -> [headSha : Heads \union {Placeholder}, verified : BOOLEAN,
                           short : Heads \union {Placeholder, None}]]
    /\ \A s \in Syncs :
           \/ sync[s] \in {Idle, [phase |-> "listing"]}
           \/ sync[s] \in [phase : {"asking"}, raw : {Repos, SeedRepos}]
           \/ sync[s] \in [phase : {"answered"}, raw : {Repos, SeedRepos}, orgState : OrgStates]
    /\ alone \subseteq InFlight /\ exact \in BOOLEAN

\* Of a repository shown VERIFIED before and after, the synced head never goes back,
\* however many syncs overlap and in whatever order they finish: the commits are
\* fetched after the last answer a sync waits for (syncLiveOrg).
VerifiedHeadsForward ==
    [][\A r \in Repos : view[r].verified /\ view'[r].verified
            => view'[r].short >= view[r].short]_vars

\* After a sync that got every answer, and that neither another sync nor a change on
\* GitHub disturbed, the reality diff shows a key repository as drifted exactly when
\* it has moved on from what the file declares, also while pushes are reported late
\* and the next syncs are under way (computeRealityDiff).
UndisturbedSyncIsExact ==
    exact => \A r \in KeyRepos \intersect Governed :
                 (RealityDiff(r) = "HEAD_DRIFTED") <=> (head[r] # declared[r])

=============================================================================
