---------------------------- MODULE DesktopProofs ----------------------------
(***************************************************************************)
(* Proofs about the desktop client: its GitHub syncs, its updater, its     *)
(* page with the event stream, its TypeSafe policy and its agents, each    *)
(* for any of its constants.  The five share no state.                     *)
(***************************************************************************)
EXTENDS Inventory, Executables, PageAndStream, AgentRecords, EvaluationBudget,
        Sequences, FiniteSetTheorems, TLAPS

CONSTANTS
    Public, Requests, MaxSyncs, MaxChanges,                          \* SyncControl
    MaxRuns, MaxFaults,                                              \* Updater
    ChannelSize, WireSize, MaxStores, MaxFailures, MaxBreaks,        \* DesktopStream
    Callers, Fingerprints, MinInterval, DayLength, LastInstant, MaxCalls,    \* TypeSafePolicy
    Sessions, Events, States, KeepSessions, StaleAfter, Tolerance,   \* AgentFabric
    MaxSequence, MaxTime, MaxOpen, MaxAsked

VARIABLES
    token, exists, connector, syncMu, sync, syncs, changes,
    stage,
    version, queued, stores, failures, breaks,
    clock, state, key, typeSafeDay, typeSafeCalls, typeSafeRunning, typeSafeLastHash,
    decision, caller, begun,
    now, open, asked

Control == INSTANCE SyncControl

Updates == INSTANCE Updater

Page == INSTANCE DesktopStream WITH MaxChanges <- MaxStores, changes <- stores

Policy == INSTANCE TypeSafePolicy WITH States <- Fingerprints, MaxTime <- LastInstant

Fabric == INSTANCE AgentFabric

-----------------------------------------------------------------------------
(* GitHub syncs: the private repositories in the snapshot are those of the *)
(* last credentialed sync.  At most one sync is past TryLock, so the       *)
(* snapshot that a sync without a token merges with is still the stored    *)
(* one when it is saved.                                                   *)

Repos == Public \union Private

\* Where a sync can be.
Places ==
    [pc : {"idle"}] \union [pc : {"token", "fetch"}, token : BOOLEAN]
      \union [pc : {"merge", "save"}, token : BOOLEAN, repos : SUBSET Repos, errors : BOOLEAN]

SyncTypes ==
    /\ token \in BOOLEAN /\ exists \subseteq Repos /\ stored \subseteq Repos
    /\ sync \in [Control!Syncers -> Places]

\* Whoever is past TryLock holds the mutex.
Mutex == \A who \in Control!Syncers : sync[who].pc \in {"fetch", "merge", "save"} => syncMu = who

\* What a sync without a token has read, and what it is about to save.
Read(s)  == s.pc = "merge" /\ ~s.token => s.repos \intersect Private = {}
Ready(s) == s.pc = "save" /\ ~s.token =>
                s.repos = {} \/ s.repos \intersect Private = stored \intersect Private

SyncInv ==
    /\ SyncTypes /\ Mutex
    /\ \A who \in Control!Syncers : Read(sync[who]) /\ Ready(sync[who])
    /\ PrivateInventoryKept

\* The first state satisfies the invariant.
LEMMA SyncInit == Control!Init => SyncInv
BY DEF Control!Init, SyncInv, SyncTypes, Places, Repos, Mutex, Read, Ready, PrivateInventoryKept, Control!Idle

\* A step in which one sync moves to another place without saving keeps the invariant.
LEMMA SyncMoves ==
    ASSUME SyncInv, NEW who \in Control!Syncers, NEW place \in Places,
           sync' = [sync EXCEPT ![who] = place],
           token' = token, exists' = exists, UNCHANGED Control!saved,
           place.pc \in {"fetch", "merge", "save"} => syncMu' = who,
           \A other \in Control!Syncers \ {who} :
               sync[other].pc \in {"fetch", "merge", "save"} => syncMu' = other,
           Read(place), Ready(place)
    PROVE  SyncInv'
<1>1. SyncTypes'
  BY DEF SyncInv, SyncTypes, Control!saved
<1>2. sync'[who] = place /\ \A other \in Control!Syncers \ {who} : sync'[other] = sync[other]
  BY DEF SyncInv, SyncTypes
<1>3. Mutex'
  BY <1>2 DEF Mutex
<1>4. \A s \in Control!Syncers : Read(sync[s])' /\ Ready(sync[s])'
  BY <1>2 DEF SyncInv, Read, Ready, Control!saved
<1>5. PrivateInventoryKept'
  BY DEF SyncInv, PrivateInventoryKept, Control!saved
<1> QED BY <1>1, <1>3, <1>4, <1>5 DEF SyncInv

\* A sync that gets past TryLock finds nobody else past it.
LEMMA SyncBegins ==
    ASSUME "none" \notin Control!Syncers, SyncInv, NEW who \in Control!Syncers, NEW withToken \in BOOLEAN,
           Control!Begin(who, withToken)
    PROVE  SyncInv'
<1> DEFINE place == [pc |-> "fetch", token |-> withToken]
<1>1. place \in Places /\ Read(place) /\ Ready(place)
  BY DEF Places, Read, Ready
<1>2. \A other \in Control!Syncers : sync[other].pc \notin {"fetch", "merge", "save"}
  BY DEF SyncInv, Mutex, Control!Begin, Control!Locked
<1> QED BY <1>1, <1>2, SyncMoves DEF Control!Begin

LEMMA LoopInv == ASSUME "none" \notin Control!Syncers, SyncInv, Control!ReadToken \/ Control!BackgroundSync \/ Control!SkipSync
                 PROVE  SyncInv'
<1>1. Control!Loop \in Control!Syncers
  BY DEF Control!Syncers
<1>2. CASE Control!ReadToken
  <2> DEFINE place == [pc |-> "token", token |-> token]
  <2>1. place \in Places /\ Read(place) /\ Ready(place) /\ place.pc = "token"
    BY DEF SyncInv, SyncTypes, Places, Read, Ready
  <2> QED BY <1>1, <1>2, <2>1, SyncMoves DEF Control!ReadToken, Control!saved, SyncInv, Mutex
<1>3. CASE Control!BackgroundSync
  <2>1. sync[Control!Loop].token \in BOOLEAN
    BY <1>1, <1>3 DEF Control!BackgroundSync, SyncInv, SyncTypes, Places
  <2> QED BY <1>1, <1>3, <2>1, SyncBegins DEF Control!BackgroundSync
<1>4. CASE Control!SkipSync
  <2>1. Control!Idle \in Places /\ Read(Control!Idle) /\ Ready(Control!Idle) /\ Control!Idle.pc = "idle"
    BY DEF Control!Idle, Places, Read, Ready
  <2> QED BY <1>1, <1>4, <2>1, SyncMoves DEF Control!SkipSync, Control!saved, SyncInv, Mutex
<1> QED BY <1>2, <1>3, <1>4

LEMMA OperatorInv ==
    ASSUME "none" \notin Control!Syncers, SyncInv, NEW r \in Requests, Control!OperatorSync(r)
    PROVE  SyncInv'
BY SyncBegins DEF Control!OperatorSync, Control!Syncers, SyncInv, SyncTypes

\* Without a token no private repository is read.
LEMMA FetchInv ==
    ASSUME SyncInv, NEW who \in Control!Syncers, NEW repos \in SUBSET Repos, NEW errors \in BOOLEAN,
           Control!Fetch(who, repos, errors)
    PROVE  SyncInv'
<1> DEFINE place == [pc |-> "merge", token |-> sync[who].token, repos |-> repos, errors |-> errors]
<1>1. sync[who].pc = "fetch" /\ sync[who].token \in BOOLEAN /\ syncMu = who
  BY DEF Control!Fetch, SyncInv, SyncTypes, Places, Mutex
<1>2. place \in Places /\ Ready(place)
  BY <1>1 DEF Places, Ready
<1>3. Read(place)
  BY DEF Control!Fetch, Read
<1> QED BY <1>1, <1>2, <1>3, SyncMoves DEF Control!Fetch, Control!saved, SyncInv, Mutex

\* What is to be saved without a token has the stored private repositories or nothing.
LEMMA MergeInv == ASSUME SyncInv, NEW who \in Control!Syncers, Control!Merge(who) PROVE SyncInv'
<1> DEFINE s == sync[who]
           place == [pc |-> "save", token |-> s.token, repos |-> Control!Merged(s), errors |-> s.errors]
<1>1. /\ s \in [pc : {"merge", "save"}, token : BOOLEAN, repos : SUBSET Repos, errors : BOOLEAN]
      /\ s.pc = "merge" /\ syncMu = who
  BY DEF Control!Merge, SyncInv, SyncTypes, Places, Mutex
<1>2. stored \subseteq Repos
  BY DEF SyncInv, SyncTypes
<1>3. place \in Places
  BY <1>1, <1>2 DEF Places, Control!Merged
<1>4. Read(place) /\ Ready(place)
  BY <1>1 DEF Read, Ready, Control!Merged, SyncInv
<1>5. sync' = [sync EXCEPT ![who] = place]
  BY <1>1 DEF Control!Merge, SyncInv, SyncTypes
<1> QED BY <1>1, <1>3, <1>4, <1>5, SyncMoves DEF Control!Merge, Control!saved, SyncInv, Mutex

\* Nobody else is about to save when the snapshot changes.
LEMMA FinishInv == ASSUME SyncInv, NEW who \in Control!Syncers, Control!Finish(who) PROVE SyncInv'
<1>1. sync[who].pc = "save" /\ \A other \in Control!Syncers \ {who} :
          sync[other].pc \notin {"fetch", "merge", "save"}
  BY DEF Control!Finish, SyncInv, Mutex
<1>2. /\ sync[who].token \in BOOLEAN /\ sync[who].repos \subseteq Repos
      /\ Control!Idle \in Places /\ Control!Idle.pc = "idle"
  BY <1>1 DEF SyncInv, SyncTypes, Places, Control!Idle
<1>3. sync'[who] = Control!Idle /\ \A other \in Control!Syncers \ {who} : sync'[other] = sync[other]
  BY DEF Control!Finish, SyncInv, SyncTypes
<1>4. SyncTypes'
  BY <1>2 DEF Control!Finish, SyncInv, SyncTypes, Control!saved
<1>5. Mutex' /\ \A s \in Control!Syncers : Read(sync[s])' /\ Ready(sync[s])'
  BY <1>1, <1>2, <1>3 DEF Mutex, Read, Ready
<1>6. PrivateInventoryKept'
  BY <1>1, <1>2 DEF Control!Finish, Ready, SyncInv, PrivateInventoryKept, Control!saved
<1> QED BY <1>4, <1>5, <1>6 DEF SyncInv

\* Changes of the token and of the organisation touch no sync.
LEMMA ChangeInv ==
    ASSUME SyncInv, UNCHANGED <<Control!saved, syncMu, sync>>, token' \in BOOLEAN, exists' \subseteq Repos
    PROVE  SyncInv'
BY DEF SyncInv, SyncTypes, Mutex, Read, Ready, PrivateInventoryKept, Control!saved

LEMMA SyncNext == ASSUME "none" \notin Control!Syncers, SyncInv, [Control!Next]_(Control!vars) PROVE SyncInv'
<1>1. token \in BOOLEAN /\ exists \subseteq Repos
  BY DEF SyncInv, SyncTypes
<1>2. CASE UNCHANGED Control!vars
  BY <1>1, <1>2, ChangeInv DEF Control!vars
<1>3. CASE Control!SetToken \/ Control!DeleteToken \/ \E repos \in SUBSET Repos : Control!Organise(repos)
  BY <1>1, <1>3, ChangeInv DEF Control!SetToken, Control!DeleteToken, Control!Organise, Control!Change
<1>4. QED
  BY <1>2, <1>3, LoopInv, OperatorInv, FetchInv, MergeInv, FinishInv DEF Control!Next, Repos

\* The private repositories in the store are those of the last credentialed snapshot, until
\* a request without a token stores an empty list (syncHandler, mergePublicSnapshot).
THEOREM InventoryKept == ASSUME "none" \notin Control!Syncers PROVE Control!Spec => []PrivateInventoryKept
<1>1. SyncInv => PrivateInventoryKept
  BY DEF SyncInv
<1>2. QED
  BY SyncInit, SyncNext, <1>1, PTL DEF Control!Spec

-----------------------------------------------------------------------------
(* The updater *)

\* Where the executables are at each step of the first run.
FirstRun ==
    /\ pc \in {"stage", "aside"} => install = "old"
    /\ pc \in {"aside", "swap"} => stage = "new"
    /\ pc \in {"swap", "check", "archive", "remove", "restore"} => previous = "old"
    /\ pc \in {"check", "archive", "drop"} => install = "new"
    /\ pc \in {"archive", "drop"} => candidate = "good"
    /\ pc = "drop" => "old" \in archived
    /\ pc \in {"stage", "aside", "swap", "check", "archive", "drop"} => result = "none"
    /\ pc \in {"remove", "restore"} => result = "none" \/ (result = "failed" /\ faults > 0)

UpdaterInv ==
    /\ runs \in Nat /\ faults \in Nat
    /\ candidate \in {"good", "bad"}
    /\ pc \in {"idle", "stage", "aside", "swap", "check", "archive", "drop", "remove", "restore"}
    /\ runs = 0 => pc = "idle" /\ install = "old"
    /\ runs = 1 => FirstRun
    /\ OldExecutableKept /\ FaultUndone

LEMMA UpdaterInit == Updates!Init => UpdaterInv
BY DEF Updates!Init, UpdaterInv, OldExecutableKept, FaultUndone

LEMMA UpdaterNext == UpdaterInv /\ [Updates!Next]_(Updates!vars) => UpdaterInv'
<1> SUFFICES ASSUME UpdaterInv, [Updates!Next]_(Updates!vars) PROVE UpdaterInv'
  OBVIOUS
<1> USE DEF UpdaterInv
<1>1. CASE Updates!Start
  <2>1. /\ runs' \in Nat /\ faults' \in Nat /\ candidate' \in {"good", "bad"}
        /\ pc' \in {"idle", "stage", "aside", "swap", "check", "archive", "drop", "remove", "restore"}
        /\ runs' # 0
    BY <1>1 DEF Updates!Start, Updates!Goto, Updates!End, Updates!Fault, Updates!Rollback
  <2>2. runs' = 1 => FirstRun'
    BY <1>1 DEF Updates!Start, Updates!Goto, Updates!End, Updates!Fault, Updates!Rollback, Updates!files, FirstRun
  <2>3. OldExecutableKept'
    BY <1>1 DEF Updates!Start, Updates!Goto, Updates!End, Updates!Fault, Updates!Rollback, Updates!files, FirstRun, OldExecutableKept
  <2>4. FaultUndone'
    BY <1>1 DEF Updates!Start, Updates!Goto, Updates!End, Updates!Fault, Updates!Rollback, Updates!files, FirstRun, FaultUndone
  <2>5. QED
    BY <2>1, <2>2, <2>3, <2>4
<1>2. CASE Updates!Stage
  <2>1. /\ runs' \in Nat /\ faults' \in Nat /\ candidate' \in {"good", "bad"}
        /\ pc' \in {"idle", "stage", "aside", "swap", "check", "archive", "drop", "remove", "restore"}
        /\ runs' # 0
    BY <1>2 DEF Updates!Stage, Updates!Goto, Updates!End, Updates!Fault, Updates!Rollback
  <2>2. runs' = 1 => FirstRun'
    BY <1>2 DEF Updates!Stage, Updates!Goto, Updates!End, Updates!Fault, Updates!Rollback, Updates!files, FirstRun
  <2>3. OldExecutableKept'
    BY <1>2 DEF Updates!Stage, Updates!Goto, Updates!End, Updates!Fault, Updates!Rollback, Updates!files, FirstRun, OldExecutableKept
  <2>4. FaultUndone'
    BY <1>2 DEF Updates!Stage, Updates!Goto, Updates!End, Updates!Fault, Updates!Rollback, Updates!files, FirstRun, FaultUndone
  <2>5. QED
    BY <2>1, <2>2, <2>3, <2>4
<1>3. CASE Updates!Aside
  <2>1. /\ runs' \in Nat /\ faults' \in Nat /\ candidate' \in {"good", "bad"}
        /\ pc' \in {"idle", "stage", "aside", "swap", "check", "archive", "drop", "remove", "restore"}
        /\ runs' # 0
    BY <1>3 DEF Updates!Aside, Updates!Goto, Updates!End, Updates!Fault, Updates!Rollback
  <2>2. runs' = 1 => FirstRun'
    BY <1>3 DEF Updates!Aside, Updates!Goto, Updates!End, Updates!Fault, Updates!Rollback, Updates!files, FirstRun
  <2>3. OldExecutableKept'
    BY <1>3 DEF Updates!Aside, Updates!Goto, Updates!End, Updates!Fault, Updates!Rollback, Updates!files, FirstRun, OldExecutableKept
  <2>4. FaultUndone'
    BY <1>3 DEF Updates!Aside, Updates!Goto, Updates!End, Updates!Fault, Updates!Rollback, Updates!files, FirstRun, FaultUndone
  <2>5. QED
    BY <2>1, <2>2, <2>3, <2>4
<1>4. CASE Updates!Swap
  <2>1. /\ runs' \in Nat /\ faults' \in Nat /\ candidate' \in {"good", "bad"}
        /\ pc' \in {"idle", "stage", "aside", "swap", "check", "archive", "drop", "remove", "restore"}
        /\ runs' # 0
    BY <1>4 DEF Updates!Swap, Updates!Goto, Updates!End, Updates!Fault, Updates!Rollback
  <2>2. runs' = 1 => FirstRun'
    BY <1>4 DEF Updates!Swap, Updates!Goto, Updates!End, Updates!Fault, Updates!Rollback, Updates!files, FirstRun
  <2>3. OldExecutableKept'
    BY <1>4 DEF Updates!Swap, Updates!Goto, Updates!End, Updates!Fault, Updates!Rollback, Updates!files, FirstRun, OldExecutableKept
  <2>4. FaultUndone'
    BY <1>4 DEF Updates!Swap, Updates!Goto, Updates!End, Updates!Fault, Updates!Rollback, Updates!files, FirstRun, FaultUndone
  <2>5. QED
    BY <2>1, <2>2, <2>3, <2>4
<1>5. CASE Updates!Check
  <2>1. /\ runs' \in Nat /\ faults' \in Nat /\ candidate' \in {"good", "bad"}
        /\ pc' \in {"idle", "stage", "aside", "swap", "check", "archive", "drop", "remove", "restore"}
        /\ runs' # 0
    BY <1>5 DEF Updates!Check, Updates!Passes, Updates!Goto, Updates!End, Updates!Fault, Updates!Rollback
  <2>2. runs' = 1 => FirstRun'
    BY <1>5 DEF Updates!Check, Updates!Passes, Updates!Goto, Updates!End, Updates!Fault, Updates!Rollback, Updates!files, FirstRun
  <2>3. OldExecutableKept'
    BY <1>5 DEF Updates!Check, Updates!Passes, Updates!Goto, Updates!End, Updates!Fault, Updates!Rollback, Updates!files, FirstRun, OldExecutableKept
  <2>4. FaultUndone'
    BY <1>5 DEF Updates!Check, Updates!Passes, Updates!Goto, Updates!End, Updates!Fault, Updates!Rollback, Updates!files, FirstRun, FaultUndone
  <2>5. QED
    BY <2>1, <2>2, <2>3, <2>4
<1>6. CASE Updates!Archive
  <2>1. /\ runs' \in Nat /\ faults' \in Nat /\ candidate' \in {"good", "bad"}
        /\ pc' \in {"idle", "stage", "aside", "swap", "check", "archive", "drop", "remove", "restore"}
        /\ runs' # 0
    BY <1>6 DEF Updates!Archive, Updates!Archived, Updates!Goto, Updates!End, Updates!Fault, Updates!Rollback
  <2>2. runs' = 1 => FirstRun'
    BY <1>6 DEF Updates!Archive, Updates!Archived, Updates!Goto, Updates!End, Updates!Fault, Updates!Rollback, Updates!files, FirstRun
  <2>3. OldExecutableKept'
    BY <1>6 DEF Updates!Archive, Updates!Archived, Updates!Goto, Updates!End, Updates!Fault, Updates!Rollback, Updates!files, FirstRun, OldExecutableKept
  <2>4. FaultUndone'
    BY <1>6 DEF Updates!Archive, Updates!Archived, Updates!Goto, Updates!End, Updates!Fault, Updates!Rollback, Updates!files, FirstRun, FaultUndone
  <2>5. QED
    BY <2>1, <2>2, <2>3, <2>4
<1>7. CASE Updates!Drop
  <2>1. /\ runs' \in Nat /\ faults' \in Nat /\ candidate' \in {"good", "bad"}
        /\ pc' \in {"idle", "stage", "aside", "swap", "check", "archive", "drop", "remove", "restore"}
        /\ runs' # 0
    BY <1>7 DEF Updates!Drop, Updates!Goto, Updates!End, Updates!Fault, Updates!Rollback
  <2>2. runs' = 1 => FirstRun'
    BY <1>7 DEF Updates!Drop, Updates!Goto, Updates!End, Updates!Fault, Updates!Rollback, Updates!files, FirstRun
  <2>3. OldExecutableKept'
    BY <1>7 DEF Updates!Drop, Updates!Goto, Updates!End, Updates!Fault, Updates!Rollback, Updates!files, FirstRun, OldExecutableKept
  <2>4. FaultUndone'
    BY <1>7 DEF Updates!Drop, Updates!Goto, Updates!End, Updates!Fault, Updates!Rollback, Updates!files, FirstRun, FaultUndone
  <2>5. QED
    BY <2>1, <2>2, <2>3, <2>4
<1>8. CASE Updates!Remove
  <2>1. /\ runs' \in Nat /\ faults' \in Nat /\ candidate' \in {"good", "bad"}
        /\ pc' \in {"idle", "stage", "aside", "swap", "check", "archive", "drop", "remove", "restore"}
        /\ runs' # 0
    BY <1>8 DEF Updates!Remove, Updates!Goto, Updates!End, Updates!Fault, Updates!Rollback
  <2>2. runs' = 1 => FirstRun'
    BY <1>8 DEF Updates!Remove, Updates!Goto, Updates!End, Updates!Fault, Updates!Rollback, Updates!files, FirstRun
  <2>3. OldExecutableKept'
    BY <1>8 DEF Updates!Remove, Updates!Goto, Updates!End, Updates!Fault, Updates!Rollback, Updates!files, FirstRun, OldExecutableKept
  <2>4. FaultUndone'
    BY <1>8 DEF Updates!Remove, Updates!Goto, Updates!End, Updates!Fault, Updates!Rollback, Updates!files, FirstRun, FaultUndone
  <2>5. QED
    BY <2>1, <2>2, <2>3, <2>4
<1>9. CASE Updates!Restore
  <2>1. /\ runs' \in Nat /\ faults' \in Nat /\ candidate' \in {"good", "bad"}
        /\ pc' \in {"idle", "stage", "aside", "swap", "check", "archive", "drop", "remove", "restore"}
        /\ runs' # 0
    BY <1>9 DEF Updates!Restore, Updates!Goto, Updates!End, Updates!Fault, Updates!Rollback
  <2>2. runs' = 1 => FirstRun'
    BY <1>9 DEF Updates!Restore, Updates!Goto, Updates!End, Updates!Fault, Updates!Rollback, Updates!files, FirstRun
  <2>3. OldExecutableKept'
    BY <1>9 DEF Updates!Restore, Updates!Goto, Updates!End, Updates!Fault, Updates!Rollback, Updates!files, FirstRun, OldExecutableKept
  <2>4. FaultUndone'
    BY <1>9 DEF Updates!Restore, Updates!Goto, Updates!End, Updates!Fault, Updates!Rollback, Updates!files, FirstRun, FaultUndone
  <2>5. QED
    BY <2>1, <2>2, <2>3, <2>4
<1>10. CASE Updates!Kill
  <2>1. /\ runs' \in Nat /\ faults' \in Nat /\ candidate' \in {"good", "bad"}
        /\ pc' \in {"idle", "stage", "aside", "swap", "check", "archive", "drop", "remove", "restore"}
        /\ runs' # 0
    BY <1>10 DEF Updates!Kill, Updates!Goto, Updates!End, Updates!Fault, Updates!Rollback
  <2>2. runs' = 1 => FirstRun'
    BY <1>10 DEF Updates!Kill, Updates!Goto, Updates!End, Updates!Fault, Updates!Rollback, Updates!files, FirstRun
  <2>3. OldExecutableKept'
    BY <1>10 DEF Updates!Kill, Updates!Goto, Updates!End, Updates!Fault, Updates!Rollback, Updates!files, FirstRun, OldExecutableKept
  <2>4. FaultUndone'
    BY <1>10 DEF Updates!Kill, Updates!Goto, Updates!End, Updates!Fault, Updates!Rollback, Updates!files, FirstRun, FaultUndone
  <2>5. QED
    BY <2>1, <2>2, <2>3, <2>4
<1>11. CASE UNCHANGED Updates!vars
  BY <1>11 DEF Updates!vars, Updates!files, FirstRun, OldExecutableKept, FaultUndone
<1>12. QED
  BY <1>1, <1>2, <1>3, <1>4, <1>5, <1>6, <1>7, <1>8, <1>9, <1>10, <1>11 DEF Updates!Next

\* Until the updater is run again, the old executable is on the disk (Apply).
THEOREM OldKept == Updates!Spec => []OldExecutableKept
<1>1. UpdaterInv => OldExecutableKept
  BY DEF UpdaterInv
<1>2. QED
  BY UpdaterInit, UpdaterNext, <1>1, PTL DEF Updates!Spec

\* One failing step of a run that is not killed is undone (Apply).
THEOREM OneFaultUndone == Updates!Spec => []FaultUndone
<1>1. UpdaterInv => FaultUndone
  BY DEF UpdaterInv
<1>2. QED
  BY UpdaterInit, UpdaterNext, <1>1, PTL DEF Updates!Spec

-----------------------------------------------------------------------------
(* The page and its stream, for any channel that keeps one event *)

StreamEvent == {"ready", "update", "ping"}
Phase == {"boot", "connecting", "subscribed", "open", "closed"}

\* An event that will make the page ask is on its way, or will be once the stream opens.
Due ==
    \/ stream \in {"boot", "connecting", "subscribed"} \/ channel > 0
    \/ \E i \in 1..Len(wire) : wire[i] # "ping"

\* The page has asked, will ask again, or shows what it was told of.
Current ==
    \/ Due \/ (queued /\ request # NoRequest) \/ request = Page!Asked
    \/ request > 0 /\ request >= told
    \/ request = NoRequest /\ (shown >= told \/ failed)

PageTypes ==
    /\ version \in Nat \ {0} /\ told \in Nat /\ shown \in Nat
    /\ toTell \subseteq 1..version /\ told <= version
    /\ request \in Nat \union {Page!Asked} /\ channel \in Nat
    /\ wire \in Seq(StreamEvent) /\ stream \in Phase

PageInv ==
    /\ PageTypes
    /\ ~destroyed => stream # "closed" /\ Current

LEMMA PageInit == Page!Init => PageInv
BY DEF Page!Init, PageInv, PageTypes, Current, Due, Page!Asked, NoRequest, Page!NoRequest, StreamEvent, Phase

\* What a call of refresh leaves: a request that is asked, or a remembered call.
LEMMA RefreshAsks ==
    ASSUME PageTypes, Page!Refresh
    PROVE  /\ request' = Page!Asked \/ (queued' /\ request' # NoRequest)
           /\ request' \in Nat \union {Page!Asked}
BY DEF PageTypes, Page!Refresh, Page!AskAgain, Page!Asked, NoRequest, Page!NoRequest

LEMMA TypesKept == ASSUME PageTypes, Page!Next PROVE PageTypes'
<1> USE DEF PageTypes, Page!Asked, NoRequest, Page!NoRequest, Phase
<1>1. CASE Page!Change
  BY <1>1 DEF Page!Change, Page!page
<1>2. ASSUME NEW v \in toTell, Page!Broadcast(v) PROVE PageTypes'
  <2>1. v \in 1..version
    OBVIOUS
  <2>2. QED
    BY <1>2, <2>1 DEF Page!Broadcast, Page!page
<1>3. CASE Page!Subscribe
  BY <1>3 DEF Page!Subscribe, Page!server, Page!page
<1>4. CASE Page!Ready
  BY <1>4 DEF Page!Ready, Page!server, Page!page, StreamEvent
<1>5. CASE Page!Update
  BY <1>5 DEF Page!Update, Page!server, Page!page, StreamEvent
<1>6. CASE Page!Ping
  BY <1>6 DEF Page!Ping, Page!server, Page!page, StreamEvent
<1>7. CASE Page!Break
  BY <1>7 DEF Page!Break, Page!server, Page!page
<1>8. CASE Page!Poll
  BY <1>8, RefreshAsks DEF Page!Poll, Page!server
<1>9. CASE Page!Receive
  <2>1. request' \in Nat \union {Page!Asked}
    BY <1>9, RefreshAsks DEF Page!Receive
  <2>2. QED
    BY <1>9, <2>1 DEF Page!Receive, Page!server
<1>10. CASE Page!Answer
  BY <1>10 DEF Page!Answer, Page!server
<1>11. CASE Page!Arrive
  BY <1>11 DEF Page!Arrive, Page!Over, Page!Connected, Page!server
<1>12. CASE Page!Fail
  BY <1>12 DEF Page!Fail, Page!AfterFailure, Page!Over, Page!Connected, Page!server
<1>13. CASE Page!Teardown
  BY <1>13 DEF Page!Teardown, Page!server, Page!page
<1>14. QED
  BY <1>1, <1>2, <1>3, <1>4, <1>5, <1>6, <1>7, <1>8, <1>9, <1>10, <1>11, <1>12, <1>13 DEF Page!Next

\* A written event that is not a ping makes the page ask.
LEMMA WrittenIsDue ==
    ASSUME NEW e \in StreamEvent, e # "ping", wire \in Seq(StreamEvent), wire' = Append(wire, e)
    PROVE  Due'
<1>1. Len(wire') = Len(wire) + 1 /\ wire'[Len(wire')] = e /\ Len(wire) \in Nat
  OBVIOUS
<1>2. Len(wire') \in 1..Len(wire')
  BY <1>1
<1>3. QED
  BY <1>1, <1>2 DEF Due

\* An event on its way stays due until it is read.
LEMMA PingKeepsDue ==
    ASSUME wire \in Seq(StreamEvent), wire' = Append(wire, "ping"), Due, stream' = stream, channel' = channel
    PROVE  Due'
<1>1. CASE \E i \in 1..Len(wire) : wire[i] # "ping"
  <2>1. PICK i \in 1..Len(wire) : wire[i] # "ping"
    BY <1>1
  <2>2. i \in 1..Len(wire') /\ wire'[i] = wire[i]
    OBVIOUS
  <2>3. QED
    BY <2>1, <2>2 DEF Due
<1>2. QED
  BY <1>1 DEF Due

LEMMA ReadKeepsDue ==
    ASSUME wire \in Seq(StreamEvent), wire # <<>>, Head(wire) = "ping", wire' = Tail(wire),
           Due, stream' = stream, channel' = channel
    PROVE  Due'
<1>1. CASE \E i \in 1..Len(wire) : wire[i] # "ping"
  <2>1. PICK i \in 1..Len(wire) : wire[i] # "ping"
    BY <1>1
  <2>2. i # 1
    BY <2>1
  <2>3. i - 1 \in 1..Len(wire') /\ wire'[i - 1] = wire[i]
    BY <2>2
  <2>4. QED
    BY <2>1, <2>3 DEF Due
<1>2. QED
  BY <1>1 DEF Due

LEMMA PageNext == ASSUME ChannelSize \in Nat \ {0} PROVE PageInv /\ [Page!Next]_(Page!vars) => PageInv'
<1> SUFFICES ASSUME PageInv, [Page!Next]_(Page!vars) PROVE PageInv'
  OBVIOUS
<1>1. CASE UNCHANGED Page!vars
  BY <1>1 DEF Page!vars, Page!server, Page!page, PageInv, PageTypes, Current, Due
<1>2. CASE Page!Next
  <2>1. PageTypes'
    BY <1>2, TypesKept DEF PageInv
  <2>2. SUFFICES ASSUME ~destroyed' PROVE stream' # "closed" /\ Current'
    BY <2>1 DEF PageInv
  <2> USE DEF PageInv, PageTypes
  <2>3. CASE Page!Change
    BY <2>2, <2>3 DEF Page!Change, Page!page, Current, Due
  <2>4. ASSUME NEW v \in toTell, Page!Broadcast(v) PROVE stream' # "closed" /\ Current'
    <3>1. stream' # "closed" /\ UNCHANGED <<stream, wire, Page!page>>
      BY <2>2, <2>4 DEF Page!Broadcast
    <3>2. CASE Page!Subscribed /\ channel < ChannelSize
      BY <3>1, <3>2, <2>4 DEF Page!Broadcast, Current, Due
    <3>3. CASE Page!Subscribed /\ ~(channel < ChannelSize)
      BY <3>1, <3>3, <2>4 DEF Page!Broadcast, Current, Due
    <3>4. CASE ~Page!Subscribed
      BY <3>1, <3>4 DEF Page!Subscribed, Phase, Current, Due
    <3>5. QED
      BY <3>2, <3>3, <3>4
  <2>5. CASE Page!Subscribe
    BY <2>5 DEF Page!Subscribe, Current, Due
  <2>6. CASE Page!Ready
    BY <2>6, WrittenIsDue DEF Page!Ready, StreamEvent, Current
  <2>7. CASE Page!Update
    BY <2>2, <2>7, WrittenIsDue DEF Page!Update, StreamEvent, Current
  <2>8. CASE Page!Ping
    <3>1. Due => Due'
      BY <2>8, PingKeepsDue DEF Page!Ping
    <3>2. QED
      BY <2>2, <2>8, <3>1 DEF Page!Ping, Page!server, Page!page, Current
  <2>9. CASE Page!Break
    BY <2>9 DEF Page!Break, Current, Due
  <2>10. CASE Page!Poll
    BY <2>2, <2>10, RefreshAsks DEF Page!Poll, Current
  <2>11. CASE Page!Receive
    <3>1. CASE Head(wire) = "ping"
      <4>1. Due => Due'
        BY <2>11, <3>1, ReadKeepsDue DEF Page!Receive
      <4>2. QED
        BY <2>2, <2>11, <3>1, <4>1 DEF Page!Receive, Page!server, Current
    <3>2. CASE Head(wire) # "ping"
      BY <2>2, <2>11, <3>2, RefreshAsks DEF Page!Receive, Current
    <3>3. QED
      BY <3>1, <3>2
  <2>12. CASE Page!Answer
    BY <2>2, <2>12 DEF Page!Answer, Page!server, Current
  <2>13. CASE Page!Arrive
    <3>1. CASE queued
      BY <2>2, <2>13, <3>1 DEF Page!Arrive, Page!Over, Page!Connected, Current
    <3>2. CASE Due
      BY <2>2, <2>13, <3>2 DEF Page!Arrive, Page!Connected, Current, Due
    <3>3. CASE ~queued /\ request >= told
      BY <2>2, <2>13, <3>3 DEF Page!Arrive, Page!Over, Page!Connected, Page!server, Current, NoRequest,
                  Page!NoRequest
    <3>4. QED
      BY <2>2, <2>13, <3>1, <3>2, <3>3 DEF Page!Arrive, Current, Page!Asked, NoRequest, Page!NoRequest
  <2>14. CASE Page!Fail
    BY <2>2, <2>14 DEF Page!Fail, Page!AfterFailure, Page!Over, Page!Connected, Current, NoRequest,
                  Page!NoRequest
  <2>15. CASE Page!Teardown
    BY <2>2, <2>15 DEF Page!Teardown
  <2>16. QED
    BY <1>2, <2>3, <2>4, <2>5, <2>6, <2>7, <2>8, <2>9, <2>10, <2>11, <2>12, <2>13, <2>14, <2>15 DEF Page!Next
<1>3. QED
  BY <1>1, <1>2

\* A page without anything under way shows what it was last told of (refresh, broadcast).
THEOREM QuietIsCurrent == ASSUME ChannelSize \in Nat \ {0} PROVE Page!Spec => []QuietMeansCurrent
<1>1. PageInv => QuietMeansCurrent
  <2> SUFFICES ASSUME PageInv, Quiet PROVE shown >= told
    BY DEF QuietMeansCurrent
  <2>1. ~Due
    BY DEF Quiet, Due
  <2>2. QED
    BY <2>1 DEF PageInv, PageTypes, Current, Quiet, NoRequest, Page!NoRequest, Page!Asked
<1>2. QED
  BY PageInit, PageNext, <1>1, PTL DEF Page!Spec

-----------------------------------------------------------------------------
(* The TypeSafe policy *)

Callings ==
    [pc : {"idle"}] \union [pc : {"read", "call"}, force : BOOLEAN, hash : Fingerprints, now : Int]

Running == IF typeSafeRunning THEN 1 ELSE 0

\* Every automatic evaluation since the reset has been counted, or is the one that runs.
BudgetInv ==
    /\ caller \in [Callers -> Callings]
    /\ state \in Fingerprints /\ clock \in Int
    /\ typeSafeCalls \in Nat /\ automatic \in Nat
    /\ automatic <= typeSafeCalls + Running
    /\ AutomaticWithinBudget

LEMMA BudgetInit == ASSUME Budget \in Nat PROVE Policy!Init => BudgetInv
<1> SUFFICES ASSUME Policy!Init PROVE BudgetInv
  OBVIOUS
<1>1. Policy!Idle \in Callings
  BY DEF Policy!Idle, Callings
<1>2. caller \in [Callers -> Callings]
  BY <1>1 DEF Policy!Init
<1>3. /\ state \in Fingerprints /\ clock = 0
      /\ typeSafeCalls = 0 /\ automatic = 0 /\ ~typeSafeRunning
  BY DEF Policy!Init
<1>4. Running = 0
  BY <1>3 DEF Running
<1> QED BY <1>2, <1>3, <1>4 DEF BudgetInv, AutomaticWithinBudget

LEMMA BudgetNext == ASSUME Budget \in Nat PROVE BudgetInv /\ [Policy!Next]_(Policy!vars) => BudgetInv'
<1> SUFFICES ASSUME BudgetInv, [Policy!Next]_(Policy!vars) PROVE BudgetInv'
  OBVIOUS
<1> USE DEF BudgetInv, AutomaticWithinBudget
<1>0. Running \in {0, 1} /\ (typeSafeRunning' = typeSafeRunning => Running' = Running)
  BY DEF Running
<1>1. ASSUME NEW c \in Callers, NEW force \in BOOLEAN, Policy!Begin(c, force) PROVE BudgetInv'
  <2>1. [pc |-> "read", force |-> force, hash |-> state, now |-> clock] \in Callings
    BY DEF Callings
  <2> QED BY <1>0, <1>1, <2>1 DEF Policy!Begin, Policy!policy
<1>2. ASSUME NEW c \in Callers, Policy!Enter(c) PROVE BudgetInv'
  <2> DEFINE before == IF typeSafeDay = Policy!Day(c) THEN automatic ELSE 0
  <2>1. /\ caller[c].pc = "read" /\ caller[c] \in Callings
        /\ typeSafeCalls' = Policy!Calls(c)
        /\ UNCHANGED <<clock, state>>
    BY <1>2 DEF Policy!Enter
  <2>2. Policy!Calls(c) \in Nat /\ before \in Nat /\ before <= Budget
        /\ before <= Policy!Calls(c) + Running
    BY <1>0 DEF Policy!Calls
  <2>3. CASE Policy!Held(c)
    <3>1. caller' = [caller EXCEPT ![c] = Policy!Idle] /\ automatic' = before
          /\ typeSafeRunning' = typeSafeRunning
      BY <1>2, <2>3 DEF Policy!Enter
    <3>2. Policy!Idle \in Callings
      BY DEF Policy!Idle, Callings
    <3> HIDE DEF before
    <3> QED BY <1>0, <2>1, <2>2, <3>1, <3>2
  <2>4. CASE ~Policy!Held(c)
    <3>1. caller' = [caller EXCEPT ![c].pc = "call"] /\ typeSafeRunning' = TRUE
          /\ automatic' = IF caller[c].force THEN before ELSE before + 1
      BY <1>2, <2>4 DEF Policy!Enter
    <3>2. ~typeSafeRunning /\ (~caller[c].force => Policy!Calls(c) < Budget)
      BY <2>2, <2>4 DEF Policy!Held
    <3>6. Running = 0 /\ Running' = 1
      BY <3>1, <3>2 DEF Running
    <3>3. [caller[c] EXCEPT !.pc = "call"] \in Callings
      BY <2>1 DEF Callings
    <3>4. caller' \in [Callers -> Callings]
      BY <3>1, <3>3
    <3> HIDE DEF before
    <3>5. automatic' \in Nat /\ automatic' <= Policy!Calls(c) + 1 /\ automatic' <= Budget
      BY <2>2, <3>1, <3>2, <3>6
    <3> QED BY <2>1, <2>2, <3>1, <3>4, <3>5, <3>6
  <2> QED BY <2>3, <2>4
<1>3. ASSUME NEW c \in Callers, Policy!Finish(c) PROVE BudgetInv'
  <2>1. Policy!Idle \in Callings
    BY DEF Policy!Idle, Callings
  <2>2. /\ caller' = [caller EXCEPT ![c] = Policy!Idle]
        /\ ~typeSafeRunning' /\ typeSafeCalls' = typeSafeCalls + 1
        /\ UNCHANGED <<clock, state, automatic>>
    BY <1>3 DEF Policy!Finish
  <2>3. caller' \in [Callers -> Callings]
    BY <2>1, <2>2
  <2>4. Running \in {0, 1} /\ Running' = 0
    BY <2>2 DEF Running
  <2> QED BY <2>2, <2>3, <2>4
<1>4. CASE Policy!SetKey \/ Policy!DeleteKey \/ Policy!Tick \/ \E f \in Fingerprints : Policy!Change(f)
  BY <1>0, <1>4 DEF Policy!SetKey, Policy!DeleteKey, Policy!Tick, Policy!Change, Policy!policy
<1>5. CASE UNCHANGED Policy!vars
  BY <1>0, <1>5 DEF Policy!vars, Policy!policy
<1> QED BY <1>1, <1>2, <1>3, <1>4, <1>5 DEF Policy!Next

\* Between two resets of the counter no more automatic evaluations begin than the budget
\* allows (maybeTypeSafeEvaluate).
THEOREM BudgetKept == ASSUME Budget \in Nat PROVE Policy!Spec => []AutomaticWithinBudget
<1>1. BudgetInv => AutomaticWithinBudget
  BY DEF BudgetInv
<1> QED BY BudgetInit, BudgetNext, <1>1, PTL DEF Policy!Spec

-----------------------------------------------------------------------------
(* The agents *)

Records == [sequence : Nat, state : States \union {"stale"}, at : Int]
Entries == Events \X Int

OpenRequests ==
    [n : Nat, kind : {"heartbeat"}, id : Sessions, at : Int, session : Records]
      \union [n : Nat, kind : {"event"}, id : Events, at : Int]
      \union [n : Nat, kind : {"observe"}, times : SUBSET Int]

FabricTypes ==
    /\ now \in Int /\ asked \in Nat /\ open \subseteq OpenRequests
    /\ DOMAIN sessions \subseteq Sessions /\ sessions \in [DOMAIN sessions -> Records]
    /\ bridge \in Int /\ best \in [Sessions -> Nat]
    /\ recent \subseteq Entries /\ IsFiniteSet(recent) /\ Cardinality(recent) <= KeepEvents
    /\ accepted \subseteq Entries

FabricInv == FabricTypes /\ LateIsIgnored /\ NewestRetained

LEMMA Larger ==
    ASSUME NEW a \in Int, NEW b \in Int
    PROVE  Fabric!Max({a, b}) = IF a >= b THEN a ELSE b
<1>1. \E x \in {a, b} : \A y \in {a, b} : x >= y
  OBVIOUS
<1>2. Fabric!Max({a, b}) \in {a, b} /\ \A y \in {a, b} : Fabric!Max({a, b}) >= y
  BY <1>1 DEF Fabric!Max
<1> QED BY <1>2

\* AgentFabric counts as this module does.
LEMMA SameCardinality == \A S : Fabric!Cardinality(S) = Cardinality(S)
BY DEF Fabric!Cardinality, Cardinality, Fabric!IsFiniteSet, IsFiniteSet

LEMMA MarkedKeepsSequence ==
    ASSUME NEW session \in Records
    PROVE  Fabric!Marked(session) \in Records /\ Fabric!Marked(session).sequence = session.sequence
BY DEF Fabric!Marked, Records

\* The end of every mutation: sessions may be marked and dropped, and of the events the
\* newest are kept, as many as there is room for.
LEMMA Summarized ==
    ASSUME NEW D, NEW all \in [D -> Records], NEW entries, Fabric!Summarize(all, entries)
    PROVE  /\ DOMAIN sessions' \subseteq D /\ sessions' \in [DOMAIN sessions' -> Records]
           /\ \A id \in DOMAIN sessions' : sessions'[id].sequence = all[id].sequence
           /\ recent' \subseteq entries
           /\ Cardinality(recent') = IF Cardinality(entries) > KeepEvents THEN KeepEvents
                                     ELSE Cardinality(entries)
           /\ \A k \in recent', d \in entries \ recent' : ~(d[2] > k[2])
<1> DEFINE marked == [id \in DOMAIN all |-> Fabric!Marked(all[id])]
<1>1. PICK kept \in SUBSET D : sessions' = [id \in kept |-> marked[id]]
  BY DEF Fabric!Summarize, Fabric!Firsts
<1>2. \A id \in D : marked[id] \in Records /\ marked[id].sequence = all[id].sequence
  BY MarkedKeepsSequence
<1>3. /\ recent' \in SUBSET entries
      /\ Cardinality(recent') = IF Cardinality(entries) > KeepEvents THEN KeepEvents
                                ELSE Cardinality(entries)
      /\ \A k \in recent', d \in entries \ recent' : ~(d[2] > k[2])
  BY SameCardinality DEF Fabric!Summarize, Fabric!Firsts, Fabric!NewerFirst
<1> HIDE DEF marked
<1> QED BY <1>1, <1>2, <1>3

\* Nothing is added: all are kept.
LEMMA AllRetained ==
    ASSUME FabricInv, KeepEvents \in Nat, accepted' = accepted,
           recent' \subseteq recent,
           Cardinality(recent') = IF Cardinality(recent) > KeepEvents THEN KeepEvents
                                  ELSE Cardinality(recent)
    PROVE  recent' = recent
<1>1. IsFiniteSet(recent) /\ Cardinality(recent) <= KeepEvents /\ Cardinality(recent) \in Nat
  BY FS_CardinalityType DEF FabricInv, FabricTypes
<1> QED BY <1>1, FS_Subset

\* An event is added: what is dropped is no newer than what is kept.
LEMMA NewestKept ==
    ASSUME FabricInv, KeepEvents \in Nat, NEW e \in Entries,
           \A old \in recent : old[1] # e[1],
           accepted' = accepted \union {e},
           recent' \subseteq recent \union {e},
           Cardinality(recent') = IF Cardinality(recent \union {e}) > KeepEvents THEN KeepEvents
                                  ELSE Cardinality(recent \union {e}),
           \A k \in recent', d \in (recent \union {e}) \ recent' : ~(d[2] > k[2])
    PROVE  /\ NewestRetained'
           /\ recent' \subseteq Entries /\ IsFiniteSet(recent') /\ Cardinality(recent') <= KeepEvents
<1> DEFINE all == recent \union {e}
<1>1. /\ IsFiniteSet(recent) /\ Cardinality(recent) <= KeepEvents /\ Cardinality(recent) \in Nat
      /\ recent \subseteq Entries /\ accepted' \subseteq Entries
  BY FS_CardinalityType DEF FabricInv, FabricTypes
<1>2. e \notin recent
  OBVIOUS
<1>3. IsFiniteSet(all) /\ Cardinality(all) = Cardinality(recent) + 1
  BY <1>1, <1>2, FS_AddElement
<1>4. IsFiniteSet(recent')
  BY <1>3, FS_Subset
<1>5. Cardinality(recent') <= KeepEvents /\ Cardinality(recent') \in Nat
  BY <1>1, <1>3
<1>6. \A x \in Entries : x[2] \in Int
  BY DEF Entries
<1>7. \A x, y \in recent' : x[1] = y[1] => x = y
  BY DEF FabricInv, NewestRetained
<1>8. ASSUME NEW x \in accepted' \ recent'
      PROVE  Cardinality(recent') = KeepEvents /\ \A y \in recent' : x[2] <= y[2]
  <2>1. CASE x \in all
    <3>1. recent' # all
      BY <1>8, <2>1
    <3>2. Cardinality(recent') # Cardinality(all)
      BY <1>3, <3>1, FS_Subset
    <3>3. Cardinality(recent') = KeepEvents
      BY <3>2
    <3>4. ASSUME NEW y \in recent' PROVE x[2] <= y[2]
      <4>1. ~(x[2] > y[2]) /\ x \in Entries /\ y \in Entries
        BY <1>1, <1>8, <2>1
      <4> QED BY <1>6, <4>1
    <3> QED BY <3>3, <3>4
  <2>2. CASE x \notin all
    <3>1. Cardinality(recent) = KeepEvents /\ \A y \in recent : x[2] <= y[2]
      BY <1>8, <2>2 DEF FabricInv, NewestRetained
    <3>2. Cardinality(recent') = KeepEvents
      BY <1>1, <1>3, <3>1
    <3>3. ASSUME NEW y \in recent' PROVE x[2] <= y[2]
      <4>1. CASE y \in recent
        BY <3>1, <4>1
      <4>2. CASE y = e
        <5>1. recent' # recent
          BY <1>2, <4>2
        <5>2. ~(recent \subseteq recent')
          <6> SUFFICES ASSUME recent \subseteq recent' PROVE FALSE
            OBVIOUS
          <6> QED BY <1>4, <3>1, <3>2, <5>1, FS_Subset
        <5>3. PICK d \in recent : d \notin recent'
          BY <5>2
        <5>4. x[2] <= d[2] /\ ~(d[2] > y[2])
          BY <3>1, <3>3, <5>3
        <5>5. x[2] \in Int /\ d[2] \in Int /\ y[2] \in Int
          BY <1>1, <1>6, <1>8, <4>2, <5>3
        <5> QED BY <5>4, <5>5
      <4> QED BY <3>3, <4>1, <4>2
    <3> QED BY <3>2, <3>3
  <2> QED BY <2>1, <2>2
<1> QED BY <1>1, <1>4, <1>5, <1>7, <1>8 DEF NewestRetained

\* A call of mutateAgents that adds no event and replaces no record by one of another
\* sequence than the best.
LEMMA QuietSummary ==
    ASSUME FabricInv, KeepEvents \in Nat,
           NEW all, DOMAIN all \subseteq Sessions, all \in [DOMAIN all -> Records],
           Fabric!Summarize(all, recent), accepted' = accepted,
           best' \in [Sessions -> Nat], \A id \in DOMAIN all : all[id].sequence = best'[id],
           now' \in Int, asked' \in Nat, open' \subseteq OpenRequests,
           bridge' \in Int, bridge' = observed'
    PROVE  FabricInv'
<1>1. /\ DOMAIN sessions' \subseteq DOMAIN all /\ sessions' \in [DOMAIN sessions' -> Records]
      /\ \A id \in DOMAIN sessions' : sessions'[id].sequence = all[id].sequence
      /\ recent' \subseteq recent
      /\ Cardinality(recent') = IF Cardinality(recent) > KeepEvents THEN KeepEvents
                                ELSE Cardinality(recent)
  BY Summarized
<1>2. recent' = recent
  BY <1>1, AllRetained
<1>3. NewestRetained'
  BY <1>2 DEF FabricInv, NewestRetained
<1>4. LateIsIgnored'
  BY <1>1 DEF LateIsIgnored
<1>5. FabricTypes'
  BY <1>1, <1>2 DEF FabricInv, FabricTypes
<1> QED BY <1>3, <1>4, <1>5 DEF FabricInv

LEMMA FabricInit == ASSUME KeepEvents \in Nat PROVE Fabric!Init => FabricInv
<1> SUFFICES ASSUME Fabric!Init PROVE FabricInv
  OBVIOUS
<1>1. IsFiniteSet(recent) /\ Cardinality(recent) = 0
  BY FS_EmptySet DEF Fabric!Init
<1>2. DOMAIN sessions = {} /\ sessions \in [DOMAIN sessions -> Records]
  BY DEF Fabric!Init
<1>3. best \in [Sessions -> Nat]
  BY DEF Fabric!Init
<1>4. FabricTypes
  BY <1>1, <1>2, <1>3 DEF Fabric!Init, FabricTypes
<1> QED BY <1>2, <1>4 DEF Fabric!Init, FabricInv, LateIsIgnored, NewestRetained

\* Requests come and go, and time passes.
LEMMA FabricWaits ==
    ASSUME FabricInv, UNCHANGED <<sessions, recent, bridge, best, accepted, observed>>,
           now' \in Int, asked' \in Nat, open' \subseteq OpenRequests
    PROVE  FabricInv'
BY DEF FabricInv, FabricTypes, LateIsIgnored, NewestRetained

LEMMA Done ==
    ASSUME FabricInv, NEW req \in open, NEW times \in SUBSET Int, Fabric!Done(req, times)
    PROVE  open' \subseteq OpenRequests
<1>1. req.n \in Nat
  BY DEF FabricInv, FabricTypes, OpenRequests
<1>2. [n |-> req.n, kind |-> "observe", times |-> times] \in OpenRequests
  BY <1>1 DEF OpenRequests
<1> QED BY <1>2 DEF Fabric!Done, FabricInv, FabricTypes

LEMMA FabricAsks ==
    ASSUME FabricInv, NEW req \in OpenRequests, Fabric!Ask(req)
    PROVE  FabricInv'
<1>1. UNCHANGED <<now, sessions, recent, bridge, best, accepted, observed>>
      /\ asked' = asked + 1 /\ open' = open \union {req}
  BY DEF Fabric!Ask
<1> QED BY <1>1, FabricWaits DEF FabricInv, FabricTypes

LEMMA UpsertKeeps ==
    ASSUME FabricInv, KeepEvents \in Nat, NEW req \in open, Fabric!UpsertAgent(req)
    PROVE  FabricInv'
<1> DEFINE id == req.id
           new == req.session
           late == id \in DOMAIN sessions /\ ~Fabric!Supersedes(sessions[id], new)
           all == [i \in DOMAIN sessions \union {id} |-> IF i = id THEN new ELSE sessions[i]]
<1>1. id \in Sessions /\ new \in Records /\ req.at \in Int
  BY DEF Fabric!UpsertAgent, FabricInv, FabricTypes, OpenRequests
<1>2. /\ open' \subseteq OpenRequests
      /\ UNCHANGED <<now, bridge, asked, accepted, observed>>
  BY <1>1, Done DEF Fabric!UpsertAgent
<1>3. now' \in Int /\ asked' \in Nat /\ bridge' \in Int /\ bridge' = observed'
  BY <1>2 DEF FabricInv, FabricTypes, LateIsIgnored
<1>4. CASE late
  BY <1>2, <1>3, <1>4, FabricWaits DEF Fabric!UpsertAgent
<1>5. CASE ~late
  <2>1. /\ Fabric!Summarize(all, recent)
        /\ best' = [best EXCEPT ![id] = IF id \in DOMAIN sessions THEN Fabric!Max({best[id], new.sequence})
                                        ELSE new.sequence]
    BY <1>5 DEF Fabric!UpsertAgent
  <2>2. best \in [Sessions -> Nat] /\ new.sequence \in Nat
        /\ \A i \in DOMAIN sessions : sessions[i].sequence = best[i] /\ sessions[i] \in Records
        /\ DOMAIN sessions \subseteq Sessions
    BY <1>1 DEF FabricInv, FabricTypes, LateIsIgnored, Records
  <2>3. best' \in [Sessions -> Nat] /\ best'[id] = new.sequence
    <3>1. CASE id \in DOMAIN sessions
      <4>1. best[id] = 0 \/ new.sequence > best[id]
        BY <1>5, <2>2, <3>1 DEF Fabric!Supersedes
      <4>2. Fabric!Max({best[id], new.sequence}) = new.sequence
        <5>1. best[id] \in Nat
          BY <1>1, <2>2
        <5> QED BY <2>2, <4>1, <5>1, Larger
      <4> QED BY <1>1, <2>1, <2>2, <3>1, <4>2
    <3>2. CASE id \notin DOMAIN sessions
      BY <1>1, <2>1, <2>2, <3>2
    <3> QED BY <3>1, <3>2
  <2>4. \A i \in Sessions \ {id} : best'[i] = best[i]
    BY <2>1, <2>2
  <2>5. /\ DOMAIN all = DOMAIN sessions \union {id} /\ all[id] = new
        /\ \A i \in DOMAIN sessions \ {id} : all[i] = sessions[i]
    OBVIOUS
  <2>6. DOMAIN all \subseteq Sessions /\ all \in [DOMAIN all -> Records]
    BY <1>1, <2>2
  <2> HIDE DEF all, id, new
  <2>7. \A i \in DOMAIN all : all[i].sequence = best'[i]
    BY <2>2, <2>3, <2>4, <2>5
  <2> QED BY <1>2, <1>3, <2>1, <2>3, <2>6, <2>7, QuietSummary
<1> QED BY <1>4, <1>5

LEMMA AddKeeps ==
    ASSUME FabricInv, KeepEvents \in Nat, MaxTime \in Int,
           NEW req \in open, Fabric!AddAgentEvent(req)
    PROVE  FabricInv'
<1> DEFINE e == <<req.id, Fabric!Time(req)>>
<1>1. e \in Entries
  BY DEF Fabric!AddAgentEvent, Fabric!Time, FabricInv, FabricTypes, OpenRequests, Entries
<1>2. now..MaxTime \in SUBSET Int
  BY DEF FabricInv, FabricTypes
<1>3. open' \subseteq OpenRequests /\ UNCHANGED <<now, bridge, asked, best, observed>>
  BY <1>2, Done DEF Fabric!AddAgentEvent
<1>4. now' \in Int /\ asked' \in Nat
  BY <1>3 DEF FabricInv, FabricTypes
<1>5. CASE \E old \in recent : old[1] = req.id
  BY <1>3, <1>4, <1>5, FabricWaits DEF Fabric!AddAgentEvent
<1>6. CASE ~\E old \in recent : old[1] = req.id
  <2>1. Fabric!Summarize(sessions, recent \union {e}) /\ accepted' = accepted \union {e}
    BY <1>6 DEF Fabric!AddAgentEvent
  <2>2. \A old \in recent : old[1] # e[1]
    BY <1>6
  <2> HIDE DEF e
  <2>3. /\ DOMAIN sessions' \subseteq DOMAIN sessions /\ sessions' \in [DOMAIN sessions' -> Records]
        /\ \A i \in DOMAIN sessions' : sessions'[i].sequence = sessions[i].sequence
        /\ recent' \subseteq recent \union {e}
        /\ Cardinality(recent') = IF Cardinality(recent \union {e}) > KeepEvents THEN KeepEvents
                                  ELSE Cardinality(recent \union {e})
        /\ \A k \in recent', d \in (recent \union {e}) \ recent' : ~(d[2] > k[2])
    BY <2>1, Summarized DEF FabricInv, FabricTypes
  <2>4. /\ NewestRetained'
        /\ recent' \subseteq Entries /\ IsFiniteSet(recent') /\ Cardinality(recent') <= KeepEvents
    BY <1>1, <2>1, <2>2, <2>3, NewestKept
  <2>5. LateIsIgnored'
    BY <1>3, <2>3 DEF FabricInv, LateIsIgnored
  <2>6. FabricTypes'
    BY <1>1, <1>3, <1>4, <2>1, <2>3, <2>4 DEF FabricInv, FabricTypes
  <2> QED BY <2>4, <2>5, <2>6 DEF FabricInv
<1> QED BY <1>5, <1>6

LEMMA ObserveKeeps ==
    ASSUME FabricInv, KeepEvents \in Nat, NEW req \in open, Fabric!UpdateAgentSource(req)
    PROVE  FabricInv'
<1>1. PICK at \in req.times \intersect 1..now :
          /\ IF at < bridge THEN UNCHANGED <<bridge, sessions, recent>>
             ELSE bridge' = at /\ Fabric!Summarize(sessions, recent)
          /\ observed' = Fabric!Max({observed, at})
  BY DEF Fabric!UpdateAgentSource
<1>2. open' = open \ {req} /\ UNCHANGED <<now, asked, best, accepted>>
  BY DEF Fabric!UpdateAgentSource
<1>3. now' \in Int /\ asked' \in Nat /\ open' \subseteq OpenRequests
  BY <1>2 DEF FabricInv, FabricTypes
<1>4. at \in Int /\ bridge \in Int /\ observed = bridge
  BY <1>1 DEF FabricInv, FabricTypes, LateIsIgnored
<1>5. observed' = IF bridge >= at THEN bridge ELSE at
  BY <1>1, <1>4, Larger
<1>6. CASE at < bridge
  <2>1. observed' = observed
    BY <1>4, <1>5, <1>6
  <2> QED BY <1>1, <1>2, <1>3, <1>6, <2>1, FabricWaits
<1>7. CASE ~(at < bridge)
  <2>1. bridge' = at /\ observed' = at /\ Fabric!Summarize(sessions, recent)
    BY <1>1, <1>4, <1>5, <1>7
  <2>2. /\ DOMAIN sessions \subseteq Sessions /\ sessions \in [DOMAIN sessions -> Records]
        /\ best' \in [Sessions -> Nat] /\ \A i \in DOMAIN sessions : sessions[i].sequence = best'[i]
    BY <1>2 DEF FabricInv, FabricTypes, LateIsIgnored
  <2> QED BY <1>2, <1>3, <1>4, <2>1, <2>2, QuietSummary
<1> QED BY <1>6, <1>7

LEMMA FabricNext ==
    ASSUME KeepEvents \in Nat, MaxTime \in Int, MaxSequence \in Int
    PROVE  FabricInv /\ [Fabric!Next]_(Fabric!vars) => FabricInv'
<1> SUFFICES ASSUME FabricInv, [Fabric!Next]_(Fabric!vars) PROVE FabricInv'
  OBVIOUS
<1>0. now \in Int /\ asked \in Nat /\ open \subseteq OpenRequests
  BY DEF FabricInv, FabricTypes
<1>1. ASSUME NEW id \in Sessions, NEW q \in 0..MaxSequence, NEW st \in States, Fabric!Heartbeat(id, q, st)
      PROVE  FabricInv'
  <2> DEFINE session == [sequence |-> q, state |-> st, at |-> now]
             req == [n |-> asked, kind |-> "heartbeat", id |-> id, at |-> now, session |-> session]
  <2>1. session \in Records
    BY <1>0 DEF Records
  <2>2. req \in OpenRequests
    BY <1>0, <2>1 DEF OpenRequests
  <2> QED BY <1>1, <2>2, FabricAsks DEF Fabric!Heartbeat
<1>2. ASSUME NEW id \in Events, NEW t \in 0..MaxTime, Fabric!Event(id, t) PROVE FabricInv'
  <2>1. [n |-> asked, kind |-> "event", id |-> id, at |-> t] \in OpenRequests
    BY <1>0 DEF OpenRequests
  <2> QED BY <1>2, <2>1, FabricAsks DEF Fabric!Event
<1>3. ASSUME NEW r \in open, Fabric!RefuseAgentEvent(r) PROVE FabricInv'
  BY <1>0, <1>3, FabricWaits DEF Fabric!RefuseAgentEvent
<1>4. ASSUME NEW r \in open,
             Fabric!UpsertAgent(r) \/ Fabric!AddAgentEvent(r) \/ Fabric!UpdateAgentSource(r)
      PROVE  FabricInv'
  BY <1>4, UpsertKeeps, AddKeeps, ObserveKeeps
<1>5. CASE Fabric!Tick
  BY <1>0, <1>5, FabricWaits DEF Fabric!Tick
<1>6. CASE UNCHANGED Fabric!vars
  BY <1>0, <1>6, FabricWaits DEF Fabric!vars
<1> QED BY <1>1, <1>2, <1>3, <1>4, <1>5, <1>6 DEF Fabric!Next, Fabric!NoTime

\* However late a request is handled, it overwrites nothing newer: sessions show the best
\* sequence, the bridge the latest observation (upsertAgent, updateAgentSource).
THEOREM LateNeverWins ==
    ASSUME KeepEvents \in Nat, MaxTime \in Int, MaxSequence \in Int
    PROVE  Fabric!Spec => []LateIsIgnored
<1>1. FabricInv => LateIsIgnored
  BY DEF FabricInv
<1> QED BY FabricInit, FabricNext, <1>1, PTL DEF Fabric!Spec

\* The events the desktop retains are the newest of all it ever added, each once
\* (addAgentEvent, summarizeAgentsAt).
THEOREM NewestEventsKept ==
    ASSUME KeepEvents \in Nat, MaxTime \in Int, MaxSequence \in Int
    PROVE  Fabric!Spec => []NewestRetained
<1>1. FabricInv => NewestRetained
  BY DEF FabricInv
<1> QED BY FabricInit, FabricNext, <1>1, PTL DEF Fabric!Spec

=============================================================================
