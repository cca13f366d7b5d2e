----------------------------- MODULE SyncControl -----------------------------
(***************************************************************************)
(* The desktop client's synchronisation with GitHub (runtime.go,           *)
(* api_handlers.go, github_reconcile.go): the background loop and the      *)
(* operator's requests share syncMu and the stored snapshot, and use a     *)
(* token that other requests set and delete meanwhile.                     *)
(*                                                                         *)
(* A snapshot is the set of its repositories.  The variables known and     *)
(* blank are observations.                                                 *)
(***************************************************************************)
EXTENDS Naturals, Inventory

CONSTANTS
    Public,          \* its public repositories
    Requests,        \* the operator's requests for a sync
    MaxSyncs,        \* bound on the syncs
    MaxChanges       \* bound on the changes of token and organisation

VARIABLES
    token,           \* whether the vault has github.token
    exists,          \* the repositories that the organisation has now
    connector,       \* the state of connector "github"
    syncMu,          \* who holds the mutex, or "none"
    sync,            \* where the loop and each request are
    syncs, changes

saved == <<stored, known, blank>>
vars  == <<token, exists, saved, connector, syncMu, sync, syncs, changes>>

Loop    == "background"
Syncers == Requests \union {Loop}
Idle    == [pc |-> "idle"]

-----------------------------------------------------------------------------
\* Nobody waits for the mutex, and nobody minds that it is held.
Locked_Never == FALSE

\* TryLock fails.
Locked == syncMu # "none"

\* The loop reads the token before it tries the mutex.
ReadToken ==
    /\ sync[Loop] = Idle
    /\ sync' = [sync EXCEPT ![Loop] = [pc |-> "token", token |-> token]]
    /\ UNCHANGED <<token, exists, saved, connector, syncMu, syncs, changes>>

Begin(who, withToken) ==
    /\ ~Locked /\ syncs < MaxSyncs
    /\ syncMu' = who /\ syncs' = syncs + 1
    /\ sync' = [sync EXCEPT ![who] = [pc |-> "fetch", token |-> withToken]]
    /\ UNCHANGED <<token, exists, saved, changes>>

BackgroundSync ==
    /\ sync[Loop].pc = "token"
    /\ Begin(Loop, sync[Loop].token)
    /\ connector' = "connecting"

\* The loop skips its turn while another sync runs.
SkipSync ==
    /\ sync[Loop].pc = "token" /\ Locked
    /\ sync' = [sync EXCEPT ![Loop] = Idle]
    /\ UNCHANGED <<token, exists, saved, connector, syncMu, syncs, changes>>

\* A request that finds the mutex held is refused.
OperatorSync(r) ==
    /\ sync[r] = Idle
    /\ Begin(r, token)
    /\ UNCHANGED connector

\* Private repositories are listed only for a token, and any part is missing when requests
\* fail; that the second listing failed leaves no error.
Fetch(who, repos, errors) ==
    /\ sync[who].pc = "fetch"
    /\ repos \subseteq (IF sync[who].token THEN exists ELSE exists \ Private)
    /\ ~errors => exists \ Private \subseteq repos
    /\ sync' = [sync EXCEPT ![who] = [pc |-> "merge", token |-> sync[who].token,
                                      repos |-> repos, errors |-> errors]]
    /\ UNCHANGED <<token, exists, saved, connector, syncMu, syncs, changes>>

\* mergePublicSnapshot, called without a token and with a list.
Merged(s) ==
    IF s.token \/ s.repos = {} THEN s.repos ELSE s.repos \union (stored \intersect Private)

Merge(who) ==
    /\ sync[who].pc = "merge"
    /\ sync' = [sync EXCEPT ![who] = [pc |-> "save", token |-> sync[who].token,
                                      repos |-> Merged(sync[who]), errors |-> sync[who].errors]]
    /\ UNCHANGED <<token, exists, saved, connector, syncMu, syncs, changes>>

\* The loop keeps the former snapshot for an empty list, a request only for an error too.
Saves(who) == sync[who].repos # {} \/ (who # Loop /\ ~sync[who].errors)

After(who) ==
    IF who # Loop THEN connector
    ELSE IF sync[who].repos # {} THEN "live"
    ELSE IF sync[who].errors THEN "degraded" ELSE connector

\* The snapshot is saved and the mutex released.
Finish(who) ==
    /\ sync[who].pc = "save"
    /\ IF ~Saves(who) THEN UNCHANGED saved
       ELSE /\ stored' = sync[who].repos
            /\ known' = IF sync[who].token THEN stored' \intersect Private ELSE known
            /\ blank' = (~sync[who].token /\ (blank \/ stored' = {}))
    /\ connector' = After(who)
    /\ syncMu' = "none"
    /\ sync' = [sync EXCEPT ![who] = Idle]
    /\ UNCHANGED <<token, exists, syncs, changes>>

Change ==
    /\ changes < MaxChanges /\ changes' = changes + 1
    /\ UNCHANGED <<saved, connector, syncMu, sync, syncs>>

SetToken        == ~token /\ token' = TRUE /\ UNCHANGED exists /\ Change
DeleteToken     == token /\ token' = FALSE /\ UNCHANGED exists /\ Change
Organise(repos) == exists' = repos /\ UNCHANGED token /\ Change

Init ==
    /\ token \in BOOLEAN
    /\ exists \in SUBSET (Public \union Private)
    /\ stored = Public \union Private /\ known = Private /\ blank = FALSE
    /\ connector = "disconnected" /\ syncMu = "none"
    /\ sync = [who \in Syncers |-> Idle]
    /\ syncs = 0 /\ changes = 0

Next ==
    \/ ReadToken \/ BackgroundSync \/ SkipSync
    \/ \E r \in Requests : OperatorSync(r)
    \/ \E who \in Syncers :
           \/ \E repos \in SUBSET (Public \union Private), errors \in BOOLEAN :
                  Fetch(who, repos, errors)
           \/ Merge(who) \/ Finish(who)
    \/ SetToken \/ DeleteToken
    \/ \E repos \in SUBSET (Public \union Private) : Organise(repos)

Spec == Init /\ [][Next]_vars

=============================================================================
