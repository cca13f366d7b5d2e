# Aftergraph War Room: specifications

TLA+ models of the War Room's two programs and their two front ends, the TLC
configurations that check them on small instances, and theorems about them that
TLAPS checks for every value of the constants. `PROJECT.json` maps every
definition to the source lines it stands for and lists the hazards, the runs, the
mutants, the theorems and the findings.

- Parse a module: `tlasany StateStore.tla`
- Check a run: `tlc -workers 2 -config MCStoreAndFeed.cfg MCStoreAndFeed`
- Check the proofs: `tlapm StateStoreProofs.tla`, and so for each `...Proofs` module

## 1. The system

Two programs share a purpose and no code.

**The desktop operator client** (`desktop/`, Go) serves a local web UI. It keeps
its state as JSON files in one directory, pulls GitHub, WORKS and TypeSafe in the
background, takes reports of agents on a local bridge, and is replaced by a
separate updater.

**The Node control plane** (`apps/api/src/server.js` and what it requires) takes
observations over HTTP, deduplicates and logs them, projects them into read
models, hands out tickets, resolves decisions, evaluates autonomy, and streams
events to the **operator cockpit** (`app.js`, `algorithms.js` in the browser).

| Component | State it keeps | Operations | Interacts with | Correct means |
|---|---|---|---|---|
| Desktop state store, `store.go` | six state files with `.bak` and `.tmp`, one journal; the same states in memory | recover, load, `writeJSON` behind the save functions | every handler and loop of the client; the operating system, which may kill it anywhere | an acknowledged version is what the next start loads; nothing older comes back; readers never see what a kill would take away |
| Desktop GitHub sync, `runtime.go`, `api_handlers.go`, `github_*.go` | `syncMu`, snapshot, connectors, token in the vault | background loop, operator's sync, token set and deleted, merge of a public snapshot | store, vault, GitHub | private inventory follows the last credentialed sync |
| Agent fabric, `agents.go`, `agents_api.go` | sessions, events, sources | heartbeat, event, source observation | store, agents | nothing newer is overwritten by something late, also at full caps |
| TypeSafe policy, `typesafe_*.go` | running flag, day, counter, last decision | `maybeTypeSafeEvaluate`, key set and deleted | several goroutines, the provider | the daily budget |
| Updater, `internal/updater/` | installed, staged and previous executables, archives | `Apply`, rollback | health check of the new program | never without an executable to go back to |
| Desktop stream and page, `app.go`, `web/app.js` | subscribers' channels, request in flight | broadcast, stream handler, refresh, boot, teardown | every change of the store | the page comes to show the store |
| Lifecycle, `app.go`, `runtime.go`, `state_lock_*.go` | lock on the directory, `bgWG` | start, shutdown | owns the store | only the owner writes |
| Observation pipeline, `pipeline.js`, `store.js`, `projector.js` | events and seen ids, `events.jsonl`, repositories, verifications, hash chain | `ingest`, `append`, `initFromDisk`, `getEventsSince`, `applyObservation`, `updateRepositories` | HTTP clients, seeds, organisation sync | no duplicates; memory, log, chain and readers agree; an acknowledgement means logged and projected |
| Organisation sync, `integrations/github` | token, contract | `syncLiveOrg`, reality diff | GitHub, projector | heads go forward; drift is shown exactly |
| Command plane, `server.js`, `security/`, `packages/ontology`, node bridge | tickets, decisions, jobs, open streams | request and verify tickets, dispatch, resolve, broadcast | operators, agents, cockpit | an answer given stays true; one ticket per act |
| EGAC, `packages/egac` | calibration counters | `decide`, `recordCalibration` | server | autonomy rests on evidence |
| Node intelligence, `services/intelligence` | intents, time windows | collision radar, anomaly window, risk score | ingestion, agents, cockpit | of two that collide one is warned; verdicts count what happened |
| Operator cockpit, `app.js`, `algorithms.js` | panels, countdown, timers, terminal, capsule; feed and hash chain | polling, commands, time machine, reports on a feed | the API | every panel comes to show the server's state |

What is hard: file replacement that may be killed between any two of nine
file-system steps and whose recovery may be killed too; requests that overtake
each other (heartbeats, syncs, loads of a panel); state read before a lock or an
await and used after it; caps that evict the memory that ordering depends on;
steps of an update that fail one by one; events that a full channel or a broken
stream loses; estimates that replace declared values at a threshold.
`hazards` in `PROJECT.json` lists 40 of these line by line; 35 have a property,
and each of the other five says why it has none.

## 2. Modules

| Module | Models | Checked in | Proofs |
|---|---|---|---|
| `DurableRegister` | abstract: one atomic, crash-safe register per state file | `store` (refinement) | refinement, in `StateStoreProofs` |
| `StateStore` | `desktop/store.go`, one action per file-system step | `store`, `store_kill` | `StateStoreProofs` |
| `ObservationPipeline` | ingestion, event store, projector and reader | `server`, `pipeline_torn`, `pipeline_retry`, `pipeline_head` | `ObservationPipelineProofs` |
| `CommandRecords`, `ControlPlane` | tickets, decisions, jobs, collision radar, realtime hub | `server`, `radar_ids` | `ControlPlaneProofs` |
| `WilsonInterval`, `EvidenceDecisions`, `EvidenceGate` | EGAC: calibration and decisions | `parts`, `egac_fail`, `egac_zero` | `ServerProofs` |
| `FeedReports`, `HashChain`, `ActivityFeed` | reports of `algorithms.js` on a feed and a list of pull requests, and the hash chain over a feed | `store` | `ServerProofs` |
| `AgentVerdicts`, `FleetActivity` | agent records, anomaly window and risk score | `parts` | `ServerProofs` |
| `OrgSync` | `syncLiveOrg`, its projection and the reality diff | `parts` | `OrgSyncProofs` |
| `Inventory`, `SyncControl` | the desktop's GitHub sync | `parts`, `sync_blank` | `DesktopProofs` |
| `AgentRecords`, `AgentFabric` | the desktop's agent projection | `parts` | `DesktopProofs` |
| `EvaluationBudget`, `TypeSafePolicy` | when the desktop asks the provider | `parts` | `DesktopProofs` |
| `Executables`, `Updater` | `Apply` | `parts` | `DesktopProofs` |
| `PageAndStream`, `DesktopStream` | broadcast, stream handler and page | `parts` | `DesktopProofs` |
| `OperatorConsole` | the cockpit's panels as a client of the API | `cockpit` | |
| `PlayTimers`, `Timeline` | the cockpit's time machine | `cockpit` | `CockpitProofs` |
| `TerminalAndCapsule`, `CockpitDesk` | terminal, drawer and capsule | `cockpit` | `CockpitProofs` |
| `Subsequences` | `filter` on a sequence, with a set for the test | wherever used | `SequenceLemmas` |

`MCStateStore`, `MCObservationPipeline` and `MCEvidenceGate` (with `MCTiers`) give one
module its constants. `MCStoreAndFeed`, `MCServer`, `MCParts` and `MCCockpit` give several
modules theirs and check them in one run: the variable `part` chooses in the initial state which
module moves, and the others stay as they are. The modules of one run share no
variable (where two use one name, `INSTANCE ... WITH` renames), so a behaviour of
the run is a behaviour of one module and nothing is lost by not interleaving them.

Where a component is checked in a combined run, what it promises is in a small
module of its own, named first in the table: the variables and constants that the
promises speak of, the operators that they are made of, and the properties. The
component extends it with its actions; the combined run and the proofs extend it
too and instantiate the component. So run and proof speak of one definition.
Liveness properties stay with their component, and a combined run names the one of
the same meaning in its instance.

### StateStore

`primary`, `backup`, `tmp` are the three files of each state and `journal` the
shared journal: absent, torn, or naming the state file being replaced (recovery
validates the journal's phase and ignores it, so it is not kept). A file's
contents are a kind (absent, corrupt, valid), the envelope's generation and the
number of the write that made it. `pc` is the place in `writeJSON` or in
`newStore`; one place is enough because writes run under `Store.mu` and
`persistMu`. `mem` is what getters return.

`BeginWrite` to `Publish` follow `writeJSON` line by line; each failing call is an
action ending in `Fails` with the code's error path; calls whose error the code
ignores (removing the backup, undoing a rename, clearing the journal) may fail
and go on. `Start` to `Load` are `newStore`. `Crash` can fall anywhere.

History variables: `floor` is the newest version acknowledged or shown per file;
`degraded` the files without a sound primary (a quarantined journal with the
primary moved aside, a failed undo, damage); `exposed` those of them whose
backup a new write has removed. The theorems say that only `exposed` files can
lose a version, which is the weakest exception the code allows: the run
`store_kill` shows that it happens.

The crash model is a kill of the process: what was renamed or written is kept by
the operating system. Loss of unsynced pages in a power failure is not modelled;
`writeJSON` syncs the temporary file but not the directory. `Damage` stands for a
medium that damages a primary between writes; the promise then falls back to
the backup.

`DurableRegister` has `stored`, `shown` and `up` per register, a version jump per
`Commit`, `Publish`, `Restart`, and `Lose` only for registers `atRisk`. `StateStore`
maps `stored` to what a start would load now, `shown` to `mem`, `atRisk` to
`degraded`; `ImplementsRegister` is checked by TLC and proved.

### ObservationPipeline

`ingest` is one step: JavaScript runs it without interruption to its first
`await`, and every state change comes before that. Its outcomes are
`Deduplicated`, `Accepted` (memory, log line, projection; `Throws` when the
envelope has no provenance) and `AppendFails`. A kill inside the append
(`CrashInAppend`) leaves nothing, a part of a line, or the line without its
newline. `Start` reads the log back, skipping what does not parse; the
projector starts from its baseline since the server does not replay the log
into it; `IngestSeed` is the seed loop, which runs before the first request.
`SyncRepository` is an answer of the organisation sync, `Verify` a recorded
verification, `Poll` a briefing for a reader with a cursor.

An observation is id, digest, time, repository, commit and whether it has a
provenance. A block hash is the sequence hashed so far, so equal hashes mean
equal histories.

### ControlPlane, CommandRecords

A handler runs in one turn of the event loop once its body has arrived
(`executeCommand` is async and never awaits), so a request is a step of `Serve`;
requests of several actors interleave and any number of them fall in one
millisecond of `clock`. `RequestTicket`, `VerifyTicket`, `StopJob`, `Quarantine`,
`AuthorizeOnly`, `ResolveDecision`, `RegisterIntent`, `LookAtRadar`, `Connect`,
`Close` are the handlers. `Broadcast` is part of those that call it: any set of
clients may be gone and is dropped while the rest is served. `Enter` is `Map.set`
by id, `Purged` what `getActiveIntents` does on every look. `Risk` is the weighted
score of `evaluateCollisions` in hundredths.

An intent keeps the id that its declaration brings; without one (`NoId`) it gets its
agent and the millisecond. A ticket keeps actor and capability; for a decision the
capability is the posted word in lower case, while only `APPROVE` and `REJECT` as
written decide: every other word, `reject` among them, is an execution. `stopped`
remembers who stopped a job and with which ticket. The collections that the promises
speak of are in `CommandRecords`; `ControlPlane` adds the jobs and the intents.

### EvidenceGate, EvidenceDecisions, WilsonInterval

`RecordCalibration` and `CollectEvidence` change the counters and the evidence
chain that comes with a decision; `Decide`, in `EvidenceDecisions`, is `decide`.
Rates are percentages and odds ten-thousandths, rounded down; a factor of
1e10 (a failure of a tier that is declared never to fail wrongly) is counted apart.
The bound on false completions is two things, as in the code: `Product`, an exact
fraction, of which `ProvablyZero` says whether it is zero, and `FCRBound`, the same
rounded to `BoundScale` steps (eight decimals in the code), which is reported and
decided on. So a gate of five human approvals, 0.02^5, has a reported bound of zero
and is not proved zero.
`WilsonLow` is the lower 95 % bound in whole percent: the greatest rate up to which
every rate is rejected by the score test, a comparison of integers instead of a
square root. It is a table that depends on nothing but its size, so TLC computes it
once.

### ActivityFeed, FeedReports, HashChain, FleetActivity

`ActivityFeed`: events arrive and pull requests are listed in any order, the feed is
sealed into a chain, and the stored chain is edited: `Edited` sets an event, an index,
a predecessor or a hash, removes or exchanges blocks or appends one. SHA-256 takes no
key, so a hash may become any that the editor can compute (`Computable`), the one that
makes an altered block verify included. `HashChain` is what seals and verifies.

`FeedReports` are the reports on the feed. They are arrays, as in the code: `Grouped` is
an object filled by key, its entries in the order in which the keys first appear, and
the actors of a collision are in the order of the feed. Substring tests are classes of
events; a push has several commits; a hash is its preimage. What a report must contain
is said by sets and counts in `AnomaliesExact` and `CollisionsExact`, which share only
the keys with the definitions that they judge. `HighRiskIsReviewed` is about a task that
carries the score of `evaluateRisk`; without one `activeLearningTriage` assumes 30
(`algorithms.js:137`).

`FleetActivity`: an observation that the store accepted is projected and judged
in one turn; registration replaces a record, the window stays. `AgentVerdicts`
holds the last verdict on each agent and what is promised of it.

### OrgSync

A sync asks `gh` first, which blocks, and then https, which does not: it is one
step from one https answer to the next, and `sync[s]` says which answer it waits
for (`listing`, `asking`, `answered`). `declared` is read when GitHub answers and
arrives later. Lists and commits may be missing (`Listed` with the seeds,
`got` any subset). `Push`, `Reconcile` and `ObservePush` are the world around it.
`RealityDiff` is `computeRealityDiff` over `contract` and `view`. `alone` and `exact`
only observe.

### SyncControl

`Begin` is `TryLock`; the loop reads the token before it (`ReadToken`), a request
after. `Fetch` returns any part of the listing that the token and the errors
allow, `Merge` is `mergePublicSnapshot`, `Finish` decides as each caller does
whether to save, sets the connector and releases the mutex. `SetToken`,
`DeleteToken` and `Organise` come in between. `known` and `blank`, in `Inventory`,
only observe.

### AgentFabric

A request is taken in (`Heartbeat`, `Event`, with the time at which its handler
read the clock) and its store mutations follow in any order with those of other
requests: `UpsertAgent`, `AddAgentEvent`, `RefuseAgentEvent`, then
`UpdateAgentSource`. Each mutation ends in `Summarize`: stale marks, sort, and the
cut at the caps; where the sort leaves two alike, either may go.

### TypeSafePolicy, Updater

`Begin`, `Enter`, `Finish` are `maybeTypeSafeEvaluate` before, under and after the
lock and the call; the time is read in `Begin`. `Updater` is `Apply` from the
staging on: each step works or fails (`Fault`), `Kill` falls before any of them and
`Start` runs it again. `restore` removes and moves back in two steps, and its
error is dropped after a failed swap as in the code.

### DesktopStream

The store is a version number. `Change`, then `Broadcast` into a channel that
drops when full; `Subscribe`, `Ready`, `Update`, `Ping` are the stream's handler;
`Break` loses what is on its way. `Refresh` is the page's function of that name
with `request` (in flight) and `queued`; `Poll` is the interval of 30 seconds, and
`Arrive` and `Fail` the end of a request with its `finally`.

### OperatorConsole, Timeline, CockpitDesk

`OperatorConsole`: a summary that arrives starts the loads of the panels; nothing
orders their answers, so `flight[p]` is a sequence of which any element may arrive
or fail. `Second` is the countdown, `Resolve`, `SyncLiveOrg` and
`DispatchQuarantine` the commands with the badge and the button they leave.
`syncs` are the sync requests without an answer. Nothing obliges one to end: the
cockpit's `fetch` has no timeout, and the server's request to GitHub has one without a
handler. `Blank` is the page as `index.html` has it, with a clean radar.
`Timeline`: `running` are the interval timers of the browser, `handle` the one that
the page remembers. `CockpitDesk`: `lines`, `output` are what is on the screen,
`logs`, `capsule`, `mode` the state it is drawn from.

## 3. Runs

| Run | Module | Bounds | Shows |
|---|---|---|---|
| `store` | `MCStoreAndFeed` | 2 files, 3 new writes, 3 kills, 2 failing calls, 1 damage; 6 events and 4 pull requests, of which 5 are listed, with repeated events; chains over 3 events with room for 2 blocks, 2 edits; limits of 2 | six properties of `StateStore`, its refinement of `DurableRegister` among them; three of `FeedReports`, one of `HashChain` |
| `store_kill` | `MCStateStore` | 2 files, 3 new writes, 2 kills, nothing else | finding 1 |
| `server` | `MCServer` | 4 envelopes, 2 seeds, 2 kills, 1 failing append, windows of 2; 2 operators, 4 declarations of 2 agents, 2 of them with one id, 2 browsers, 4 requests, 3 ms | five properties of `ObservationPipeline`, five of `ControlPlane` |
| `pipeline_torn` | `MCObservationPipeline` | 2 kills, no failing append | finding 2 |
| `pipeline_retry` | `MCObservationPipeline` | 1 failing append, no kill | finding 3 |
| `pipeline_head` | `MCObservationPipeline` | neither | finding 4 |
| `radar_ids` | `MCServer` | 2 declarations with one id | finding 7 |
| `parts` | `MCParts` | see below | two properties of `OrgSync`, one of `SyncControl`, two of `AgentFabric`, one of `TypeSafePolicy`, two of `Updater`, two of `DesktopStream`, two of `AgentVerdicts`, three of `EvidenceDecisions` |
| `egac_fail` | `MCEvidenceGate` | 12 outcomes of each tier | finding 5 |
| `egac_zero` | `MCEvidenceGate` | the same | finding 8 |
| `cockpit` | `MCCockpit` | 2 panels, 2 loads of each in flight, loads of the summary and syncs together 2, 1 change, 1 failure, countdown of 2; slider of 7 positions, 3 plays, 2 moves; 2 lines beyond the seeds with room for 1 | two liveness properties of `OperatorConsole`, one invariant and one liveness property of `Timeline`, one invariant of `CockpitDesk` |
| `sync_blank` | `SyncControl` | 1 request, 3 syncs, 2 changes | finding 6 |

`parts`: two repositories, two overlapping syncs, heads up to 2; three desktop syncs
and two changes; two sessions and two events with caps of one, sequences up to
2, three requests, two at a time, three instants; two callers, budget and interval
of 1, two days, three calls; two runs of the updater with two failures; a
channel and a wire of one, three changes, one failure, one break; two agents, four
observations, a window of 1 in four instants; two tiers, eleven outcomes of each, chains
of two, the plane of the least prior, gates of two and one more, 1000 steps of the bound.

The four runs that pass have 837,032 states (`store`), 3,199,327 (`server`), 570,951
(`parts`) and 238,628 (`cockpit`), and take three minutes at most each.

### Why the bounds are enough

- *store*: two files are what it takes for one file's journal to meet another's
  recovery; three new writes per behaviour (write 1 is what an earlier run left)
  make a generation be reused after a failed write and then be superseded; two
  kills tear a recovery, the third repeats it; two failures reach a failed rename
  with a failed undo.
- *server, pipeline*: the four envelopes are the cases `append` and `applyObservation` tell
  apart: a plain one, a later one with an earlier time, a second id with a digest
  already seen, one that throws; windows of two are exceeded by three accepted
  envelopes, and two kills make a torn line be followed by a good one and read
  twice.
- *server, command plane*: a second resolution by the other operator, with a ticket in between,
  takes three requests; two tickets in one millisecond, one expiring and one
  living, take two; a collision takes two declarations, a displaced one three.
- *parts, evidence*: eleven outcomes cross the threshold of ten and move the calibrated bound
  once; that every later one moves it the right way is proved. With 1000 steps a
  product of three rates is rounded.
- *store, feed*: two edits alter an event and compute its hash anew, or try to hide one edit by
  another; two blocks have one that builds on the other. Limits of the reports are
  lowered to two, so that a feed of five holds two groups that reach them with an event
  of another kind in between. Reports and chain do not read each other, so the lists stay
  once there is a chain, and it is generated while no pull request is listed.
- *parts*: caps and channels of one are full after one entry; two syncs overlap
  in every way two can; two days make the counter be reset with a caller in
  between; two runs are a rerun.
- *cockpit*: two loads of one panel are what it takes for an old answer to
  overtake a new one; three plays, the last while a former timer could still run.

*Symmetry* is used for state files, operators and browsers, in runs without
liveness properties.

*Deadlock* is not checked in the runs that pass: the bounds (writes, requests, changes,
edits) make behaviours end.

### Fairness

Safety properties need none. The liveness properties assume no more than this:

- `OperatorConsole`: the countdown ticks (`setInterval`), and of the requests in
  flight that the server answers from its memory the oldest of each kind is answered
  some time. Nothing is assumed of a sync. For the summary this is
  strong fairness, because its arrival is held up in the model while a panel has
  no room for another load, which only the bound `MaxInFlight` does.
- `Timeline`: the browser fires each interval timer that runs.
- `DesktopStream`: the page's interval fires, the server answers, the answer
  arrives. Nothing is assumed of events: the channel may drop and the stream break,
  and the page must catch up by the timer alone.

Failures and changes are bounded, so the properties say: once they stop. The
browser's timers are not throttled for good, and a handler that reads the server's
memory answers. A sync waits for GitHub, and no timeout ends it (hazard at
`adapter.js:149`): `SyncButtonReleased` therefore says that the button stays dimmed for
good only if from some time on there is always a sync without an answer.

### Properties

- `StateStore`: `Durable`, `NoResurrection`, `GenerationsOrderVersions` (why comparing
  generations, which failed writes reuse, still picks the newer version),
  `RecoveryKeepsVersions` (recovery can be killed and repeated),
  `PublishedIsDurable`, `ImplementsRegister`.
- `ObservationPipeline`: `NoDuplicates`, `MemoryFollowsLog` (a restart only takes
  events away and never reorders), `ProjectedInOrder`, `ChainLinked`,
  `ReaderMissesNothing` (no event between two that a reader was given is skipped,
  as long as its cursor survived restarts).
- `CommandRecords`: `AnswersHold` (a resolver's answer stays in the inbox),
  `TicketPerAct` (no ticket serves two acts, and each was issued to who asked, for what
  was done), `LiveTicketsKept`, `NotBothApproved` (of two agents with overlapping live
  intents the later was warned, unless one with the earlier one's id had displaced
  it; without the exception it is `OverlapIsWarned`, finding 7), `StreamsComplete`.
- `EvidenceDecisions`: `ZeroBoundIsDeclared` (a gate proves
  zero exactly while it names a tier declared infallible and not calibrated; without
  the condition it is `TierTwoProvesZero`, finding 8), `AutonomyRestsOnAPass`,
  `OutcomesMoveSensitivity`.
- `HashChain`: `TamperEvident` (a hash kept of the generated chain vouches for the blocks
  up to it; without one an edited chain may verify). `FeedReports`: `AnomaliesExact`,
  `CollisionsExact`, `HighRiskIsReviewed`.
- `AgentVerdicts`: `WindowExact`, `AlarmMeansCritical`.
- `OrgSync`: `VerifiedHeadsForward`, `UndisturbedSyncIsExact`.
- `Inventory`: `PrivateInventoryKept`. `AgentRecords`: `LateIsIgnored`,
  `NewestRetained`. `EvaluationBudget`: `AutomaticWithinBudget`.
- `Executables`: `OldExecutableKept`, `FaultUndone`.
- `PageAndStream`: `QuietMeansCurrent`. `DesktopStream`: `PageCatchesUp` (liveness).
- `OperatorConsole`: `EventuallyCurrent` (run as `PanelsCatchUp`) and
  `SyncButtonReleased`, both liveness. `PlayTimers`: `TimelineOwned`. `Timeline`:
  `PlayingStops` (liveness). `TerminalAndCapsule`: `ScreensFollowState`.

Every property has a mutant: a definition named `X_...` beside the `X` that it
replaces, a plausible mistake in that function, under which the property fails.

## 4. What is proved

Every invariant and every action property of the passing runs but two,
`AnomaliesExact` and `CollisionsExact`, and the refinement of `DurableRegister`. Each
proof goes by an inductive invariant, one step per action; `PTL` joins initial state,
step and conclusion. The hypotheses are the assumptions on the constants that the
modules state by name, and where a theorem says `ASSUME`, that a bound is a number.

**`StateStoreProofs`**, for every set of state files and all bounds, from
`StoreAssumption` (the markers are distinct, no file has a marker's name, the
bounds are naturals): `TypeCorrect`, `Durability`, `NothingResurrected`,
`GenerationsOrdered`, the action properties `RecoveryDecidesNothing` and
`PublicationIsDurable`, and `Implementation`: every step is a step of
`DurableRegister` or a stutter. None of them is inductive. `IInv` adds what holds
in between: `WriterInv` (until the rename the temporary file is newer, in number
and generation, than both files beside it; the journal names the file whenever
the primary may be moved), `RestoreInv`, `CopiesInv` (of two readable copies the
primary is newer) and `SoundInv`: a file not degraded has its newest version in
the primary, or was never written, or is in the gap between the two renames
while the journal, or the running writer, will put the backup back. The gap
clause is the heart of it: it fails exactly when a torn journal is quarantined,
which is why `Quarantine` adds to `degraded`.

**`ObservationPipelineProofs`**, from `PipelineAssumption`: `TypeCorrect`, and

- `ChainIntegrity`: `LinkedAppend` and `LinkedTail` say what a push and a shift keep;
  every other action leaves the chain or empties it.
- `DuplicatesNeverServed` and `LogReadsBackAsMemory`, from `StoreInv`. Neither is
  inductive: what a start reads back has no duplicates only because what was written
  had none, and what is written is new only because the seen sets are those of the
  events. So `StoreInv` adds `Known` (the sets are those of the events) and, for a
  process that is down, that `Readable` itself has no duplicates. `LogMoves` says what
  an append, a torn append and a start may do to `Readable`: nothing, one line more,
  or the torn last line gone.
- `ProjectionFollowsStore`: the projected observations are among the events, too.
- `ReaderGetsEverything`, from `ReaderInv`: while the process is down the same must
  hold of the log, because the next start makes it the events; and a cursor that was
  not lost is in the seen set, so it is found again.

**`ControlPlaneProofs`**, from `ControlPlaneAssumption`, in four invariants, one per
collection: `BrokerInv` (ids are at most the number of tickets issued, so a new one
is new; gives `TicketsLive`), `InboxInv` (whatever was answered is what the inbox
holds, and every act names a ticket issued before with its actor and capability; gives
`AnswersStand` and `OneTicketPerAct`), `RadarInv` (a declaration that is live and not
displaced by one with its id is entered, so the later of two finds the earlier; gives
`OneIsWarned`), `HubInv` (a
client's events are a suffix of the log; gives `StreamsWhole`). `TypeCorrect` beside
them.

**`OrgSyncProofs`**, from `OrgSyncAssumption`: `HeadsForward`, `SyncExact` and
`TypeCorrect`, from one invariant: a verified head is not ahead of its repository,
an undisturbed sync carries what the file still declares, and an exact sync left
contract and heads as they are.

**`DesktopProofs`**, five components of the desktop client:

- `InventoryKept`, assuming that no request is called `"none"`, the mark of the free
  mutex. Whoever is past `TryLock` holds the mutex, so the snapshot a sync without a
  token has merged with is still the stored one when it saves.
- `OldKept` and `OneFaultUndone`, for any number of runs and failures; `FirstRun` says
  where the executables are at each step of a first run.
- `QuietIsCurrent`, for any channel that holds an event: an event that will make the
  page ask is on its way, or the page has asked or remembers to, or it shows what it
  was told of.
- `BudgetKept`: every automatic evaluation since the reset has been counted or is the
  one that runs, and a new one begins only while none runs and the count is below
  the budget. The counter may be reset while one runs, which only helps.
- `LateNeverWins` and `NewestEventsKept` are inductive with the types, of which one is
  needed: the retained events are finite and within the cap. An eviction takes one of
  the oldest, so everything ever evicted stays no newer than what is retained.

**`CockpitProofs`**: `TimersOwned`, for any slider and number of plays, and
`DeskShowsState`. There the invariant is that `logs` are the newest of what was
accepted and that the screen is their selection; that a shift of a full list and an
append make the newest of one more is `NewestKept`.

**`ServerProofs`**, what the server decides beside its command plane:

- `WindowsExact`: times are pruned only when an agent acts, so the invariant speaks of
  every instant from the current minute on: the times kept since then are as many as
  the observations since then. `WarningsAgree`: no sum of the weights lies between the
  two limits (`NoScoreBetween`).
- `HighRiskReviewed`, for every feed: no score that is HIGH lies below the limit.
- `TamperingShows`: whatever is edited, the blocks stay blocks with some hash
  (`EditedType`). In a chain that verifies each hash names its position, its event and
  the hash before it (`VerifiedHash`); so where one is that of a generated block, the
  hashes and events before it are the generated ones too, by induction on the position
  (`HashVouches`, `SameBeginning`). That no two contents have one hash is the model of
  SHA-256.
- `SensitivityFollowsOutcomes`, an action property, for any number of outcomes: a rate
  that the score test rejects is rejected after one more detection (`ApartDetected`),
  and one rejected after one more miss was rejected before (`ApartMissed`), two
  inequalities of integers; so the ends of the intervals move as they should.
- `ZeroIsDeclared`: the interval's end is below 100 %, so the miss rate of a calibrated
  tier is positive, and a product is zero exactly if one of its factors is
  (`ProductZero`). `EvidenceNeverHurts`, which no run checks: a factor of at
  most one lowers the product (`ProductAppend`), and rounding keeps the order
  (`RoundedMonotone`).
- `AutonomyIsEarned`: along a chain without a pass and without a tier worse than its
  false alarms the odds stay at those of the plane or above, whatever is rounded
  (`OddsStay`), and these lie above twice alpha (`PriorIsAbove`). The last step needs
  every prior to be at least `2 * Alpha + 1` percent, an assumption that the table of
  priors satisfies with 14 against 11.
- `FailuresCountAgainst`, which no run checks: beside finding 5, a failure never lowers
  the odds of a defect while its tier detects at least as often as it raises a false
  alarm.

**`SequenceLemmas`** holds what several of them need. The library's induction theorems
take an operator, which no installed prover can instantiate; here induction is over
sets (`NatSetInduction`, `SeqSetInduction`: a set that contains the first and with each
one the next contains all), from the well-foundedness of the naturals. From it come
the facts about `Select` and that a function given by a start and a step exists and is
unique (`RecursionExists`, `RecursionUnique`), which is what makes the folds of
`HashChain` and `EvidenceDecisions` tractable.

The type invariants of `StateStore`, `ControlPlane` and `OrgSync` are proved and so
not checked again in runs; those of the other modules are conjuncts of their
invariants.

The proofs changed the models in four places. The `CASE` expressions for the risk
levels and for the triage's confidence had guards that overlap, so that TLC took the
first and the definition did not say so: they are `IF` now. A union without parentheses in
`Edited` could be read in two ways. The Wilson table searched for the bound up to and
including 100 %, where the inequality holds for another reason; it takes the rates
below the observed one. `SelectSeq` became `Select`, about which facts can be proved.

*Only model-checked:* liveness (`PanelsCatchUp`, `SyncButtonReleased`, `PlayingStops`,
`PageCatchesUp`), which is beyond the prover, and `OperatorConsole` has no other property;
`AnomaliesExact` and `CollisionsExact`, which say what folds compute for every sequence.

## 5. Findings

Eight, each the counterexample of a run; `PROJECT.json` quotes the lines.

1. `desktop/store.go:374` removes the backup although, after a quarantined journal,
   it is the only copy of the state; a second kill loses it (`store_kill`).
2. `store.js:92` appends behind a torn line and loses the acknowledged event
   (`pipeline_torn`).
3. `store.js:86` remembers before writing and projecting; retries are acknowledged
   as duplicates (`pipeline_retry`).
4. `projector.js:146` replaces a head without invalidating verifications
   (`pipeline_head`).
5. `packages/egac/src/index.js:186`: once a tier's calibrated sensitivity is below
   its rate of false alarms, a failed judgment lowers the odds of a defect
   (`egac_fail`).
6. `desktop/api_handlers.go:108`: an operator's sync without a token that lists
   nothing replaces the stored inventory, private repositories included
   (`sync_blank`).
7. `services/intelligence/src/index.js:122`: an intent may bring its id, and one that
   brings the id of another agent's replaces it; both agents are told `APPROVED`
   (`radar_ids`).
8. `packages/egac/src/index.js:140`: from the tenth outcome on, all of them detections
   even, a gate of tier 2 alone has a positive bound on false completions, which the
   documentation and a test give as zero without a condition (`egac_zero`). In the
   other direction, rounding to eight decimals (`index.js:270`) reports zero for five
   human approvals, with `isProvableZero` false.

Beside these, seen in `StateStore` and checked by no run: `recoverPersistenceJournal`
returns at `desktop/store.go:283` when there is no journal, so the temporary file of a
write that was killed before its journal stays until the same file is written again,
while `desktop/docs/STABILIZATION-v1.6.3.md:28` says "Orphaned temporary files are
removed." No load reads it.

## 6. Not modelled

- **Lifecycle and instance lock**: the lock is the operating system's and shutdown a
  sequence of library calls. That a handler outlives five seconds of shutdown while
  a second instance starts is a hazard for which nothing is promised.
- **WORKS stream loop, settings handlers**: how long a connection lives is the other
  side's choice, and a lost settings write is plain from the code.
- **Desktop intelligence and assistant**, model calls and wording: no state shared
  between actors beyond a learned file.
- **Adapters' formatting, the Telegram adapter, the registry of adapters,
  contracts and schema validation**: pure conversion, or no subscriber. That
  validation admits an envelope without a provenance is an input of
  `ObservationPipeline`.
- **Secrets, diagnostics, build scripts, seed data**: input and output.
- **Canvases, palette, sounds, theme**: layout. **Weibull survival, SSI and other
  statistics** of `algorithms.js`: floating point that no decision depends on.

Within modelled components:

- `StateStore`: migrations and contents of the states, the metric cap, the
  `.corrupt` and `.stale` copies, test-only `injectFault`, failures of ignored
  removals of the temporary file (the next write truncates it anyway).
- `ObservationPipeline`: the projector's graph and attention queue (folds of the same
  sequence), clock-skew clamping, `replayUntil` (a filter), `saveSnapshot` (no
  caller). Agents and verdicts are in `FleetActivity`, the broadcast in
  `ControlPlane`.
- `AgentFabric`: the state `unknown`. It ranks like `blocked`, while the comparison
  goes by time only between equal states, so with both the comparator is no order
  and what the sort returns depends on its implementation.
- `TypeSafePolicy`: a restart, which resets the day's counter; settings that switch
  evaluation off.
- `EvidenceGate`: floating point beyond the rounding named above; `classifyPlane`,
  rationale texts and statistics that no decision uses.
- `SyncControl`: searches, workflows, rate limits and probes; of the connectors only
  the loop's.
- `Updater`: verification of manifest and artifact, the copy of the state
  directory, the restore tool.
- `ControlPlane`: credential bindings, daemon commands other than `job.stop`, trust
  passports and briefing, which the server fills with constants and the time.
- `OperatorConsole`: what the realtime stream prints; it reloads nothing.

## 7. Plan

What would come next, in this order:

1. **Lifecycle** over two instances with `StateStore` as an INSTANCE, if the project
   decides what late handlers may do.
2. **WORKS loop and settings** beside `AgentFabric`: a disabled source is left in the
   end, once the stream has a timeout to rely on.
3. An abstract projection that `ObservationPipeline` implements while no start
   intervenes, with the seen sets those of the events.
4. The types of `OperatorConsole`, whose liveness stays with TLC.
