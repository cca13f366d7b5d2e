------------------------ MODULE ObservationPipeline ------------------------
(***************************************************************************)
(* Ingestion in the Node control plane: IngestionPipeline.ingest, the      *)
(* EventStore it appends to (memory first, then a write-ahead log), the    *)
(* StateProjector it applies each stored observation to, and the cursor of *)
(* a "While You Were Away" reader (/api/wywa).                             *)
(*                                                                         *)
(* One call of ingest runs without interruption up to its first await, and *)
(* everything that changes state comes before it: an ingestion is one      *)
(* step.  A kill of the process can fall inside the append to the log.     *)
(*                                                                         *)
(* An observation is a record of what the code tells apart: id, integrity  *)
(* digest, time of occurrence, the repository that is its subject (NoRepo  *)
(* for another subject), the commit it names (NoSha for none), and whether *)
(* it has a provenance at all, which validation does not require.  A block *)
(* hash is the sequence of observations hashed into it.  Agents, graph     *)
(* nodes and edges of the projector are folds of the projected sequence    *)
(* and are left out, as are statistics and the intelligence verdict.       *)
(***************************************************************************)
EXTENDS Integers, Sequences, FiniteSets, Subsequences

CONSTANTS
    Observations,    \* envelopes that clients and seed-data.json send
    Seeds,           \* seedData.events, in order
    Repos,           \* repository names
    Baseline,        \* the repositories of initCanonicalBaseline
    NoRepo,          \* the subject is not a repository
    DefaultSha, ZeroSha, SyncedShas, NoSha,
    Torn,            \* a log line that does not parse
    NoTail,          \* the log ends with a newline
    NoCursor,        \* the reader has read nothing yet
    ChainWindow,     \* blocks kept of the hash chain (50)
    ReadWindow,      \* events returned to a reader without a cursor (50)
    MaxCrashes, MaxFaults

Shas == {DefaultSha, ZeroSha} \union SyncedShas \union ({o.sha : o \in Observations} \ {NoSha})

ASSUME PipelineAssumption ==
    /\ \A o \in Observations :
           /\ DOMAIN o = {"id", "digest", "at", "repo", "sha", "provenance"}
           /\ o.at \in Nat
           /\ o.repo \in Repos \union {NoRepo}
           /\ o.provenance \in BOOLEAN
    /\ Seeds \in Seq(Observations)
    /\ Baseline \subseteq Repos /\ NoRepo \notin Repos
    /\ {Torn, NoTail} \intersect Observations = {} /\ Torn # NoTail
    /\ NoSha \notin {DefaultSha, ZeroSha} \union SyncedShas
    /\ NoCursor \notin {o.id : o \in Observations}
    /\ ChainWindow \in Nat \ {0} /\ ReadWindow \in Nat
    /\ MaxCrashes \in Nat /\ MaxFaults \in Nat

VARIABLES
    pc,              \* "down", "seeding" (module load), "up"
    seeded,          \* seeds ingested by this module load
    wal,             \* complete lines of events.jsonl
    tail,            \* what follows its last newline
    events, seenIds, seenDigests,       \* EventStore
    lastHash, chain, heads,             \* StateProjector
    verified, stale, \* verifications (repository and exact HEAD) by status
    reader,          \* the reader: cursor, what it has seen, cursor lost?
    acked,           \* history: observations whose ingestion reported success
    projected,       \* history: observations that were ever projected in full
    crashes, faults

log == <<wal, tail>>
memory == <<events, seenIds, seenDigests>>
projection == <<lastHash, chain, heads, verified, stale>>
history == <<acked, projected>>
vars == <<pc, seeded, log, memory, projection, reader, history, crashes, faults>>

-----------------------------------------------------------------------------
(* EventStore                                                               *)

Lines == Observations \union {Torn}

\* initFromDisk splits the log at newlines, the unterminated tail included,
\* and skips the lines that do not parse.
Readable == Select(IF tail = NoTail THEN wal ELSE Append(wal, tail), Observations)

\* Mutant: the digest is not looked at.
Duplicate_ById(o) == o.id \in seenIds

Duplicate(o) == o.id \in seenIds \/ o.digest \in seenDigests

\* Mutant: the newest event is put first.
Remember_NewestFirst(o) ==
    /\ events' = <<o>> \o events
    /\ seenIds' = seenIds \union {o.id}
    /\ seenDigests' = seenDigests \union {o.digest}

\* Memory is updated before the file is written.
Remember(o) ==
    /\ events' = Append(events, o)
    /\ seenIds' = seenIds \union {o.id}
    /\ seenDigests' = seenDigests \union {o.digest}

\* appendFileSync writes the line and its newline behind whatever is there.
AppendLine(o) ==
    /\ wal' = Append(wal, IF tail = NoTail THEN o ELSE Torn)
    /\ tail' = NoTail

\* It stops early: nothing, a part, or all but the newline has been written.
AppendPartly(o) ==
    /\ tail' \in {tail, Torn} \union (IF tail = NoTail THEN {o} ELSE {})
    /\ UNCHANGED wal

\* Mutant: the slice after the cursor begins one event too late.
EventsSince_SkipsOne(id, at) ==
    LET found == {i \in DOMAIN events : events[i].id = id}
        from == Len(events) - ReadWindow + 1
    IN  IF found # {} THEN SubSeq(events, 2 + CHOOSE i \in found : TRUE, Len(events))
        ELSE IF id # NoCursor THEN Select(events, {o \in Observations : o.at > at})
        ELSE SubSeq(events, IF from < 1 THEN 1 ELSE from, Len(events))

EventsSince(id, at) ==
    LET found == {i \in DOMAIN events : events[i].id = id}
        from == Len(events) - ReadWindow + 1
    IN  IF found # {} THEN SubSeq(events, 1 + CHOOSE i \in found : TRUE, Len(events))
        ELSE IF id # NoCursor THEN Select(events, {o \in Observations : o.at > at})
        ELSE SubSeq(events, IF from < 1 THEN 1 ELSE from, Len(events))

-----------------------------------------------------------------------------
(* StateProjector                                                           *)

\* Mutant: the last hash is advanced before the block is made.
Block_HashFirst(o) ==
    LET new == Append(lastHash, o)
    IN  [obs |-> o, prev |-> new, hash |-> new, height |-> Len(chain) + 1]

Block(o) ==
    [obs |-> o, prev |-> lastHash, hash |-> Append(lastHash, o), height |-> Len(chain) + 1]

PushBlock(o) ==
    LET longer == Append(chain, Block(o))
    IN  /\ chain' = IF Len(longer) > ChainWindow THEN Tail(longer) ELSE longer
        /\ lastHash' = Append(lastHash, o)

\* The head a repository has when the observation reaches it: a repository that
\* is not registered is created with the zero sha.
HeadOf(r) == IF heads[r] = NoSha THEN ZeroSha ELSE heads[r]

\* Verifications bound to the head that is left become stale.
MoveHead(r, sha) ==
    /\ heads' = [heads EXCEPT ![r] = sha]
    /\ verified' = verified \ {<<r, HeadOf(r)>>}
    /\ stale' = stale \union (verified \intersect {<<r, HeadOf(r)>>})

\* applyObservation.  Without a provenance it throws after the block has been
\* pushed and the repository created.
Project(o) ==
    /\ PushBlock(o)
    /\ IF o.repo \in Repos /\ o.provenance /\ o.sha \notin {NoSha, HeadOf(o.repo)}
       THEN MoveHead(o.repo, o.sha)
       ELSE /\ heads' = IF o.repo \in Repos THEN [heads EXCEPT ![o.repo] = HeadOf(o.repo)]
                                            ELSE heads
            /\ UNCHANGED <<verified, stale>>

Throws(o) == o.repo \in Repos /\ ~o.provenance

-----------------------------------------------------------------------------
(* IngestionPipeline.ingest, from the resolved envelope on                  *)

\* Mutant: the projection comes before the deduplication.
Deduplicated_Projects(o) ==
    /\ Duplicate(o)
    /\ acked' = acked \union {o}
    /\ Project(o)
    /\ UNCHANGED <<log, memory, projected, faults>>

\* success: true, status DEDUPLICATED.
Deduplicated(o) ==
    /\ Duplicate(o)
    /\ acked' = acked \union {o}
    /\ UNCHANGED <<log, memory, projection, projected, faults>>

Accepted(o) ==
    /\ ~Duplicate(o)
    /\ Remember(o)
    /\ AppendLine(o)
    /\ Project(o)
    /\ IF Throws(o) THEN UNCHANGED history
       ELSE acked' = acked \union {o} /\ projected' = projected \union {o}
    /\ UNCHANGED faults

\* The append to the file throws: INTERNAL_ERROR, and nothing is projected.
AppendFails(o) ==
    /\ ~Duplicate(o)
    /\ faults < MaxFaults
    /\ faults' = faults + 1
    /\ Remember(o)
    /\ AppendPartly(o)
    /\ UNCHANGED <<projection, history>>

Ingest(o) == Deduplicated(o) \/ Accepted(o) \/ AppendFails(o)

Deliver(o) ==
    /\ pc = "up"
    /\ Ingest(o)
    /\ UNCHANGED <<pc, seeded, reader, crashes>>

\* The seed loop does not await, so it runs while the module loads, before the
\* first request.
IngestSeed ==
    /\ pc = "seeding"
    /\ Ingest(Seeds[seeded + 1])
    /\ seeded' = seeded + 1
    /\ pc' = IF seeded + 1 = Len(Seeds) THEN "up" ELSE "seeding"
    /\ UNCHANGED <<reader, crashes>>

-----------------------------------------------------------------------------
(* The process                                                              *)

BaselineHeads == [r \in Repos |-> IF r \in Baseline THEN DefaultSha ELSE NoSha]

Init ==
    /\ pc = "down" /\ seeded = 0
    /\ wal = <<>> /\ tail = NoTail
    /\ events = <<>> /\ seenIds = {} /\ seenDigests = {}
    /\ lastHash = <<>> /\ chain = <<>> /\ heads = BaselineHeads
    /\ verified = {} /\ stale = {}
    /\ reader = [id |-> NoCursor, at |-> 0, seen |-> {}, lost |-> FALSE]
    /\ acked = {} /\ projected = {}
    /\ crashes = 0 /\ faults = 0

\* The log is read into memory; the projector starts from its baseline.
Start ==
    /\ pc = "down"
    /\ events' = Readable
    /\ seenIds' = {o.id : o \in ToSet(Readable)}
    /\ seenDigests' = {o.digest : o \in ToSet(Readable)}
    /\ pc' = IF Readable = <<>> /\ Seeds # <<>> THEN "seeding" ELSE "up"
    /\ seeded' = 0
    /\ reader' = [reader EXCEPT !.lost = @ \/ (reader.id # NoCursor /\ reader.id \notin seenIds')]
    /\ UNCHANGED <<log, projection, history, crashes, faults>>

Die ==
    /\ crashes < MaxCrashes
    /\ crashes' = crashes + 1
    /\ pc' = "down" /\ seeded' = 0
    /\ events' = <<>> /\ seenIds' = {} /\ seenDigests' = {}
    /\ lastHash' = <<>> /\ chain' = <<>> /\ heads' = BaselineHeads
    /\ verified' = {} /\ stale' = {}
    /\ UNCHANGED <<reader, history, faults>>

Crash == pc # "down" /\ Die /\ UNCHANGED log

\* A kill inside appendFileSync; the client gets no answer.
CrashInAppend(o) ==
    /\ \/ pc = "up"
       \/ pc = "seeding" /\ o = Seeds[seeded + 1]
    /\ ~Duplicate(o)
    /\ AppendPartly(o) \/ AppendLine(o)
    /\ Die

-----------------------------------------------------------------------------
(* Around it                                                                *)

\* syncLiveOrg answers, with whatever head the repository had when it was asked or
\* with none; updateRepositories takes it over.
SyncRepository(r, sha) ==
    /\ pc = "up"
    /\ heads' = [heads EXCEPT ![r] = sha]
    /\ UNCHANGED <<pc, seeded, log, memory, lastHash, chain, verified, stale, reader, history,
                   crashes, faults>>

\* A Sentinel run records a verification of the head the projector shows.
Verify(r) ==
    /\ pc = "up"
    /\ heads[r] \notin {NoSha, ZeroSha}
    /\ verified' = verified \union {<<r, heads[r]>>}
    /\ stale' = stale \ {<<r, heads[r]>>}
    /\ UNCHANGED <<pc, seeded, log, memory, lastHash, chain, heads, reader, history, crashes, faults>>

\* GET /api/wywa: a briefing counts the events since the reader's cursor, and the
\* newest of them (the head of /api/events) is the cursor of the next one.
Poll ==
    /\ pc = "up"
    /\ LET new == EventsSince(reader.id, reader.at)
       IN  /\ new # <<>>
           /\ reader' = [id |-> Last(new).id, at |-> Last(new).at,
                         seen |-> reader.seen \union ToSet(new),
                         lost |-> reader.lost]
    /\ UNCHANGED <<pc, seeded, log, memory, projection, history, crashes, faults>>

Next ==
    \/ \E o \in Observations : Deliver(o) \/ CrashInAppend(o)
    \/ IngestSeed
    \/ Start
    \/ Crash
    \/ \E r \in Repos : Verify(r) \/ \E sha \in SyncedShas \union {DefaultSha} : SyncRepository(r, sha)
    \/ Poll

Spec == Init /\ [][Next]_vars

-----------------------------------------------------------------------------
(* Properties                                                               *)

\* Types of the store, the projection and the history; the hash chain never holds
\* more blocks than its window, and the seed loop has a seed left.
TypeOK ==
    /\ pc \in {"down", "seeding", "up"}
    /\ seeded \in 0..Len(Seeds) /\ (pc = "seeding" => seeded < Len(Seeds))
    /\ wal \in Seq(Lines) /\ tail \in Lines \union {NoTail}
    /\ events \in Seq(Observations)
    /\ seenIds \subseteq {o.id : o \in Observations}
    /\ seenDigests \subseteq {o.digest : o \in Observations}
    /\ lastHash \in Seq(Observations)
    /\ Len(chain) <= ChainWindow
    /\ heads \in [Repos -> Shas \union {NoSha}]
    /\ verified \subseteq Repos \X Shas /\ stale \subseteq Repos \X Shas
    /\ reader.seen \subseteq Observations
    /\ acked \subseteq Observations /\ projected \subseteq Observations
    /\ crashes \in 0..MaxCrashes /\ faults \in 0..MaxFaults

\* Deduplication survives restarts, torn lines and failed appends: no two events
\* the store serves have the same id or the same digest.
NoDuplicates ==
    \A i, j \in DOMAIN events :
        i # j => events[i].id # events[j].id /\ events[i].digest # events[j].digest

\* What a restart would read back is what the process serves, in the same order,
\* with nothing added: a kill can only take events away.
MemoryFollowsLog ==
    pc # "down" => Readable = Select(events, ToSet(Readable))

\* A process projects an observation at most once and in the order of its log.
ProjectedInOrder == lastHash = Select(events, ToSet(lastHash))

\* The window of the hash chain is linked block to block up to the last hash.
ChainLinked ==
    /\ chain # <<>> => Last(chain).hash = lastHash
    /\ \A i \in 1..Len(chain) - 1 : chain[i + 1].prev = chain[i].hash
    /\ \A i \in DOMAIN chain : chain[i].hash = Append(chain[i].prev, chain[i].obs)

\* A reader whose cursor survived every restart has missed no event between the
\* first and the last one it was given.
ReaderMissesNothing ==
    ~reader.lost =>
        \A i \in DOMAIN events : \A j \in i..Len(events) :
            events[i] \in reader.seen /\ events[j].id = reader.id =>
                \A k \in i..j : events[k] \in reader.seen

\* An observation whose ingestion reported success is in the log.
AckedIsLogged == acked \subseteq ToSet(Readable)

\* An observation whose ingestion reported success has been projected, itself or the one
\* that it repeats: a duplicate by id or by digest needs no projection of its own.
AckedIsProjected ==
    \A o \in acked : \E p \in projected : p.id = o.id \/ p.digest = o.digest

\* A verification is VERIFIED only while the head of its repository is the commit
\* it verified.
VerifiedAtHead == \A v \in verified : heads[v[1]] = v[2]
=============================================================================
