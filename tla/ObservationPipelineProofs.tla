---------------------- MODULE ObservationPipelineProofs ----------------------
(***************************************************************************)
(* Proofs about ObservationPipeline, for any observations, repositories    *)
(* and bounds: the hash chain of the projector; the types; the store and   *)
(* the log it is read back from; the projection; the reader.               *)
(***************************************************************************)
EXTENDS ObservationPipeline, SequenceLemmas

-----------------------------------------------------------------------------
(* The hash chain *)

Blocks == [obs : Observations, prev : Seq(Observations),
           hash : Seq(Observations), height : Nat]

\* What the chain needs of its variables' types.
ChainType ==
    /\ lastHash \in Seq(Observations)
    /\ chain \in Seq(Blocks)
    /\ seeded \in Nat
    /\ pc = "seeding" => seeded < Len(Seeds)

ChainInv == ChainType /\ ChainLinked

\* A block's hash is made from the previous hash and its observation.
Hashed(b) == b.hash = Append(b.prev, b.obs)

\* A sequence of blocks is linked and ends in the hash h.
Linked(c, h) ==
    /\ c # <<>> => c[Len(c)].hash = h
    /\ \A i \in 1..Len(c) - 1 : c[i + 1].prev = c[i].hash
    /\ \A i \in 1..Len(c) : Hashed(c[i])

LEMMA ChainLinkedIsLinked ==
    ASSUME chain \in Seq(Blocks)
    PROVE  ChainLinked <=> Linked(chain, lastHash)
  BY DEF ChainLinked, Linked, Hashed, Last

\* A block made from the last hash links behind the chain.
LEMMA LinkedAppend ==
    ASSUME NEW c \in Seq(Blocks), NEW h, Linked(c, h),
           NEW b \in Blocks, b.prev = h, Hashed(b)
    PROVE  /\ Append(c, b) \in Seq(Blocks) /\ Len(Append(c, b)) = Len(c) + 1
           /\ Linked(Append(c, b), b.hash)
<1> DEFINE d == Append(c, b)
<1>1. /\ d \in Seq(Blocks) /\ Len(d) = Len(c) + 1
      /\ d[Len(c) + 1] = b
      /\ \A i \in 1..Len(c) : d[i] = c[i]
  BY AppendProperties
<1>2. Len(c) \in Nat
  OBVIOUS
<1> HIDE DEF d
<1>3. d # <<>> => d[Len(d)].hash = b.hash
  BY <1>1
<1>4. \A i \in 1..Len(d) - 1 : d[i + 1].prev = d[i].hash
  <2> TAKE i \in 1..Len(d) - 1
  <2>1. CASE i = Len(c)
    BY <1>1, <1>2, <2>1 DEF Linked
  <2>2. CASE i # Len(c)
    BY <1>1, <1>2, <2>2 DEF Linked
  <2>3. QED
    BY <2>1, <2>2
<1>5. \A i \in 1..Len(d) : Hashed(d[i])
  <2> TAKE i \in 1..Len(d)
  <2>1. CASE i = Len(c) + 1
    BY <1>1, <2>1
  <2>2. CASE i # Len(c) + 1
    <3>1. i \in 1..Len(c) /\ d[i] = c[i]
      BY <1>1, <1>2, <2>2
    <3>2. QED
      BY <3>1 DEF Linked
  <2>3. QED
    BY <2>1, <2>2
<1>6. QED
  BY <1>1, <1>3, <1>4, <1>5 DEF Linked, d

\* Shifting out the oldest block keeps the rest linked.
LEMMA LinkedTail ==
    ASSUME NEW c \in Seq(Blocks), NEW h, Linked(c, h), Len(c) > 1
    PROVE  Tail(c) \in Seq(Blocks) /\ Linked(Tail(c), h)
<1> DEFINE d == Tail(c)
<1>1. /\ d \in Seq(Blocks) /\ Len(d) = Len(c) - 1
      /\ \A i \in 1..Len(d) : d[i] = c[i + 1]
  BY HeadTailProperties
<1>2. Len(c) \in Nat
  OBVIOUS
<1> HIDE DEF d
<1>3. d # <<>> => d[Len(d)].hash = h
  BY <1>1, <1>2 DEF Linked
<1>4. \A i \in 1..Len(d) - 1 : d[i + 1].prev = d[i].hash
  BY <1>1, <1>2 DEF Linked
<1>5. \A i \in 1..Len(d) : Hashed(d[i])
  <2> TAKE i \in 1..Len(d)
  <2>1. i + 1 \in 1..Len(c) /\ d[i] = c[i + 1]
    BY <1>1, <1>2
  <2>2. QED
    BY <2>1 DEF Linked
<1>6. QED
  BY <1>1, <1>3, <1>4, <1>5 DEF Linked, d

LEMMA PushBlockKeeps ==
    ASSUME lastHash \in Seq(Observations), chain \in Seq(Blocks), ChainLinked,
           NEW o \in Observations, PushBlock(o)
    PROVE  lastHash' \in Seq(Observations) /\ chain' \in Seq(Blocks) /\ ChainLinked'
<1> DEFINE longer == Append(chain, Block(o))
<1>1. /\ Block(o) \in Blocks
      /\ Block(o).prev = lastHash
      /\ Hashed(Block(o))
      /\ Block(o).hash = Append(lastHash, o)
  BY DEF Block, Blocks, Hashed
<1>2. /\ longer \in Seq(Blocks) /\ Len(longer) = Len(chain) + 1
      /\ Linked(longer, Append(lastHash, o))
  BY <1>1, ChainLinkedIsLinked, LinkedAppend
<1>3. /\ lastHash' = Append(lastHash, o)
      /\ chain' = IF Len(longer) > ChainWindow THEN Tail(longer) ELSE longer
  BY DEF PushBlock
<1>4. lastHash' \in Seq(Observations)
  BY <1>3
<1> HIDE DEF longer
<1>5. chain' \in Seq(Blocks) /\ Linked(chain', lastHash')
  <2>1. CASE Len(longer) > ChainWindow
    <3>1. Len(longer) > 1
      BY <1>2, <2>1, PipelineAssumption
    <3>2. QED
      BY <1>2, <1>3, <2>1, <3>1, LinkedTail
  <2>2. CASE ~(Len(longer) > ChainWindow)
    BY <1>2, <1>3, <2>2
  <2>3. QED
    BY <2>1, <2>2
<1>6. ChainLinked'
  BY <1>5 DEF ChainLinked, Linked, Hashed, Last
<1>7. QED
  BY <1>4, <1>5, <1>6

LEMMA IngestKeeps ==
    ASSUME ChainInv, NEW o \in Observations, Ingest(o)
    PROVE  lastHash' \in Seq(Observations) /\ chain' \in Seq(Blocks) /\ ChainLinked'
<1>1. CASE Deduplicated(o) \/ AppendFails(o)
  <2>1. UNCHANGED <<lastHash, chain>>
    BY <1>1 DEF Deduplicated, AppendFails, projection
  <2>2. QED
    BY <2>1 DEF ChainInv, ChainType, ChainLinked
<1>2. CASE Accepted(o)
  BY <1>2, PushBlockKeeps DEF Accepted, Project, ChainInv, ChainType
<1>3. QED
  BY <1>1, <1>2 DEF Ingest

LEMMA EmptyChain ==
    ASSUME lastHash = <<>>, chain = <<>>
    PROVE  lastHash \in Seq(Observations) /\ chain \in Seq(Blocks) /\ ChainLinked
  BY DEF ChainLinked

LEMMA ChainInit == Init => ChainInv
  BY EmptyChain DEF Init, ChainInv, ChainType

LEMMA ChainStep == ChainInv /\ [Next]_vars => ChainInv'
<1> SUFFICES ASSUME ChainInv, [Next]_vars PROVE ChainInv'
  OBVIOUS
<1>1. ASSUME NEW o \in Observations, Deliver(o) PROVE ChainInv'
  BY <1>1, IngestKeeps DEF Deliver, ChainInv, ChainType
<1>2. CASE IngestSeed
  <2>1. Seeds[seeded + 1] \in Observations
    BY <1>2, PipelineAssumption DEF IngestSeed, ChainInv, ChainType
  <2>2. lastHash' \in Seq(Observations) /\ chain' \in Seq(Blocks) /\ ChainLinked'
    BY <1>2, <2>1, IngestKeeps DEF IngestSeed
  <2>3. seeded' \in Nat /\ (pc' = "seeding" => seeded' < Len(Seeds))
    BY <1>2, PipelineAssumption DEF IngestSeed, ChainInv, ChainType
  <2>4. QED
    BY <2>2, <2>3 DEF ChainInv, ChainType
<1>3. CASE Start
  <2>1. UNCHANGED <<lastHash, chain>>
    BY <1>3 DEF Start, projection
  <2>2. seeded' = 0 /\ (pc' = "seeding" => Seeds # <<>>)
    BY <1>3 DEF Start
  <2>3. Seeds # <<>> => 0 < Len(Seeds)
    BY PipelineAssumption
  <2>4. QED
    BY <2>1, <2>2, <2>3 DEF ChainInv, ChainType, ChainLinked
<1>4. ASSUME Die PROVE ChainInv'
  <2>1. lastHash' = <<>> /\ chain' = <<>> /\ pc' = "down" /\ seeded' = 0
    BY <1>4 DEF Die
  <2>2. QED
    BY <2>1 DEF ChainInv, ChainType, ChainLinked
<1>5. CASE Crash
  BY <1>4, <1>5 DEF Crash
<1>6. ASSUME NEW o \in Observations, CrashInAppend(o) PROVE ChainInv'
  BY <1>4, <1>6 DEF CrashInAppend
<1>7. ASSUME NEW r \in Repos, NEW sha, Verify(r) \/ SyncRepository(r, sha) PROVE ChainInv'
  BY <1>7 DEF Verify, SyncRepository, ChainInv, ChainType, ChainLinked
<1>8. CASE Poll
  BY <1>8 DEF Poll, projection, ChainInv, ChainType, ChainLinked
<1>9. CASE UNCHANGED vars
  BY <1>9 DEF vars, projection, ChainInv, ChainType, ChainLinked
<1>10. QED
  BY <1>1, <1>2, <1>3, <1>5, <1>6, <1>7, <1>8, <1>9 DEF Next

\* The blocks the projector keeps are linked to each other and to its last hash
\* (StateProjector.applyObservation), whatever is ingested, fails or is killed.
THEOREM ChainIntegrity == Spec => []ChainLinked
<1>1. ChainInv => ChainLinked
  BY DEF ChainInv
<1>2. QED
  BY ChainInit, ChainStep, <1>1, PTL DEF Spec

-----------------------------------------------------------------------------
(* Types *)

Ids == {o.id : o \in Observations}

Readers == [id : Ids \union {NoCursor}, at : Nat, seen : SUBSET Observations, lost : BOOLEAN]

TypeInv == ChainInv /\ TypeOK /\ reader \in Readers

\* The projection's part of the types, which an observation may change.
ProjectionTyped ==
    /\ Len(chain) <= ChainWindow
    /\ heads \in [Repos -> Shas \union {NoSha}]
    /\ verified \subseteq Repos \X Shas /\ stale \subseteq Repos \X Shas

LEMMA ProjectTyped ==
    ASSUME TypeInv, NEW o \in Observations, Project(o)
    PROVE  ProjectionTyped'
<1>1. Len(chain') <= ChainWindow
  <2> DEFINE longer == Append(chain, Block(o))
  <2>1. Block(o) \in Blocks /\ chain \in Seq(Blocks)
    BY DEF TypeInv, ChainInv, ChainType, Block, Blocks
  <2>2. Len(longer) = Len(chain) + 1 /\ longer \in Seq(Blocks) /\ Len(chain) \in Nat
    BY <2>1
  <2>0. longer # <<>>
    BY <2>2
  <2>3. Len(Tail(longer)) = Len(longer) - 1
    BY <2>0, <2>2
  <2>4. chain' = IF Len(longer) > ChainWindow THEN Tail(longer) ELSE longer
    BY DEF Project, PushBlock
  <2>5. Len(chain) <= ChainWindow /\ Len(chain) \in Nat /\ ChainWindow \in Nat
    BY <2>1, PipelineAssumption DEF TypeInv, TypeOK
  <2> HIDE DEF longer
  <2> QED BY <2>2, <2>3, <2>4, <2>5
<1>2. heads \in [Repos -> Shas \union {NoSha}]
  BY DEF TypeInv, TypeOK
<1>3. ASSUME o.repo \in Repos PROVE HeadOf(o.repo) \in Shas
  BY <1>2, <1>3 DEF HeadOf, Shas
<1>4. CASE o.repo \in Repos /\ o.provenance /\ o.sha \notin {NoSha, HeadOf(o.repo)}
  <2>1. o.sha \in Shas
    BY <1>4 DEF Shas
  <2>2. MoveHead(o.repo, o.sha)
    BY <1>4 DEF Project
  <2>3. heads' \in [Repos -> Shas \union {NoSha}]
    BY <1>2, <2>1, <2>2 DEF MoveHead
  <2>4. verified' \subseteq Repos \X Shas /\ stale' \subseteq Repos \X Shas
    BY <2>2 DEF MoveHead, TypeInv, TypeOK
  <2> QED BY <1>1, <2>3, <2>4 DEF ProjectionTyped
<1>5. CASE ~(o.repo \in Repos /\ o.provenance /\ o.sha \notin {NoSha, HeadOf(o.repo)})
  <2>1. /\ heads' = IF o.repo \in Repos THEN [heads EXCEPT ![o.repo] = HeadOf(o.repo)] ELSE heads
        /\ UNCHANGED <<verified, stale>>
    BY <1>5 DEF Project
  <2>2. heads' \in [Repos -> Shas \union {NoSha}]
    BY <1>2, <1>3, <2>1
  <2>3. verified' \subseteq Repos \X Shas /\ stale' \subseteq Repos \X Shas
    BY <2>1 DEF TypeInv, TypeOK
  <2> QED BY <1>1, <2>2, <2>3 DEF ProjectionTyped
<1> QED BY <1>4, <1>5

\* The store's and the history's part of the types.
StoreTyped ==
    /\ wal \in Seq(Lines) /\ tail \in Lines \union {NoTail}
    /\ events \in Seq(Observations)
    /\ seenIds \subseteq Ids
    /\ seenDigests \subseteq {o.digest : o \in Observations}
    /\ acked \subseteq Observations /\ projected \subseteq Observations

LEMMA AppendTyped ==
    ASSUME TypeInv, NEW o \in Observations, AppendLine(o) \/ AppendPartly(o)
    PROVE  wal' \in Seq(Lines) /\ tail' \in Lines \union {NoTail}
<1>1. wal \in Seq(Lines) /\ tail \in Lines \union {NoTail} /\ o \in Lines /\ Torn \in Lines
  BY DEF TypeInv, TypeOK, Lines
<1>2. CASE AppendLine(o)
  BY <1>1, <1>2 DEF AppendLine
<1>3. CASE AppendPartly(o)
  BY <1>1, <1>3 DEF AppendPartly
<1> QED BY <1>2, <1>3

LEMMA RememberTyped ==
    ASSUME TypeInv, NEW o \in Observations, Remember(o)
    PROVE  /\ events' \in Seq(Observations)
           /\ seenIds' \subseteq Ids
           /\ seenDigests' \subseteq {p.digest : p \in Observations}
<1>1. events' = Append(events, o) /\ events \in Seq(Observations)
  BY DEF Remember, TypeInv, TypeOK
<1>2. seenIds' \subseteq Ids /\ seenDigests' \subseteq {p.digest : p \in Observations}
  BY DEF Remember, TypeInv, TypeOK, Ids
<1> QED BY <1>1, <1>2

LEMMA IngestTyped ==
    ASSUME TypeInv, NEW o \in Observations, Ingest(o)
    PROVE  StoreTyped' /\ ProjectionTyped' /\ faults' \in 0..MaxFaults
<1>1. CASE Deduplicated(o)
  BY <1>1 DEF Deduplicated, StoreTyped, ProjectionTyped, TypeInv, TypeOK, Ids, log, memory, projection
<1>2. CASE Accepted(o)
  <2>1. Remember(o) /\ AppendLine(o) /\ Project(o) /\ faults' = faults
    BY <1>2 DEF Accepted
  <2>2. acked' \subseteq Observations /\ projected' \subseteq Observations
    BY <1>2 DEF Accepted, history, TypeInv, TypeOK
  <2> QED BY <2>1, <2>2, AppendTyped, RememberTyped, ProjectTyped DEF StoreTyped, TypeInv, TypeOK
<1>3. CASE AppendFails(o)
  <2>1. Remember(o) /\ AppendPartly(o) /\ UNCHANGED <<projection, history>>
    BY <1>3 DEF AppendFails
  <2>2. faults' \in 0..MaxFaults
    BY <1>3, PipelineAssumption DEF AppendFails, TypeInv, TypeOK
  <2>3. ProjectionTyped' /\ acked' \subseteq Observations /\ projected' \subseteq Observations
    BY <2>1 DEF projection, history, ProjectionTyped, TypeInv, TypeOK
  <2> QED BY <2>1, <2>2, <2>3, AppendTyped, RememberTyped DEF StoreTyped
<1> QED BY <1>1, <1>2, <1>3 DEF Ingest

\* What a start reads back are observations.
LEMMA ReadableTyped == TypeInv => Readable \in Seq(Observations)
<1> SUFFICES ASSUME TypeInv PROVE Readable \in Seq(Observations)
  OBVIOUS
<1> DEFINE all == IF tail = NoTail THEN wal ELSE Append(wal, tail)
<1>1. all \in Seq(Lines)
  BY DEF TypeInv, TypeOK
<1>2. Readable \in Seq(Lines) /\ ToSet(Readable) \subseteq Observations
  BY <1>1, ElementsOfSelect DEF Readable
<1>3. \A i \in 1..Len(Readable) : Readable[i] \in Observations
  BY <1>2, ToSetAt
<1> QED BY <1>2, <1>3

\* A reader is given events of the store.
LEMMA EventsSinceTyped ==
    ASSUME TypeInv, NEW id, NEW at
    PROVE  EventsSince(id, at) \in Seq(Observations)
<1> DEFINE found == {i \in DOMAIN events : events[i].id = id}
           from == Len(events) - ReadWindow + 1
<1>1. events \in Seq(Observations) /\ Len(events) \in Nat /\ DOMAIN events = 1..Len(events) /\ ReadWindow \in Nat
  BY PipelineAssumption DEF TypeInv, TypeOK
<1>2. CASE found # {}
  <2>1. PICK i \in 1..Len(events) : EventsSince(id, at) = SubSeq(events, 1 + i, Len(events))
    BY <1>1, <1>2 DEF EventsSince
  <2>2. 1 + i \in 1..(Len(events) + 1)
    BY <1>1
  <2> QED BY <1>1, <2>1, <2>2, Suffix
<1>3. CASE found = {} /\ id # NoCursor
  <2>1. EventsSince(id, at) = Select(events, {o \in Observations : o.at > at})
    BY <1>3 DEF EventsSince
  <2> QED BY <1>1, <2>1, ElementsOfSelect
<1>4. CASE found = {} /\ id = NoCursor
  <2> DEFINE m == IF from < 1 THEN 1 ELSE from
  <2>1. EventsSince(id, at) = SubSeq(events, m, Len(events))
    BY <1>4 DEF EventsSince
  <2>2. m \in 1..(Len(events) + 1)
    BY <1>1
  <2> QED BY <1>1, <2>1, <2>2, Suffix
<1> QED BY <1>2, <1>3, <1>4

LEMMA TypeInit == Init => TypeInv
<1> SUFFICES ASSUME Init PROVE TypeInv
  OBVIOUS
<1>1. ChainInv
  BY ChainInit
<1>2. reader \in Readers
  BY DEF Init, Readers
<1>3. heads \in [Repos -> Shas \union {NoSha}]
  BY DEF Init, BaselineHeads, Shas
<1>4. Len(Seeds) \in Nat /\ 0 <= ChainWindow /\ 0 \in 0..MaxCrashes /\ 0 \in 0..MaxFaults
  BY PipelineAssumption
<1>5. TypeOK
  BY <1>3, <1>4 DEF Init, TypeOK, Lines
<1> QED BY <1>1, <1>2, <1>5 DEF TypeInv

LEMMA TypeStep == TypeInv /\ [Next]_vars => TypeInv'
<1> SUFFICES ASSUME TypeInv, [Next]_vars PROVE TypeInv'
  OBVIOUS
<1> USE DEF Ids
<1>0. ChainInv'
  BY ChainStep DEF TypeInv
<1>1. ASSUME NEW o \in Observations, Deliver(o) PROVE TypeInv'
  <2>1. StoreTyped' /\ ProjectionTyped' /\ faults' \in 0..MaxFaults
    BY <1>1, IngestTyped DEF Deliver
  <2> QED BY <1>0, <1>1, <2>1 DEF Deliver, StoreTyped, ProjectionTyped, TypeInv, TypeOK, ChainInv, ChainType
<1>2. CASE IngestSeed
  <2>1. Seeds[seeded + 1] \in Observations /\ Ingest(Seeds[seeded + 1])
    BY <1>2, PipelineAssumption DEF IngestSeed, TypeInv, ChainInv, ChainType
  <2>2. StoreTyped' /\ ProjectionTyped' /\ faults' \in 0..MaxFaults
    BY <2>1, IngestTyped
  <2>3. seeded' \in 0..Len(Seeds) /\ (pc' = "seeding" => seeded' < Len(Seeds)) /\ pc' \in {"seeding", "up"}
    BY <1>2, PipelineAssumption DEF IngestSeed, TypeInv, TypeOK
  <2> QED BY <1>0, <1>2, <2>2, <2>3 DEF IngestSeed, StoreTyped, ProjectionTyped, TypeInv, TypeOK, ChainInv, ChainType
<1>3. CASE Start
  <2>1. Readable \in Seq(Observations)
    BY ReadableTyped
  <2>2. ToSet(Readable) \subseteq Observations
    BY <2>1, ToSetAt
  <2>3. events' \in Seq(Observations) /\ seenIds' \subseteq {o.id : o \in Observations}
        /\ seenDigests' \subseteq {o.digest : o \in Observations}
    BY <1>3, <2>1, <2>2 DEF Start
  <2>4. seeded' = 0 /\ pc' \in {"seeding", "up"} /\ 0 \in 0..Len(Seeds) /\ (pc' = "seeding" => 0 < Len(Seeds))
    BY <1>3, PipelineAssumption DEF Start
  <2>5. reader' \in Readers
    BY <1>3 DEF Start, TypeInv, Readers
  <2>6. reader'.seen \subseteq Observations
    BY <2>5 DEF Readers
  <2> QED BY <1>0, <1>3, <2>3, <2>4, <2>5, <2>6 DEF Start, log, projection, history, TypeInv, TypeOK
<1>4. ASSUME Die, wal' \in Seq(Lines), tail' \in Lines \union {NoTail} PROVE TypeInv'
  <2>1. heads' \in [Repos -> Shas \union {NoSha}]
    BY <1>4 DEF Die, BaselineHeads, Shas
  <2>2. crashes' \in 0..MaxCrashes
    BY <1>4, PipelineAssumption DEF Die, TypeInv, TypeOK
  <2>3. pc' = "down" /\ seeded' = 0 /\ 0 \in 0..Len(Seeds) /\ 0 <= ChainWindow
    BY <1>4, PipelineAssumption DEF Die
  <2> QED BY <1>0, <1>4, <2>1, <2>2, <2>3 DEF Die, history, TypeInv, TypeOK
<1>5. CASE Crash
  BY <1>4, <1>5 DEF Crash, log, TypeInv, TypeOK
<1>6. ASSUME NEW o \in Observations, CrashInAppend(o) PROVE TypeInv'
  BY <1>4, <1>6, AppendTyped DEF CrashInAppend
<1>7. ASSUME NEW r \in Repos, Verify(r) PROVE TypeInv'
  <2>1. heads[r] \in Shas
    BY <1>7 DEF Verify, TypeInv, TypeOK
  <2> QED BY <1>0, <1>7, <2>1 DEF Verify, log, memory, history, TypeInv, TypeOK
<1>8. ASSUME NEW r \in Repos, NEW sha \in SyncedShas \union {DefaultSha}, SyncRepository(r, sha) PROVE TypeInv'
  <2>1. heads' \in [Repos -> Shas \union {NoSha}]
    BY <1>8 DEF SyncRepository, TypeInv, TypeOK, Shas
  <2> QED BY <1>0, <1>8, <2>1 DEF SyncRepository, log, memory, history, TypeInv, TypeOK
<1>9. CASE Poll
  <2> DEFINE new == EventsSince(reader.id, reader.at)
  <2>1. new \in Seq(Observations) /\ new # <<>>
    BY <1>9, EventsSinceTyped DEF Poll
  <2>2. Last(new) \in Observations /\ ToSet(new) \subseteq Observations
    BY <2>1, ToSetAt DEF Last
  <2>3. Last(new).id \in Ids /\ Last(new).at \in Nat
    BY <2>2, PipelineAssumption
  <2>4. reader' = [id |-> Last(new).id, at |-> Last(new).at, seen |-> reader.seen \union ToSet(new), lost |-> reader.lost]
    BY <1>9 DEF Poll
  <2>5. reader' \in Readers /\ reader'.seen \subseteq Observations
    BY <2>2, <2>3, <2>4 DEF TypeInv, Readers
  <2> QED BY <1>0, <1>9, <2>5 DEF Poll, log, memory, projection, history, TypeInv, TypeOK
<1>10. CASE UNCHANGED vars
  BY <1>0, <1>10 DEF vars, log, memory, projection, history, TypeInv, TypeOK
<1> QED BY <1>1, <1>2, <1>3, <1>5, <1>6, <1>7, <1>8, <1>9, <1>10 DEF Next

\* Every variable of the pipeline keeps its type, and the hash chain its window.
THEOREM TypeCorrect == Spec => []TypeOK
<1>1. TypeInv => TypeOK
  BY DEF TypeInv
<1> QED BY TypeInit, TypeStep, <1>1, PTL DEF Spec

-----------------------------------------------------------------------------
(* The store and its log *)

\* No two places hold one id or one digest.
Distinct(s) ==
    \A i, j \in 1..Len(s) : i # j => s[i].id # s[j].id /\ s[i].digest # s[j].digest

\* r is s with elements left out.
Within(r, s) == r = Select(s, ToSet(r))

\* What the store remembers of its events; a process that is down has none.
Known ==
    /\ pc # "down" => /\ seenIds = {o.id : o \in ToSet(events)}
                      /\ seenDigests = {o.digest : o \in ToSet(events)}
    /\ pc = "down" => events = <<>> /\ lastHash = <<>>

StoreInv ==
    /\ TypeInv
    /\ Known
    /\ Distinct(events)
    /\ pc = "down" => Distinct(Readable)
    /\ MemoryFollowsLog

LEMMA DistinctWithin ==
    ASSUME NEW s \in Seq(Observations), NEW r \in Seq(Observations), Distinct(s), Within(r, s)
    PROVE  Distinct(r)
<1>1. PICK m : Embeds(r, s, m)
  BY SelectEmbeds DEF Within
<1>2. ASSUME NEW i \in 1..Len(r), NEW j \in 1..Len(r), i # j
      PROVE  r[i].id # r[j].id /\ r[i].digest # r[j].digest
  <2>1. m[i] \in 1..Len(s) /\ m[j] \in 1..Len(s) /\ r[i] = s[m[i]] /\ r[j] = s[m[j]]
    BY <1>1 DEF Embeds
  <2>2. i < j \/ j < i
    BY <1>2
  <2>3. m[i] < m[j] \/ m[j] < m[i]
    BY <1>1, <2>2 DEF Embeds
  <2>4. m[i] # m[j]
    BY <2>1, <2>3
  <2> QED BY <2>1, <2>4 DEF Distinct
<1> QED BY <1>2 DEF Distinct

LEMMA DistinctAppend ==
    ASSUME NEW s \in Seq(Observations), NEW o \in Observations, Distinct(s),
           \A p \in ToSet(s) : p.id # o.id /\ p.digest # o.digest
    PROVE  Distinct(Append(s, o))
<1> DEFINE t == Append(s, o)
<1>1. /\ Len(t) = Len(s) + 1 /\ Len(s) \in Nat /\ t[Len(s) + 1] = o
      /\ \A i \in 1..Len(s) : t[i] = s[i] /\ s[i] \in ToSet(s)
  BY AppendProperties, ToSetAt
<1> HIDE DEF t
<1>2. ASSUME NEW i \in 1..Len(t), NEW j \in 1..Len(t), i # j
      PROVE  t[i].id # t[j].id /\ t[i].digest # t[j].digest
  <2>1. CASE i = Len(s) + 1
    <3>1. j \in 1..Len(s)
      BY <1>1, <1>2, <2>1
    <3> QED BY <1>1, <2>1, <3>1
  <2>2. CASE j = Len(s) + 1
    <3>1. i \in 1..Len(s)
      BY <1>1, <1>2, <2>2
    <3> QED BY <1>1, <2>2, <3>1
  <2>3. CASE i # Len(s) + 1 /\ j # Len(s) + 1
    <3>1. i \in 1..Len(s) /\ j \in 1..Len(s)
      BY <1>1, <2>3
    <3> QED BY <1>1, <1>2, <3>1 DEF Distinct
  <2> QED BY <2>1, <2>2, <2>3
<1> QED BY <1>2 DEF Distinct, t

\* An observation that is no duplicate has an id and a digest of its own.
LEMMA NewIsDistinct ==
    ASSUME StoreInv, pc # "down", NEW o \in Observations, ~Duplicate(o)
    PROVE  /\ o \notin ToSet(events)
           /\ Distinct(Append(events, o))
<1>1. \A p \in ToSet(events) : p.id # o.id /\ p.digest # o.digest
  BY DEF StoreInv, Known, Duplicate
<1> QED BY <1>1, DistinctAppend DEF StoreInv, TypeInv, TypeOK

\* The log grows by the observation, or stays as it is, or loses a whole last line
\* that had no newline yet.
LogMoves(o) ==
    \/ Readable' = Readable
    \/ Readable' = Append(Readable, o)
    \/ \E p \in Observations : Readable' \in Seq(Observations) /\ Readable = Append(Readable', p)

LEMMA AppendMovesLog ==
    ASSUME TypeInv, NEW o \in Observations, AppendLine(o) \/ AppendPartly(o)
    PROVE  LogMoves(o)
<1> DEFINE R == Select(wal, Observations)
<1>1. wal \in Seq(Lines) /\ tail \in Lines \union {NoTail} /\ o \in Lines /\ Torn \in Lines
      /\ Torn \notin Observations /\ NoTail \notin Observations /\ Torn # NoTail
  BY PipelineAssumption DEF TypeInv, TypeOK, Lines
<1>2. R \in Seq(Observations)
  <2>1. R \in Seq(Lines) /\ ToSet(R) \subseteq Observations
    BY <1>1, ElementsOfSelect
  <2>2. \A i \in 1..Len(R) : R[i] \in Observations
    BY <2>1, ToSetAt
  <2> QED BY <2>1, <2>2
<1>3. ASSUME NEW l \in Lines
      PROVE  Select(Append(wal, l), Observations) = IF l \in Observations THEN Append(R, l) ELSE R
  BY <1>1, SelectAppend
<1>4. Readable = IF tail \in Observations THEN Append(R, tail) ELSE R
  <2>1. CASE tail = NoTail
    BY <1>1, <2>1 DEF Readable
  <2>2. CASE tail # NoTail
    BY <1>1, <1>3, <2>2 DEF Readable
  <2> QED BY <2>1, <2>2
<1> HIDE DEF R
<1>5. CASE AppendLine(o)
  <2>1. wal' = Append(wal, IF tail = NoTail THEN o ELSE Torn) /\ tail' = NoTail
    BY <1>5 DEF AppendLine
  <2>2. Readable' = Select(wal', Observations)
    BY <2>1 DEF Readable
  <2>3. CASE tail = NoTail
    <3>1. Readable' = Append(R, o)
      BY <1>1, <1>3, <2>1, <2>2, <2>3
    <3> QED BY <1>1, <1>4, <2>3, <3>1 DEF LogMoves
  <2>4. CASE tail # NoTail
    <3>1. Readable' = R
      BY <1>1, <1>3, <2>1, <2>2, <2>4
    <3> QED BY <1>1, <1>2, <1>4, <3>1 DEF LogMoves
  <2> QED BY <2>3, <2>4
<1>6. CASE AppendPartly(o)
  <2>1. wal' = wal /\ tail' \in {tail, Torn} \union (IF tail = NoTail THEN {o} ELSE {})
    BY <1>6 DEF AppendPartly
  <2>2. CASE tail' = tail
    <3>1. Readable' = Readable
      BY <2>1, <2>2 DEF Readable
    <3> QED BY <3>1 DEF LogMoves
  <2>3. CASE tail' = Torn
    <3>1. Readable' = Select(Append(wal, Torn), Observations)
      BY <1>1, <2>1, <2>3 DEF Readable
    <3>2. Readable' = R
      BY <1>1, <1>3, <3>1
    <3> QED BY <1>1, <1>2, <1>4, <3>2 DEF LogMoves
  <2>4. CASE tail = NoTail /\ tail' = o
    <3>1. Readable' = Select(Append(wal, o), Observations)
      BY <1>1, <2>1, <2>4 DEF Readable
    <3>2. Readable' = Append(R, o)
      BY <1>1, <1>3, <3>1
    <3> QED BY <1>1, <1>4, <2>4, <3>2 DEF LogMoves
  <2> QED BY <2>1, <2>2, <2>3, <2>4
<1> QED BY <1>5, <1>6

\* However an append to the log ends, the log stays within the events.
LEMMA LogStaysWithin ==
    ASSUME NEW r \in Seq(Observations), NEW q, NEW s \in Seq(Observations), NEW o \in Observations,
           Within(r, s), Distinct(s), o \notin ToSet(s),
           \/ q = r
           \/ q = Append(r, o)
           \/ \E p \in Observations : q \in Seq(Observations) /\ r = Append(q, p)
    PROVE  q \in Seq(Observations) /\ Within(q, Append(s, o)) /\ ToSet(q) \subseteq ToSet(Append(s, o))
<1>1. ToSet(r) \subseteq ToSet(s) /\ o \notin ToSet(r)
  BY SelectElements DEF Within
<1>2. ASSUME NEW t \in Seq(Observations), Within(t, s), o \notin ToSet(t)
      PROVE  Within(t, Append(s, o))
  BY <1>2, SelectAppend DEF Within
<1>3. CASE q = r
  BY <1>1, <1>2, <1>3, ToSetAppend
<1>4. CASE q = Append(r, o)
  <2>1. q \in Seq(Observations) /\ ToSet(q) = ToSet(r) \union {o}
    BY <1>4, ToSetAppend
  <2>2. Select(Append(s, o), ToSet(q)) = Append(Select(s, ToSet(q)), o)
    BY <2>1, SelectAppend
  <2>3. ToSet(s) \intersect ToSet(q) = ToSet(s) \intersect ToSet(r)
    BY <2>1
  <2>4. Select(s, ToSet(q)) = Select(s, ToSet(r))
    BY <2>3, SelectAgree
  <2>5. Within(q, Append(s, o))
    BY <1>4, <2>2, <2>4 DEF Within
  <2> QED BY <1>1, <2>1, <2>5, ToSetAppend
<1>5. CASE \E p \in Observations : q \in Seq(Observations) /\ r = Append(q, p)
  <2>1. PICK p \in Observations : q \in Seq(Observations) /\ r = Append(q, p)
    BY <1>5
  <2>2. p \notin ToSet(q)
    <3> SUFFICES ASSUME p \in ToSet(q) PROVE FALSE
      OBVIOUS
    <3>1. PICK i \in 1..Len(q) : q[i] = p
      BY <2>1, ToSetAt
    <3>2. /\ Len(r) = Len(q) + 1 /\ Len(q) \in Nat /\ r[Len(q) + 1] = p
          /\ r[i] = q[i]
      BY <2>1, AppendProperties
    <3>3. Distinct(r)
      BY DistinctWithin
    <3> QED BY <3>1, <3>2, <3>3 DEF Distinct
  <2>3. Within(q, s)
    BY <2>1, <2>2, SelectFront DEF Within
  <2>4. ToSet(r) = ToSet(q) \union {p}
    BY <2>1, ToSetAppend
  <2> QED BY <1>1, <1>2, <2>1, <2>3, <2>4, ToSetAppend
<1> QED BY <1>3, <1>4, <1>5

\* What is in the log of a process that runs, is in its memory.
LEMMA LogWithin ==
    ASSUME StoreInv, pc # "down"
    PROVE  Readable \in Seq(Observations) /\ Within(Readable, events) /\ ToSet(Readable) \subseteq ToSet(events)
<1>1. Readable \in Seq(Observations) /\ Readable = Select(events, ToSet(Readable)) /\ events \in Seq(Observations)
  BY ReadableTyped DEF StoreInv, MemoryFollowsLog, TypeInv, TypeOK
<1> QED BY <1>1, ElementsOfSelect DEF Within

\* The outcome of writing an observation that is new, whether the process lives on or not.
LEMMA NewObservation ==
    ASSUME StoreInv, pc # "down", NEW o \in Observations, ~Duplicate(o),
           AppendLine(o) \/ AppendPartly(o)
    PROVE  /\ Within(Readable', Append(events, o))
           /\ Distinct(Append(events, o)) /\ Distinct(Readable')
           /\ Readable' \in Seq(Observations)
<1>1. Readable \in Seq(Observations) /\ Within(Readable, events) /\ Distinct(events) /\ events \in Seq(Observations)
  BY LogWithin DEF StoreInv, TypeInv, TypeOK
<1>2. o \notin ToSet(events) /\ Distinct(Append(events, o))
  BY NewIsDistinct
<1>3. LogMoves(o)
  BY AppendMovesLog DEF StoreInv
<1>4. Readable' \in Seq(Observations) /\ Within(Readable', Append(events, o))
  BY <1>1, <1>2, <1>3, LogStaysWithin DEF LogMoves
<1>5. Append(events, o) \in Seq(Observations)
  BY <1>1
<1> QED BY <1>2, <1>4, <1>5, DistinctWithin

StoreKept == Known /\ Distinct(events) /\ (pc = "down" => Distinct(Readable)) /\ MemoryFollowsLog

LEMMA IngestKeepsStore ==
    ASSUME StoreInv, pc # "down", pc' # "down", NEW o \in Observations, Ingest(o)
    PROVE  StoreKept'
<1>1. CASE Deduplicated(o)
  <2>1. UNCHANGED <<log, memory>>
    BY <1>1 DEF Deduplicated
  <2>2. Readable' = Readable
    BY <2>1 DEF log, Readable
  <2> QED BY <2>1, <2>2 DEF memory, StoreInv, StoreKept, Known, MemoryFollowsLog
<1>2. CASE Accepted(o) \/ AppendFails(o)
  <2>1. ~Duplicate(o) /\ Remember(o) /\ (AppendLine(o) \/ AppendPartly(o))
    BY <1>2 DEF Accepted, AppendFails
  <2>2. events' = Append(events, o) /\ events \in Seq(Observations)
    BY <2>1 DEF Remember, StoreInv, TypeInv, TypeOK
  <2>3. Within(Readable', events') /\ Distinct(events')
    BY <2>1, <2>2, NewObservation
  <2>4. Known'
    BY <2>1, <2>2, ToSetAppend DEF Remember, StoreInv, Known
  <2> QED BY <2>3, <2>4 DEF StoreKept, MemoryFollowsLog, Within
<1> QED BY <1>1, <1>2 DEF Ingest

LEMMA StoreInit == Init => StoreInv
<1> SUFFICES ASSUME Init PROVE StoreInv
  OBVIOUS
<1>1. TypeInv
  BY TypeInit
<1>2. Readable = <<>>
  BY SelectEmpty DEF Init, Readable
<1>3. Distinct(<<>>)
  BY DEF Distinct
<1> QED BY <1>1, <1>2, <1>3 DEF Init, StoreInv, Known, MemoryFollowsLog

LEMMA StoreStep == StoreInv /\ [Next]_vars => StoreInv'
<1> SUFFICES ASSUME StoreInv, [Next]_vars PROVE StoreInv'
  OBVIOUS
<1>0. TypeInv'
  BY TypeStep DEF StoreInv
<1>1. ASSUME NEW o \in Observations, Deliver(o) PROVE StoreInv'
  BY <1>0, <1>1, IngestKeepsStore DEF Deliver, StoreInv, StoreKept
<1>2. CASE IngestSeed
  <2>1. Seeds[seeded + 1] \in Observations /\ Ingest(Seeds[seeded + 1])
    BY <1>2, PipelineAssumption DEF IngestSeed, StoreInv, TypeInv, ChainInv, ChainType
  <2>2. pc # "down" /\ pc' # "down"
    BY <1>2 DEF IngestSeed
  <2> QED BY <1>0, <2>1, <2>2, IngestKeepsStore DEF StoreInv, StoreKept
<1>3. CASE Start
  <2>1. pc = "down" /\ pc' # "down" /\ UNCHANGED log /\ events' = Readable
        /\ seenIds' = {o.id : o \in ToSet(Readable)} /\ seenDigests' = {o.digest : o \in ToSet(Readable)}
    BY <1>3 DEF Start
  <2>2. Readable' = Readable /\ Readable \in Seq(Observations)
    BY <2>1, ReadableTyped DEF log, Readable, StoreInv
  <2>3. Readable = Select(Readable, ToSet(Readable))
    BY <2>2, SelectAll
  <2>4. Known'
    BY <2>1 DEF Known
  <2>5. MemoryFollowsLog'
    BY <2>1, <2>2, <2>3 DEF MemoryFollowsLog
  <2>6. Distinct(events') /\ (pc' = "down" => Distinct(Readable'))
    BY <2>1 DEF StoreInv
  <2> QED BY <1>0, <2>4, <2>5, <2>6 DEF StoreInv
<1>4. ASSUME Die, Distinct(Readable') PROVE StoreInv'
  <2>1. pc' = "down" /\ events' = <<>> /\ lastHash' = <<>>
    BY <1>4 DEF Die
  <2>2. Distinct(events')
    BY <2>1 DEF Distinct
  <2> QED BY <1>0, <1>4, <2>1, <2>2 DEF StoreInv, Known, MemoryFollowsLog
<1>5. CASE Crash
  <2>1. Readable' = Readable /\ pc # "down"
    BY <1>5 DEF Crash, log, Readable
  <2>2. Distinct(Readable)
    BY <2>1, LogWithin, DistinctWithin DEF StoreInv, TypeInv, TypeOK
  <2> QED BY <1>4, <1>5, <2>1, <2>2 DEF Crash
<1>6. ASSUME NEW o \in Observations, CrashInAppend(o) PROVE StoreInv'
  <2>1. pc # "down" /\ ~Duplicate(o) /\ (AppendLine(o) \/ AppendPartly(o)) /\ Die
    BY <1>6 DEF CrashInAppend
  <2>2. Distinct(Readable')
    BY <2>1, NewObservation
  <2> QED BY <1>4, <2>1, <2>2
<1>7. ASSUME UNCHANGED <<log, memory>>, pc' = pc, pc # "down" \/ lastHash' = lastHash PROVE StoreInv'
  <2>1. Readable' = Readable
    BY <1>7 DEF log, Readable
  <2> QED BY <1>0, <1>7, <2>1 DEF memory, StoreInv, Known, MemoryFollowsLog
<1>8. CASE Poll
  BY <1>7, <1>8 DEF Poll, projection
<1>9. ASSUME NEW r \in Repos, NEW sha, Verify(r) \/ SyncRepository(r, sha) PROVE StoreInv'
  BY <1>7, <1>9 DEF Verify, SyncRepository
<1>10. CASE UNCHANGED vars
  BY <1>7, <1>10 DEF vars, projection
<1> QED BY <1>1, <1>2, <1>3, <1>5, <1>6, <1>8, <1>9, <1>10 DEF Next

\* EventStore.append deduplicates: no two events the store serves have one id or one
\* digest, whatever was delivered, failed or killed before (store.js initFromDisk, append).
THEOREM DuplicatesNeverServed == Spec => []NoDuplicates
<1>1. StoreInv => NoDuplicates
  <2> SUFFICES ASSUME StoreInv PROVE NoDuplicates
    OBVIOUS
  <2>1. DOMAIN events = 1..Len(events)
    BY DEF StoreInv, TypeInv, TypeOK
  <2> QED BY <2>1 DEF StoreInv, Distinct, NoDuplicates
<1> QED BY StoreInit, StoreStep, <1>1, PTL DEF Spec

\* The log of a running process reads back as its events with some left out, in the
\* same order, also after failed appends and behind torn lines.
THEOREM LogReadsBackAsMemory == Spec => []MemoryFollowsLog
<1>1. StoreInv => MemoryFollowsLog
  BY DEF StoreInv
<1> QED BY StoreInit, StoreStep, <1>1, PTL DEF Spec

-----------------------------------------------------------------------------
(* The projection *)

ProjectionInv == StoreInv /\ ProjectedInOrder /\ ToSet(lastHash) \subseteq ToSet(events)

LEMMA NothingProjected ==
    ASSUME NEW s \in Seq(Observations)
    PROVE  Within(<<>>, s) /\ ToSet(<<>>) \subseteq ToSet(s)
<1>1. Select(s, {}) \in Seq(Observations) /\ ToSet(Select(s, {})) = {}
  BY SelectType, SelectElements
<1>2. Len(Select(s, {})) = 0
  BY <1>1, ToSetAt
<1>3. Select(s, {}) = <<>>
  BY <1>1, <1>2
<1> QED BY <1>3, ToSetEmpty DEF Within

LEMMA IngestKeepsProjection ==
    ASSUME ProjectionInv, pc # "down", NEW o \in Observations, Ingest(o)
    PROVE  ProjectedInOrder' /\ ToSet(lastHash') \subseteq ToSet(events')
<1>1. /\ lastHash \in Seq(Observations) /\ events \in Seq(Observations)
      /\ Within(lastHash, events) /\ Distinct(events) /\ ToSet(lastHash) \subseteq ToSet(events)
  BY DEF ProjectionInv, ProjectedInOrder, Within, StoreInv, TypeInv, TypeOK
<1>2. CASE Deduplicated(o)
  BY <1>2 DEF Deduplicated, projection, memory, ProjectionInv, ProjectedInOrder
<1>3. ASSUME ~Duplicate(o), events' = Append(events, o), lastHash' \in {lastHash, Append(lastHash, o)}
      PROVE  ProjectedInOrder' /\ ToSet(lastHash') \subseteq ToSet(events')
  <2>1. o \notin ToSet(events)
    BY <1>3, NewIsDistinct DEF ProjectionInv
  <2>2. Within(lastHash', Append(events, o)) /\ ToSet(lastHash') \subseteq ToSet(Append(events, o))
    BY <1>1, <1>3, <2>1, LogStaysWithin
  <2> QED BY <1>3, <2>2 DEF Within, ProjectedInOrder
<1>4. CASE Accepted(o)
  BY <1>3, <1>4 DEF Accepted, Remember, Project, PushBlock
<1>5. CASE AppendFails(o)
  BY <1>3, <1>5 DEF AppendFails, Remember, projection
<1> QED BY <1>2, <1>4, <1>5 DEF Ingest

LEMMA ProjectionInit == Init => ProjectionInv
<1> SUFFICES ASSUME Init PROVE ProjectionInv
  OBVIOUS
<1>1. <<>> \in Seq(Observations)
  OBVIOUS
<1>2. Within(<<>>, <<>>) /\ ToSet(<<>>) \subseteq ToSet(<<>>)
  BY <1>1, NothingProjected
<1> QED BY <1>2, StoreInit DEF Init, ProjectionInv, ProjectedInOrder, Within

LEMMA ProjectionStep == ProjectionInv /\ [Next]_vars => ProjectionInv'
<1> SUFFICES ASSUME ProjectionInv, [Next]_vars PROVE ProjectionInv'
  OBVIOUS
<1>0. StoreInv'
  BY StoreStep DEF ProjectionInv
<1>1. ASSUME NEW o \in Observations, Deliver(o) PROVE ProjectionInv'
  BY <1>0, <1>1, IngestKeepsProjection DEF Deliver, ProjectionInv
<1>2. CASE IngestSeed
  <2>1. Seeds[seeded + 1] \in Observations /\ Ingest(Seeds[seeded + 1]) /\ pc # "down"
    BY <1>2, PipelineAssumption DEF IngestSeed, ProjectionInv, StoreInv, TypeInv, ChainInv, ChainType
  <2> QED BY <1>0, <2>1, IngestKeepsProjection DEF ProjectionInv
<1>3. ASSUME lastHash' = <<>> PROVE ProjectionInv'
  <2>1. events' \in Seq(Observations)
    BY <1>0 DEF StoreInv, TypeInv, TypeOK
  <2> QED BY <1>0, <1>3, <2>1, NothingProjected DEF ProjectionInv, ProjectedInOrder, Within
<1>4. CASE Start
  BY <1>3, <1>4 DEF Start, projection, ProjectionInv, StoreInv, Known
<1>5. CASE Crash \/ \E o \in Observations : CrashInAppend(o)
  BY <1>3, <1>5 DEF Crash, CrashInAppend, Die
<1>6. ASSUME UNCHANGED <<events, lastHash>> PROVE ProjectionInv'
  BY <1>0, <1>6 DEF ProjectionInv, ProjectedInOrder
<1>7. CASE Poll \/ UNCHANGED vars
  BY <1>6, <1>7 DEF Poll, vars, memory, projection
<1>8. ASSUME NEW r \in Repos, NEW sha, Verify(r) \/ SyncRepository(r, sha) PROVE ProjectionInv'
  BY <1>6, <1>8 DEF Verify, SyncRepository, memory
<1> QED BY <1>1, <1>2, <1>4, <1>5, <1>7, <1>8 DEF Next

\* StateProjector.applyObservation: what a process has projected is its events in
\* their order with some left out, each at most once.
THEOREM ProjectionFollowsStore == Spec => []ProjectedInOrder
<1>1. ProjectionInv => ProjectedInOrder
  BY DEF ProjectionInv
<1> QED BY ProjectionInit, ProjectionStep, <1>1, PTL DEF Spec

-----------------------------------------------------------------------------
(* The reader *)

\* Between an element that was seen and the one at the cursor, all was seen.
NothingMissed(s, seen, id) ==
    \A i, j \in 1..Len(s) :
        i <= j /\ s[i] \in seen /\ s[j].id = id => \A k \in i..j : s[k] \in seen

\* The cursor of a reader that lost none points to an event of the store.
ReaderInv ==
    /\ StoreInv
    /\ reader.id = NoCursor => reader.seen = {}
    /\ ~reader.lost =>
           /\ NothingMissed(events, reader.seen, reader.id)
           /\ pc = "down" => NothingMissed(Readable, reader.seen, reader.id)
           /\ pc # "down" /\ reader.id # NoCursor => reader.id \in seenIds

LEMMA NothingMissedWithin ==
    ASSUME NEW s \in Seq(Observations), NEW r \in Seq(Observations), Within(r, s),
           NEW seen, NEW id, NothingMissed(s, seen, id)
    PROVE  NothingMissed(r, seen, id)
<1>1. PICK m : Embeds(r, s, m)
  BY SelectEmbeds DEF Within
<1>2. ASSUME NEW i \in 1..Len(r), NEW j \in 1..Len(r), i <= j, r[i] \in seen, r[j].id = id,
             NEW k \in i..j
      PROVE  r[k] \in seen
  <2>1. k \in 1..Len(r) /\ i <= k /\ k <= j
    OBVIOUS
  <2>2. /\ m[i] \in 1..Len(s) /\ m[j] \in 1..Len(s) /\ m[k] \in 1..Len(s)
        /\ r[i] = s[m[i]] /\ r[j] = s[m[j]] /\ r[k] = s[m[k]]
    BY <1>1, <2>1 DEF Embeds
  <2>3. m[i] <= m[k]
    BY <1>1, <2>1, <2>2 DEF Embeds
  <2>4. m[k] <= m[j]
    BY <1>1, <2>1, <2>2 DEF Embeds
  <2>5. m[k] \in m[i]..m[j] /\ m[i] <= m[j]
    BY <2>2, <2>3, <2>4
  <2>6. s[m[i]] \in seen /\ s[m[j]].id = id
    BY <1>2, <2>2
  <2> QED BY <2>2, <2>5, <2>6 DEF NothingMissed
<1> QED BY <1>2 DEF NothingMissed

LEMMA NothingMissedAppend ==
    ASSUME NEW s \in Seq(Observations), NEW o \in Observations,
           NEW seen, NEW id, NothingMissed(s, seen, id), o.id # id
    PROVE  NothingMissed(Append(s, o), seen, id)
<1> DEFINE t == Append(s, o)
<1>1. /\ Len(t) = Len(s) + 1 /\ Len(s) \in Nat /\ t[Len(s) + 1] = o
      /\ \A i \in 1..Len(s) : t[i] = s[i]
  BY AppendProperties
<1> HIDE DEF t
<1>2. ASSUME NEW i \in 1..Len(t), NEW j \in 1..Len(t), i <= j, t[i] \in seen, t[j].id = id,
             NEW k \in i..j
      PROVE  t[k] \in seen
  <2>1. j # Len(s) + 1
    BY <1>1, <1>2
  <2>2. i \in 1..Len(s) /\ j \in 1..Len(s) /\ k \in 1..Len(s)
    BY <1>1, <1>2, <2>1
  <2>3. t[i] = s[i] /\ t[j] = s[j] /\ t[k] = s[k]
    BY <1>1, <2>2
  <2> QED BY <1>2, <2>2, <2>3 DEF NothingMissed
<1> QED BY <1>2 DEF NothingMissed, t

\* A new observation does not carry the id at the cursor.
LEMMA NewIsNotTheCursor ==
    ASSUME ReaderInv, ~reader.lost, pc # "down", NEW o \in Observations, ~Duplicate(o)
    PROVE  NothingMissed(Append(events, o), reader.seen, reader.id)
<1>1. o.id # reader.id
  BY PipelineAssumption DEF ReaderInv, Duplicate
<1> QED BY <1>1, NothingMissedAppend DEF ReaderInv, StoreInv, TypeInv, TypeOK

LEMMA IngestKeepsReader ==
    ASSUME ReaderInv, pc # "down", pc' # "down", StoreInv', NEW o \in Observations, Ingest(o),
           UNCHANGED reader
    PROVE  ReaderInv'
<1>1. CASE Deduplicated(o)
  BY <1>1 DEF Deduplicated, memory, ReaderInv
<1>2. CASE Accepted(o) \/ AppendFails(o)
  <2>1. ~Duplicate(o) /\ Remember(o)
    BY <1>2 DEF Accepted, AppendFails
  <2>2. events' = Append(events, o) /\ seenIds \subseteq seenIds'
    BY <2>1 DEF Remember
  <2> QED BY <2>1, <2>2, NewIsNotTheCursor DEF ReaderInv
<1> QED BY <1>1, <1>2 DEF Ingest

\* What a reader is given starts at the window of a first reading, or right behind
\* its cursor; either way it ends with the newest event.
LEMMA PollKeepsReader ==
    ASSUME ReaderInv, StoreInv', Poll
    PROVE  ReaderInv'
<1> DEFINE new == EventsSince(reader.id, reader.at)
           found == {i \in DOMAIN events : events[i].id = reader.id}
           first == Len(events) - ReadWindow + 1
<1>1. /\ events \in Seq(Observations) /\ Len(events) \in Nat /\ DOMAIN events = 1..Len(events)
      /\ ReadWindow \in Nat /\ Distinct(events)
      /\ seenIds = {o.id : o \in ToSet(events)}
      /\ pc = "up" /\ pc' = "up" /\ events' = events /\ seenIds' = seenIds
  BY PipelineAssumption DEF Poll, memory, ReaderInv, StoreInv, Known, TypeInv, TypeOK
<1>2. new # <<>> /\ reader' = [id |-> Last(new).id, at |-> Last(new).at,
                               seen |-> reader.seen \union ToSet(new), lost |-> reader.lost]
  BY DEF Poll
<1>3. new \in Seq(Observations)
  BY EventsSinceTyped DEF ReaderInv, StoreInv
<1>4. Last(new) \in Observations /\ Last(new).id # NoCursor
  <2>1. Last(new) \in Observations
    BY <1>2, <1>3 DEF Last
  <2> QED BY <2>1, PipelineAssumption
<1>5. CASE reader.lost
  BY <1>1, <1>2, <1>4, <1>5 DEF ReaderInv
<1>6. CASE ~reader.lost
  <2>1. PICK m \in 1..(Len(events) + 1) :
            /\ new = SubSeq(events, m, Len(events))
            /\ \/ reader.seen = {}
               \/ m > 1 /\ events[m - 1].id = reader.id
    <3>1. CASE reader.id = NoCursor
      <4>1. found = {}
        <5>1. \A i \in DOMAIN events : events[i] \in Observations
          BY <1>1
        <5> QED BY <3>1, <5>1, PipelineAssumption
      <4>2. new = SubSeq(events, IF first < 1 THEN 1 ELSE first, Len(events))
        BY <3>1, <4>1 DEF EventsSince
      <4>3. (IF first < 1 THEN 1 ELSE first) \in 1..(Len(events) + 1)
        BY <1>1
      <4> QED BY <3>1, <4>2, <4>3 DEF ReaderInv
    <3>2. CASE reader.id # NoCursor
      <4>1. reader.id \in seenIds
        BY <1>1, <1>6, <3>2 DEF ReaderInv
      <4>2. found # {}
        <5>1. PICK o \in ToSet(events) : o.id = reader.id
          BY <1>1, <4>1
        <5>2. PICK i \in 1..Len(events) : events[i] = o
          BY <1>1, ToSetAt
        <5> QED BY <1>1, <5>1, <5>2
      <4>3. PICK i \in found : new = SubSeq(events, 1 + i, Len(events))
        BY <4>2 DEF EventsSince
      <4>4. i \in 1..Len(events) /\ events[i].id = reader.id
        BY <1>1
      <4>5. 1 + i \in 1..(Len(events) + 1) /\ 1 + i > 1 /\ (1 + i) - 1 = i
        BY <1>1, <4>4
      <4>6. events[(1 + i) - 1].id = reader.id
        BY <4>4, <4>5
      <4> HIDE DEF new, found
      <4> QED BY <4>3, <4>5, <4>6
    <3> QED BY <3>1, <3>2
  <2>2. /\ m <= Len(events)
        /\ Last(new) = events[Len(events)]
        /\ \A k \in m..Len(events) : events[k] \in ToSet(new)
        /\ \A x \in ToSet(new) : \E k \in m..Len(events) : events[k] = x
    BY <1>1, <1>2, <2>1, Suffix
  <2> HIDE DEF new
  <2>3. reader'.seen = reader.seen \union ToSet(new) /\ reader'.id = events[Len(events)].id
        /\ reader'.lost = reader.lost
    BY <1>2, <2>2
  <2>4. ASSUME NEW i \in 1..Len(events), NEW j \in 1..Len(events), i <= j,
               events[i] \in reader'.seen, events[j].id = reader'.id, NEW k \in i..j
        PROVE  events[k] \in reader'.seen
    <3>1. Len(events) \in 1..Len(events) /\ k \in 1..Len(events)
      BY <1>1, <2>2
    <3>2. CASE k >= m
      BY <2>2, <2>3, <3>1, <3>2
    <3>3. CASE k < m
      <4>1. i < m
        BY <3>1, <3>3
      <4>2. events[i] \notin ToSet(new)
        <5> SUFFICES ASSUME events[i] \in ToSet(new) PROVE FALSE
          OBVIOUS
        <5>1. PICK l \in m..Len(events) : events[l] = events[i]
          BY <2>2
        <5>2. l \in 1..Len(events) /\ l # i
          BY <4>1
        <5> QED BY <1>1, <5>1, <5>2 DEF Distinct
      <4>3. events[i] \in reader.seen
        BY <2>3, <2>4, <4>2
      <4>4. m > 1 /\ events[m - 1].id = reader.id
        BY <2>1, <4>3
      <4>5. m - 1 \in 1..Len(events) /\ i <= m - 1 /\ k \in i..(m - 1)
        BY <1>1, <2>2, <3>1, <3>3, <4>1, <4>4
      <4>6. NothingMissed(events, reader.seen, reader.id)
        BY <1>6 DEF ReaderInv
      <4>7. events[k] \in reader.seen
        BY <4>3, <4>4, <4>5, <4>6 DEF NothingMissed
      <4> QED BY <2>3, <4>7
    <3> QED BY <3>1, <3>2, <3>3
  <2>5. NothingMissed(events', reader'.seen, reader'.id)
    BY <1>1, <2>4 DEF NothingMissed
  <2>6. events[Len(events)] \in ToSet(events)
    BY <1>1, <2>2, ToSetAt
  <2>7. reader'.id \in seenIds' /\ reader'.id # NoCursor
    BY <1>1, <1>2, <1>4, <2>3, <2>6
  <2> QED BY <1>1, <2>5, <2>7 DEF ReaderInv
<1> QED BY <1>5, <1>6

LEMMA ReaderInit == Init => ReaderInv
<1> SUFFICES ASSUME Init PROVE ReaderInv
  OBVIOUS
<1>1. StoreInv
  BY StoreInit
<1>2. Readable = <<>>
  BY SelectEmpty DEF Init, Readable
<1>3. \A seen, id : NothingMissed(<<>>, seen, id)
  BY DEF NothingMissed
<1> QED BY <1>1, <1>2, <1>3 DEF Init, ReaderInv

LEMMA ReaderStep == ReaderInv /\ [Next]_vars => ReaderInv'
<1> SUFFICES ASSUME ReaderInv, [Next]_vars PROVE ReaderInv'
  OBVIOUS
<1>0. StoreInv'
  BY StoreStep DEF ReaderInv
<1>1. ASSUME NEW o \in Observations, Deliver(o) PROVE ReaderInv'
  BY <1>0, <1>1, IngestKeepsReader DEF Deliver
<1>2. CASE IngestSeed
  <2>1. Seeds[seeded + 1] \in Observations /\ Ingest(Seeds[seeded + 1])
    BY <1>2, PipelineAssumption DEF IngestSeed, ReaderInv, StoreInv, TypeInv, ChainInv, ChainType
  <2>2. pc # "down" /\ pc' # "down" /\ UNCHANGED reader
    BY <1>2 DEF IngestSeed
  <2> QED BY <1>0, <2>1, <2>2, IngestKeepsReader
<1>3. CASE Start
  <2>1. reader \in Readers
    BY DEF ReaderInv, StoreInv, TypeInv
  <2>2. /\ reader'.id = reader.id /\ reader'.seen = reader.seen
        /\ reader'.lost = (reader.lost \/ (reader.id # NoCursor /\ reader.id \notin seenIds'))
    BY <1>3, <2>1 DEF Start, Readers
  <2>3. pc = "down" /\ pc' # "down" /\ events' = Readable
    BY <1>3 DEF Start
  <2> QED BY <1>0, <2>2, <2>3 DEF ReaderInv
<1>4. ASSUME Die, ~reader.lost => NothingMissed(Readable', reader.seen, reader.id) PROVE ReaderInv'
  <2>1. pc' = "down" /\ events' = <<>> /\ reader' = reader
    BY <1>4 DEF Die
  <2>2. NothingMissed(events', reader'.seen, reader'.id)
    BY <2>1 DEF NothingMissed
  <2> QED BY <1>0, <1>4, <2>1, <2>2 DEF ReaderInv
<1>5. CASE Crash
  <2>1. Readable' = Readable /\ pc # "down"
    BY <1>5 DEF Crash, log, Readable
  <2>2. Readable \in Seq(Observations) /\ Within(Readable, events) /\ events \in Seq(Observations)
    BY <2>1, LogWithin DEF ReaderInv, StoreInv, TypeInv, TypeOK
  <2>3. ASSUME ~reader.lost PROVE NothingMissed(Readable, reader.seen, reader.id)
    BY <2>2, <2>3, NothingMissedWithin DEF ReaderInv
  <2> QED BY <1>4, <1>5, <2>1, <2>3 DEF Crash
<1>6. ASSUME NEW o \in Observations, CrashInAppend(o) PROVE ReaderInv'
  <2>1. pc # "down" /\ ~Duplicate(o) /\ (AppendLine(o) \/ AppendPartly(o)) /\ Die
    BY <1>6 DEF CrashInAppend
  <2>2. Readable' \in Seq(Observations) /\ Within(Readable', Append(events, o))
    BY <2>1, NewObservation DEF ReaderInv
  <2>3. Append(events, o) \in Seq(Observations)
    BY DEF ReaderInv, StoreInv, TypeInv, TypeOK
  <2>4. ASSUME ~reader.lost PROVE NothingMissed(Readable', reader.seen, reader.id)
    BY <2>1, <2>2, <2>3, <2>4, NewIsNotTheCursor, NothingMissedWithin
  <2> QED BY <1>4, <2>1, <2>4
<1>7. ASSUME UNCHANGED <<pc, log, memory, reader>> PROVE ReaderInv'
  <2>1. Readable' = Readable
    BY <1>7 DEF log, Readable
  <2> QED BY <1>0, <1>7, <2>1 DEF memory, ReaderInv
<1>8. CASE Poll
  BY <1>0, <1>8, PollKeepsReader
<1>9. ASSUME NEW r \in Repos, NEW sha, Verify(r) \/ SyncRepository(r, sha) PROVE ReaderInv'
  BY <1>7, <1>9 DEF Verify, SyncRepository
<1>10. CASE UNCHANGED vars
  BY <1>7, <1>10 DEF vars
<1> QED BY <1>1, <1>2, <1>3, <1>5, <1>6, <1>8, <1>9, <1>10 DEF Next

\* EventStore.getEventsSince: a reader whose cursor no restart lost has been given every
\* event between the first it was given and its cursor (GET /api/wywa).
THEOREM ReaderGetsEverything == Spec => []ReaderMissesNothing
<1>1. ReaderInv => ReaderMissesNothing
  <2> SUFFICES ASSUME ReaderInv PROVE ReaderMissesNothing
    OBVIOUS
  <2>1. DOMAIN events = 1..Len(events) /\ Len(events) \in Nat
    BY DEF ReaderInv, StoreInv, TypeInv, TypeOK
  <2> SUFFICES ASSUME ~reader.lost, NEW i \in DOMAIN events, NEW j \in i..Len(events),
                      events[i] \in reader.seen /\ events[j].id = reader.id, NEW k \in i..j
               PROVE  events[k] \in reader.seen
    BY DEF ReaderMissesNothing
  <2>2. i \in 1..Len(events) /\ j \in 1..Len(events) /\ i <= j
    BY <2>1
  <2> QED BY <2>2 DEF ReaderInv, NothingMissed
<1> QED BY ReaderInit, ReaderStep, <1>1, PTL DEF Spec
=============================================================================
