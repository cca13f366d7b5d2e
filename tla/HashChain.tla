------------------------------ MODULE HashChain ------------------------------
(***************************************************************************)
(* The hash chain that the browser-side analytics (algorithms.js) generate *)
(* over the feed and verify later, after it lay in storage.  ActivityFeed  *)
(* generates and edits it.                                                 *)
(*                                                                         *)
(* SHA-256 has no collisions: a hash is what it was computed from.         *)
(***************************************************************************)
EXTENDS Integers, Sequences, SequencesExt

CONSTANT MaxBlocks   \* blocks of a hash chain (15)

ASSUME ChainAssumption == MaxBlocks \in Nat

VARIABLES
    chain,           \* a stored hash chain
    sealed,          \* the events it was generated from (observation)
    edits            \* edits made to it since

Genesis == <<>>

Hash(payload) == <<payload.index, payload.event, payload.prev>>

Block(index, event, prev) ==
    LET payload == [index |-> index, event |-> event, prev |-> prev]
    IN  [payload |-> payload, prevHash |-> prev, hash |-> Hash(payload)]

Sealable(events) == SubSeq(events, 1, IF Len(events) < MaxBlocks THEN Len(events) ELSE MaxBlocks)

\* One block per event, each with the hash of the block before it.
GenerateHashChain(events) ==
    LET sealable == Sealable(events)
        blocks[i \in 1..Len(sealable)] ==
            Block(i, sealable[i], IF i = 1 THEN Genesis ELSE blocks[i - 1].hash)
    IN  blocks

Expected(c, i) == IF i = 1 THEN Genesis ELSE c[i - 1].hash

\* The payload is hashed with the predecessor it carries itself.
ContentOk_AsStored(c, i) == Hash(c[i].payload) = c[i].hash

\* The payload is hashed with the predecessor the verifier expects.
ContentOk(c, i) == Hash([c[i].payload EXCEPT !.prev = Expected(c, i)]) = c[i].hash

Verified(c) == \A i \in DOMAIN c : c[i].prevHash = Expected(c, i) /\ ContentOk(c, i)

EventsOf(c) == [i \in DOMAIN c |-> c[i].payload.event]

Original == GenerateHashChain(sealed)

\* A hash that was kept, as the root hash the verifier returns, vouches for all up to its
\* block: a chain that verifies and carries a hash of the chain that was generated carries
\* it at the same place and repeats every event before it, however it was edited and
\* hashed anew.  Without a hash kept elsewhere nothing is vouched for: an editor may
\* recompute each hash from the block he edits on.  A chain nobody edited verifies
\* (verifyHashChainIntegrity, generateHashChain).
TamperEvident ==
    /\ Verified(chain) =>
           \A i \in DOMAIN chain, k \in DOMAIN Original :
               chain[i].hash = Original[k].hash =>
                   i = k /\ SubSeq(EventsOf(chain), 1, i) = SubSeq(sealed, 1, k)
    /\ edits = 0 => Verified(chain)

=============================================================================
