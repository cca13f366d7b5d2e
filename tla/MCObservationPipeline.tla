----------------------- MODULE MCObservationPipeline -----------------------
(* ObservationPipeline for TLC: a push, a later push of another id, a second *)
(* envelope with the digest of the first, and one without a provenance.      *)
EXTENDS ObservationPipeline

CONSTANTS sha1, sha2, repo

Push1 == [id |-> "push1", digest |-> "d1", at |-> 2, repo |-> repo, sha |-> sha1, provenance |-> TRUE]
Push2 == [id |-> "push2", digest |-> "d2", at |-> 1, repo |-> repo, sha |-> sha2, provenance |-> TRUE]
Copy1 == [id |-> "copy1", digest |-> "d1", at |-> 3, repo |-> repo, sha |-> sha1, provenance |-> TRUE]
Bare == [id |-> "bare", digest |-> "d3", at |-> 3, repo |-> repo, sha |-> NoSha, provenance |-> FALSE]

MCObservations == {Push1, Push2, Copy1, Bare}
MCSeeds == <<Push1, Push2>>
=============================================================================
