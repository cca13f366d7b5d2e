---------------------------- MODULE MCEvidenceGate --------------------------
(* EvidenceGate alone, for its violations. *)
EXTENDS EvidenceGate, MCTiers
=============================================================================
