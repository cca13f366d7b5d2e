------------------------------- MODULE MCTiers -------------------------------
(* The tiers of EvidenceDecisions that the runs use, and the plane of the least prior. *)
EXTENDS EvidenceDecisions

MCSensitivity == [tier_1 |-> 45, tier_2 |-> 100]
MCSpecificity == [tier_1 |-> 90, tier_2 |-> 100]
MCTierNames == DOMAIN MCSensitivity
MCPrior == [EXPERIENCE |-> 14]

=============================================================================
