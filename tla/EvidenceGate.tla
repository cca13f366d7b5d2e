---------------------------- MODULE EvidenceGate ----------------------------
(***************************************************************************)
(* The Evidence-Gated Autonomy Controller (packages/egac/src/index.js) at  *)
(* work: outcomes are recorded at POST /api/egac/calibrate and move the    *)
(* decisions of POST /api/egac/decide on the evidence that bots send.      *)
(***************************************************************************)
EXTENDS EvidenceDecisions

CONSTANT MaxChain        \* bound on the length of an evidence chain

vars == <<calibration, mission>>

-----------------------------------------------------------------------------
Init ==
    /\ calibration = [t \in Tiers |-> [passes |-> 0, total |-> 0]]
    /\ mission = <<>>

Count(c, detected) == [passes |-> c.passes + (IF detected THEN 1 ELSE 0), total |-> c.total + 1]

RecordCalibration(t, detected) ==
    /\ calibration[t].total < MaxOutcomes
    /\ calibration' = [calibration EXCEPT ![t] = Count(@, detected)]
    /\ UNCHANGED mission

\* A bot adds a result to the evidence it sends along with its next request.
CollectEvidence(t, passed) ==
    /\ Len(mission) < MaxChain
    /\ mission' = Append(mission, <<t, passed>>)
    /\ UNCHANGED calibration

Next == \E t \in Tiers, b \in BOOLEAN : RecordCalibration(t, b) \/ CollectEvidence(t, b)

Spec == Init /\ [][Next]_vars

-----------------------------------------------------------------------------
(* Properties *)

\* computeLikelihoodRatio: "A FAIL is evidence FOR defect, so LR > 1 when
\* sensitivity > 0."
FailIsEvidenceForDefect ==
    \A t \in Tiers : GetSensitivity(t) > 0 =>
        LET before == [value |-> Unit, certain |-> 0]
            after  == Update(<<t, FALSE>>, before)
        IN  after.certain > 0 \/ after.value > before.value

\* The head of index.js: "FCR = 0 for tier_2-only evidence (deterministic gate is
\* fail-closed)"; at least as long as no miss of it was recorded.
TierTwoProvesZero ==
    calibration["tier_2"].passes = calibration["tier_2"].total =>
        \A gate \in Gates :
            gate # <<>> /\ (\A i \in DOMAIN gate : gate[i] = "tier_2") => ProvablyZero(gate)

=============================================================================
