-------------------------- MODULE EvidenceDecisions --------------------------
(***************************************************************************)
(* How the Evidence-Gated Autonomy Controller (packages/egac/src/index.js) *)
(* decides, as UnifiedIntelligenceEngine configures it, from the outcomes  *)
(* recorded of each tier, the evidence of a mission and the tiers named    *)
(* for its gate; and what it promises.  EvidenceGate records.              *)
(*                                                                         *)
(* Sensitivities, specificities and priors are percentages; what the code  *)
(* computes from samples is rounded down.  The odds of a defect are in     *)
(* ten-thousandths.  The code floors denominators at 1e-10, so a failure   *)
(* of a tier that never fails wrongly multiplies the odds by 1e10: such    *)
(* factors are counted in "certain".                                       *)
(***************************************************************************)
EXTENDS WilsonInterval, Sequences

CONSTANTS
    Tiers,           \* evidence tiers in use
    Sensitivity,     \* EVIDENCE_TIERS[t].sensitivity, in percent
    Specificity,     \* EVIDENCE_TIERS[t].specificity, in percent
    Prior,           \* PLANE_PRIORS, by plane, in percent
    MinSamples,      \* outcomes from which a tier counts as calibrated (10)
    Alpha,           \* 5: costFalsePositive 1, costFalseNegative 19
    BoundScale,      \* steps of a bound from 0 to 1 (10^8: toFixed(8))
    MaxGate          \* bound on the tiers named for a gate

\* No plane is trusted before any evidence: the least of PLANE_PRIORS is 14%, alpha 5%.
ASSUME EvidenceAssumption ==
    /\ \A t \in Tiers : Sensitivity[t] \in 0..100 /\ Specificity[t] \in 1..100
    /\ Alpha \in Nat /\ \A p \in DOMAIN Prior : Prior[p] \in (2 * Alpha + 1)..99
    /\ BoundScale \in Nat \ {0}
    /\ MinSamples \in Nat \ {0} /\ MaxOutcomes \in Nat /\ MaxGate \in Nat

VARIABLES
    calibration,     \* outcomes recorded per tier: detected ("passes") and total
    mission          \* the evidence a mission has collected so far: <<tier, passed>>

Unit == 10000

-----------------------------------------------------------------------------
Calibrated(t) == calibration[t].total >= MinSamples

GetSensitivity(t) ==
    IF Calibrated(t) THEN WilsonLow[calibration[t].total][calibration[t].passes] ELSE Sensitivity[t]

MissRate(t) == 100 - GetSensitivity(t)

\* A defect passes a gate only if every tier misses it.
Product(tiers) ==
    LET product[n \in 0..Len(tiers)] ==
            IF n = 0 THEN [num |-> 1, den |-> 1]
            ELSE [num |-> product[n - 1].num * MissRate(tiers[n]), den |-> product[n - 1].den * 100]
    IN  product[Len(tiers)]

Rounded(num, den) == (2 * num + den) \div (2 * den)

\* The bound is reported, and decided on, as rounded; it is proved zero as it is.
FCRBound(tiers) == Rounded(Product(tiers).num * BoundScale, Product(tiers).den)

ProvablyZero(tiers) == Product(tiers).num = 0

\* A product rounded down, which stays positive when both factors are.
Scaled(v, num, den) ==
    IF v * num = 0 THEN 0 ELSE IF v * num < den THEN 1 ELSE (v * num) \div den

\* The results are taken the other way round.
Update_Swapped(e, odds) ==
    LET s == GetSensitivity(e[1])
    IN  IF ~e[2]
        THEN [odds EXCEPT !.value = Scaled(@, 100 - s, Specificity[e[1]])]
        ELSE [odds EXCEPT !.value = Scaled(@, s, Max({1, 100 - Specificity[e[1]]}))]

\* A pass multiplies the odds by (1 - sensitivity) / specificity, a failure by
\* sensitivity / (1 - specificity).
Update(e, odds) ==
    LET t == e[1]
        s == GetSensitivity(t)
    IN  IF e[2]
        THEN [odds EXCEPT !.value = Scaled(@, 100 - s, Specificity[t])]
        ELSE IF Specificity[t] = 100
        THEN IF s = 0 THEN odds ELSE [value |-> Scaled(odds.value, s, 100), certain |-> odds.certain + 1]
        ELSE [odds EXCEPT !.value = Scaled(@, s, 100 - Specificity[t])]

PriorOdds(plane) == [value |-> (Prior[plane] * Unit) \div (100 - Prior[plane]), certain |-> 0]

SequentialUpdate(plane, chain) ==
    LET odds[n \in 0..Len(chain)] ==
            IF n = 0 THEN PriorOdds(plane) ELSE Update(chain[n], odds[n - 1])
    IN  odds[Len(chain)]

\* P(defect) < percent
Below(odds, percent) ==
    odds.value = 0 \/ (odds.certain = 0 /\ odds.value * (100 - percent) < percent * Unit)

Decide(plane, chain, tiers) ==
    LET odds  == SequentialUpdate(plane, chain)
        bound == FCRBound(tiers)
        Within(percent) == 100 * bound < percent * BoundScale /\ Below(odds, percent)
    IN  IF Within(Alpha) THEN "AUTONOMOUS_EXECUTION"
        ELSE IF Within(2 * Alpha) THEN "HUMAN_REVIEW"
        ELSE "HALT_AND_ESCALATE"

-----------------------------------------------------------------------------
(* Properties *)

Gates == UNION {[1..n -> Tiers] : n \in 0..MaxGate}

\* A gate proves zero false completions exactly while a tier declared infallible is among
\* those named and is not calibrated: from the tenth outcome on, all of them detections
\* even, no gate does so through it (getSensitivity, computeFCRBound).
ZeroBoundIsDeclared ==
    \A gate \in Gates : ProvablyZero(gate) <=>
        \E i \in DOMAIN gate : ~Calibrated(gate[i]) /\ Sensitivity[gate[i]] = 100

\* Naming strong tiers for the gate earns no autonomy by itself: it takes a pass in the
\* evidence, or a failure of a tier whose calibration has fallen below its rate of false
\* alarms, which the formula takes for a good sign (decide, computeLikelihoodRatio).
AutonomyRestsOnAPass ==
    (\A i \in DOMAIN mission :
         ~mission[i][2] /\ GetSensitivity(mission[i][1]) + Specificity[mission[i][1]] >= 100)
    => \A p \in DOMAIN Prior, gate \in Gates : Decide(p, mission, gate) = "HALT_AND_ESCALATE"

\* Once a tier is calibrated, a missed defect never raises its sensitivity and a
\* detected one never lowers it (recordCalibration, wilsonCI).
OutcomesMoveSensitivity ==
    [][\A t \in Tiers : Calibrated(t) =>
           /\ calibration'[t].passes > calibration[t].passes => GetSensitivity(t)' >= GetSensitivity(t)
           /\ calibration'[t].passes = calibration[t].passes => GetSensitivity(t)' <= GetSensitivity(t)
      ]_<<calibration, mission>>

=============================================================================
