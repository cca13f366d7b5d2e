CONSTANTS
    Tiers <- MCTierNames
    Sensitivity <- MCSensitivity
    Specificity <- MCSpecificity
    Prior <- MCPrior
    MinSamples = 10
    Alpha = 5
    MaxGate = 2
    BoundScale = 1000
    MaxOutcomes = 12
    MaxChain = 2
SPECIFICATION Spec
INVARIANT TierTwoProvesZero
CHECK_DEADLOCK FALSE
