SPECIFICATION Spec
CONSTANTS
    Params = 2
    MaxOf <- ThreeConfigs
    Readings <- Boundaries
    Low <- Lows
    High <- Highs
    Weight <- Weights
    MaxEvaluations = 4
INVARIANTS
    AveragesBounded
    RescaledExactly
    BestWasMeasured
    IsolatedOfSearch
\* The user may stop after any search.
CHECK_DEADLOCK FALSE
