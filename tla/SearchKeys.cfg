SPECIFICATION Spec
CONSTANTS
    Algos = {"nr"}
    Params = 2
    MaxOf <- WideRanges
    Values <- OneScore
    Iterations = 200
PROPERTIES
    RefusedWasMeasured
\* The search returns.
CHECK_DEADLOCK FALSE
