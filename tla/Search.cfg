SPECIFICATION Spec
CONSTANTS
    Algos = {"rs", "nr", "sa"}
    Params = 2
    MaxOf <- SmallRanges
    Values <- Scores
    Iterations = 4
INVARIANTS
    SearchInv
    BestOfAll
    HistoryOfBest
    NeverTwice
    DrawsLeft
\* The search returns.
CHECK_DEADLOCK FALSE
