SPECIFICATION FairSpec
CONSTANTS
    Cores = 3
    Needs <- SharedNeeds
    Present = {0, 1, 2, 3}
    Unbuilt <- WithoutVictim
    Outputs = 2
    Size = 2
    Runs = 2
    Speeds = {FALSE, TRUE}
    MaxKnocks = 2
    MaxFaults <- TwoIfPrompt
INVARIANTS
    InStep
    SamplesComplete
    CoresLoaded
    CleanBoard
    VictimLoaded
    SamplesInPlace
PROPERTIES
    BenchEnds
\* The tool stops when runBench has returned.
CHECK_DEADLOCK FALSE
