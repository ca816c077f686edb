SPECIFICATION Spec
CONSTANTS
    Cores = 3
    Needs <- CoreNeeds
    Present = {0, 1, 3}
    Unbuilt = {}
    Outputs = 2
    Size = 2
    Runs = 1
    Speeds = {FALSE}
    MaxKnocks = 2
    MaxFaults <- Never
INVARIANTS
    CoresLoaded
\* The tool stops when runBench has returned.
CHECK_DEADLOCK FALSE
