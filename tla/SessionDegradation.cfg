SPECIFICATION Spec
CONSTANTS
    Arch <- OneArch
    Config <- OneConfig
    Stages <- TwoStages
    Files <- TwoFiles
    Cored <- CoredStages
    Cores <- TwoCores
    Outputs = 2
INVARIANTS
    SameOutputCompared
\* The tool stops on exit, on an assertion and on the core count check.
CHECK_DEADLOCK FALSE
