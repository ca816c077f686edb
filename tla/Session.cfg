SPECIFICATION Spec
CONSTANTS
    Arch <- TwoArchs
    Config <- TwoConfigs
    Stages <- TwoStages
    Files <- TwoFiles
    Cored <- CoredStages
    Cores <- TwoCores
    Outputs = 2
INVARIANTS
    TypeOK
    ListsOfArch
    BoardRunsSelected
    OutputsHaveConfig
    ModuleAgrees
PROPERTIES
    BuildsOnlyAccepted
\* The tool stops on exit, on an assertion and on the core count check.
CHECK_DEADLOCK FALSE
