SPECIFICATION FairSpec
CONSTANTS
    Comp = {0, 1, 2}
    Stages <- TwoStages
    Helper = {h1}
INVARIANTS
    BuildInv
    StageOrder
    NoStrayMake
PROPERTIES
    StagedSpec
    BuildReturns
