SPECIFICATION Spec
CONSTANTS
    Maps <- SmallMaps
    NumLvls = 3
    Sizes <- SmallSizes
    NumCores = 2
    Caches <- TwoColours
INVARIANTS
    MapInv
    BlocksInOrder
    EntriesCovered
    RegionsMapped
    ColoursApart
\* The generator returns.
CHECK_DEADLOCK FALSE
