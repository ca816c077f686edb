--------------------------- MODULE MCWeightedSearch ---------------------------
EXTENDS WeightedSearch

Weights == <<9, 1>>

\* MIN_DEG and MIN_OVERHEAD, MAX_DEG and MAX_OVERHEAD of global.h, in tenths.
Lows == <<7, 9>>
Highs == <<20, 100>>

\* The limits, the readings next to them, and 0, which calculateDegradation stores
\* when the isolated median is 0.
ThreeConfigs == <<2, 0>>
Boundaries == {0, 7, 20, 21} \X {0, 9, 40}
==============================================================================
