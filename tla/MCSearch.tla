------------------------------- MODULE MCSearch -------------------------------
\* Ranges of two proprieties: three configurations to search through, fewer than
\* the iterations asked for; and the smallest ranges with two configurations that
\* are written alike (1 10 and 11 0).
EXTENDS Search

SmallRanges == <<2, 0>>
WideRanges == <<11, 10>>
Scores == {-1, 0, 1}
OneScore == {0}
==============================================================================
