SPECIFICATION Spec
CONSTANTS
    Module <- Pi
    System = 0
    Victim = 1
    Texts <- PiFiles
INVARIANTS
    VictimIsolated
\* The tool is killed by a division by zero or a null pointer, or waits forever.
CHECK_DEADLOCK FALSE
