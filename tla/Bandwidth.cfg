SPECIFICATION FairSpec
CONSTANTS
    Budget = 6
    Threshold = 2
    Latency = 1
    Wrap = 15
    AfterDisturbance = 12
INVARIANTS
    Regulated
    TimerWakes
PROPERTIES
    Resumes
\* stop_irq ends the regulation.
CHECK_DEADLOCK FALSE
