CONSTANTS
    Workers = {w1, w2}
    Companies = {c1, c2}
    Tactics = {t1, t2}
    MaxStarts = 2
    MaxFaults = 1
    MaxEvents = 1
    Generating = {w1}
SPECIFICATION Spec
CHECK_DEADLOCK FALSE
INVARIANTS
    SeededMeansCovered
    SeedTasksBeforeUsers
    LoopsEndBeforeClosing
PROPERTIES
    EveryStartServes
    EveryStopEnds
