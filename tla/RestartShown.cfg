SPECIFICATION Spec
CONSTANTS
    MaxTime = 7
    Plans = {{3, 6}, {5}}
    Lag = 2
    Window = 1
    MaxSteps = 1
    MaxSaves = 1
    MaxJumps = 0
    MaxCrashes = 0
    MaxFails = 0
    MaxClicks = 0
CHECK_DEADLOCK FALSE
INVARIANT ShownIsRun
