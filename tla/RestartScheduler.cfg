SPECIFICATION Spec
CONSTANTS
    MaxTime = 4
    Plans = {{2, 4}, {3}}
    Lag = 2
    Window = 1
    MaxSteps = 1
    MaxSaves = 2
    MaxJumps = 1
    MaxCrashes = 1
    MaxFails = 1
    MaxClicks = 1
CHECK_DEADLOCK FALSE
INVARIANTS TypeOK AtMostOnce PointsAreServed
PROPERTIES NoSurprise ButtonComesBack
