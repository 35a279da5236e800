SPECIFICATION Spec
CONSTANTS
    N = 3
    Guarded = {1}
    Looking = {3}
    Handlers = {h1, h2}
    Ways = {"exit"}
    Free = Free
    Off = Off
    Broken = Broken
    None = None
    MaxVersion = 3
    MaxFails = 2
    MaxReports = 1
CHECK_DEADLOCK FALSE
INVARIANTS TypeOK QuietIsFresh GuardedStayClosed ReportsAreSaved
PROPERTIES NeverBackwards SavesReturn
