SPECIFICATION Spec
CONSTANTS
    Ids = {i1, i2}
    Confs = {c1}
    NoItem = NoItem
    Rts = {z, r}
    Zero = z
    Writers = {w1, w2}
    Timers = {t1}
    Keys = {k1, k2}
    NoKey = NoKey
    Missing = Missing
    Torn = Torn
    Free = Free
    MaxCrashes = 1
    MaxFailures = 1
SYMMETRY Interchangeable
INVARIANTS TypeOK SecretsReadable CommittedIsOnDisk NothingForgotten SkipsOnlyWhatIsWritten
PROPERTIES SavesKeepReports SettingsAreDurable
