SPECIFICATION LiveSpec
CONSTANTS
    Ids = {i1}
    Confs = {c1}
    NoItem = NoItem
    Rts = {z, r}
    Zero = z
    Writers = {w1, w2}
    Timers = {t1, t2}
    Keys = {k1}
    NoKey = NoKey
    Missing = Missing
    Torn = Torn
    Free = Free
    MaxCrashes = 1
    MaxFailures = 1
PROPERTY MarkIsServed
