SPECIFICATION SafeSpec
CONSTANTS
    Chains = {m1, m2}
    Workers = {w1, w2}
    Templates = {a, b}
    Gone = Gone
    Plain = Plain
    None = None
    Sizes = {1, 2}
    Budget = 2
    Cap = 1
    Retries = 1
    MaxReloads = 2
SYMMETRY Interchangeable
CHECK_DEADLOCK FALSE
INVARIANTS TypeOK BytesAreOwned OneResult BodyFitsTarget DepthIsExact
