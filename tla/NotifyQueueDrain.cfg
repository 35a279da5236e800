SPECIFICATION Spec
CONSTANTS
    Chains = {m1, m2}
    Workers = {w1}
    Templates = {a}
    Gone = Gone
    Plain = Plain
    None = None
    Sizes = {1}
    Budget = 2
    Cap = 1
    Retries = 1
    MaxReloads = 0
CHECK_DEADLOCK FALSE
INVARIANT DrainServesAccepted
