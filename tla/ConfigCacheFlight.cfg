CONSTANTS
    Tasks = {t1, t2}
    Caps = {c1}
    Unconfigured = Unconfigured
    PositiveTtl = 2
    NegativeTtl = 1
    Jitter = 0
    MaxLatency = 1
    MaxAge = 4
    MaxWrites = 1
SPECIFICATION Spec
INVARIANT SingleFlight
