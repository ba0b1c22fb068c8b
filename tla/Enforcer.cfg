\* Four calls: two checks and two charges are what it takes to overshoot.
CONSTANTS
    Producers = {p1, p2}
    Units = {"minute", "day"}
    Boundaries <- MCBoundaries
    JitterCap <- MCJitter
    Caps <- MCCaps
    MaxLimit = 1
    MaxCost = 1
    Sec = 2
    Grace = 2
    MaxSkew = 1
    NoPermit = NoPermit
    MaxTime = 4
    MaxCalls = 4
    MaxLosses = 1
SYMMETRY Symmetry
SPECIFICATION Spec
INVARIANT TypeOK
INVARIANT NoEarlyExpiry
INVARIANT PersistentKeyIsEmpty
INVARIANT BoundedOvershoot
PROPERTY ImplementsLedger
