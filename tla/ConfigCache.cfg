\* Two concurrent lookups, writes between and during the queries; the jitter
\* exceeds the negative TTL, as the settings allow.  No symmetry: liveness.
CONSTANTS
    Tasks = {t1, t2}
    Caps = {c1}
    Unconfigured = Unconfigured
    PositiveTtl = 2
    NegativeTtl = 1
    Jitter = 2
    MaxLatency = 1
    MaxAge = 6
    MaxWrites = 1
SPECIFICATION FairSpec
INVARIANT TypeOK
INVARIANT BoundedStaleness
INVARIANT OldValuesAreGone
INVARIANT OutageKeepsCaps
PROPERTY ConfigPropagates
