\* A reviewed update of a default that is not there (any more).
\* Requests are bounded, so the model may stop.
CONSTANTS
    star = star
    acme = acme
    Handlers = {h1, h2}
    Users = {alice, carol, bob}
    Operators = {alice, carol}
    Editors = {bob}
    Keys = {star, acme}
    Defaults = {star}
    MaxAmount = 2
    Requests <- ConfigRequests
    ReviewDefaults = TRUE
    ReviewResets = TRUE
    Threshold = 1
    MaxRequests = 3
    MaxCharges = 0
    MaxRolls = 0
    MaxRestarts = 0
SYMMETRY Symmetry
SPECIFICATION Spec
CHECK_DEADLOCK FALSE
INVARIANT AppliedAsSubmitted
