\* A refund whose answer is lost; no restart is needed.
\* Requests are bounded, so the model may stop.
CONSTANTS
    star = star
    acme = acme
    Handlers = {h1, h2}
    Users = {alice, carol}
    Operators = {alice, carol}
    Editors = {}
    Keys = {acme}
    Defaults = {}
    MaxAmount = 2
    Requests <- CounterRequests
    ReviewDefaults = TRUE
    ReviewResets = TRUE
    Threshold = 1
    MaxRequests = 3
    MaxCharges = 2
    MaxRolls = 2
    MaxRestarts = 0
SYMMETRY Symmetry
SPECIFICATION Spec
CHECK_DEADLOCK FALSE
INVARIANT NothingUnattributed
