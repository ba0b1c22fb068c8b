\* Changes of a default, a refund and a reset of one tuple, two at once: a
\* submission, an approval and a rival to either, while charges come in, the
\* window ends and the console restarts.  Requests are bounded, so the model
\* may stop.
CONSTANTS
    star = star
    acme = acme
    Handlers = {h1, h2}
    Users = {alice, carol, bob}
    Operators = {alice, carol}
    Editors = {bob}
    Keys = {star}
    Defaults = {star}
    MaxAmount = 2
    Requests <- MixedRequests
    ReviewDefaults = TRUE
    ReviewResets = TRUE
    Threshold = 1
    MaxRequests = 3
    MaxCharges = 2
    MaxRolls = 1
    MaxRestarts = 1
SYMMETRY Symmetry
SPECIFICATION Spec
CHECK_DEADLOCK FALSE
INVARIANT TypeOK
INVARIANT FourEyes
INVARIANT ReviewedOnce
INVARIANT LogIsTrue
PROPERTY ResetKeepsLaterCharges
PROPERTY ImplementsReview
