\* Three requests, two at once, of two tuples of a service and one of another.
\* Requests are bounded, so the model may stop.
CONSTANTS
    Calls = {c1, c2}
    Services = {1, 2}
    Keys <- MCKeys
    ServiceOf <- MCServiceOf
    Values = {v1}
    alice = alice
    bob = bob
    Actors = {alice, bob}
    Editors <- MCEditors
    Viewable = {1, 2}
    MaxCalls = 3
    PageSize = 1
SYMMETRY Symmetry
VIEW WithoutReplies
SPECIFICATION ListSpec
CHECK_DEADLOCK FALSE
INVARIANT ListedOnce
