\* Two transactions of one tuple that commit in the other order than they
\* began.  Requests are bounded, so the model may stop.
CONSTANTS
    Calls = {c1, c2}
    Services = {1}
    Keys <- OneKey
    ServiceOf <- MCServiceOf
    Values = {v1, v2}
    alice = alice
    bob = bob
    carol = carol
    Actors = {alice, bob, carol}
    Editors <- MCEditors
    MaxCalls = 3
SYMMETRY Symmetry
SPECIFICATION Spec
CHECK_DEADLOCK FALSE
INVARIANT NewestFirst
