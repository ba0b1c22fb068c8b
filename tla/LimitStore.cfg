\* Three requests, two at once, of one tuple; one of the principals may not edit.
\* No symmetry: liveness.  Requests are bounded, so the model may stop.
CONSTANTS
    Calls = {c1, c2}
    Services = {1}
    Keys <- OneKey
    ServiceOf <- MCServiceOf
    Values = {v1, v2}
    alice = alice
    bob = bob
    carol = carol
    Actors = {alice, carol}
    Editors <- MCEditors
    MaxCalls = 3
SPECIFICATION FairSpec
CHECK_DEADLOCK FALSE
INVARIANT TypeOK
INVARIANT AuditExplainsTable
INVARIANT RepliesMatchAudit
INVARIANT ConfigIdHasOneLife
PROPERTY ImplementsTable
PROPERTY EveryCallAnswered
