\* Nobody else writes: the person alone gets a preview of another change.
CONSTANTS
    Customers = {star, acme, globex}
    Star = star
    Values = {1, 2}
    Nothing = Nothing
    MaxRequests = 2
    MaxElsewhere = 0
SPECIFICATION Spec
INVARIANT PreviewIsTheChange
