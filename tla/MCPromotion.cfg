SPECIFICATION MCSpec
CONSTANTS
    e1 = e1
    e2 = e2
    e3 = e3
    d1 = d1
    d2 = d2
    Envelopes <- MCEnvelopes
    Facts <- MCFacts
    Adds <- MCAdds
    Drops <- MCDrops
    Clash <- MCClash
    Drainers = {d1, d2}
    MaxAttempts = 2
    DeletionKinds = {TRUE, FALSE}
    MaxRevisions = 3
    MaxUpsets = 1
SYMMETRY Processes
CHECK_DEADLOCK FALSE
INVARIANTS TypeOK ActiveVisible NoFactStranded FrontierHonest NoConflictServed RowsErased
PROPERTY ImplementsCallFacts
