SPECIFICATION Spec
CONSTANTS
    e1 = e1
    e2 = e2
    b1 = b1
    w1 = w1
    w2 = w2
    acme = acme
    beta = beta
    c1 = c1
    c2 = c2
    Envelopes = {e1, b1}
    Workers = {w1, w2}
    Orgs = {acme}
    Org <- MixedOrg
    Calls = {c1}
    Call <- MixedCall
    Otlp = {b1}
    Conflicted = {b1}
    Limit = 2
    ClaimLimit = 3
    DlqLimit = 2
    MaxFaults = 2
SYMMETRY WorkerSymmetry
CHECK_DEADLOCK FALSE
INVARIANTS TypeOK NothingLost OneHolder
