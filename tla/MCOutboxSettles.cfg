SPECIFICATION FairSpec
CONSTANTS
    e1 = e1
    e2 = e2
    b1 = b1
    w1 = w1
    w2 = w2
    acme = acme
    beta = beta
    c1 = c1
    c2 = c2
    Envelopes = {e1, e2}
    Workers = {w1, w2}
    Orgs = {acme, beta}
    Org <- TenantOrg
    Calls = {c1, c2}
    Call <- TenantCall
    Otlp = {}
    Conflicted = {}
    Limit = 1
    ClaimLimit = 4
    DlqLimit = 2
    MaxFaults = 1
CHECK_DEADLOCK FALSE
PROPERTIES Settles TombstonesPrevail
