SPECIFICATION MCSpec
CONSTANTS
    r1 = r1
    r2 = r2
    w1 = w1
    w2 = w2
    a = a
    early = early
    late = late
    c1 = c1
    c2 = c2
    acme = acme
    beta = beta
    e1 = e1
    e2 = e2
    e3 = e3
    f1 = f1
    f2 = f2
    s1 = s1
    s2 = s2
    Envelopes = {e1, e2, e3}
    Workers = {w1}
    Orgs = {acme, beta}
    Org <- BusyOrg
    Calls = {c1, c2}
    Call <- BusyCall
    Otlp = {}
    Conflicted = {}
    Limit = 2
    ClaimLimit = 3
    DlqLimit = 2
    MaxFaults = 0
    Receivers = {r1, r2}
    Drainers = {w1, w2}
    CallIds = {c1}
    Deliveries = {a}
    Posts = {early, late}
    CallOf <- ToA
    DeliveryOf <- OfA
    MaxReceptions = 3
    MaxMishaps = 2
    Servers = {r1, r2}
    Spans = {s1, s2}
    Fingerprints = {f1, f2}
    Batches <- TraceBatches
    DepthLimit = 1
    MaxBegun = 4
    MaxFailures = 1
CHECK_DEADLOCK FALSE
INVARIANTS BodiesAccounted NamesWhatWasDecoded ProcessAgrees DepthBounded
PROPERTY FairShare
