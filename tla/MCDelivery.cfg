SPECIFICATION MCSpec
CONSTANTS
    p1 = p1
    p2 = p2
    r1 = r1
    d1 = d1
    d2 = d2
    j1 = j1
    Processes = {p1, p2}
    Forwarders = {p1, p2}
    Revisions = {r1}
    Raised <- OneCall
    Types = {"call.finalized", "slo.breached", "flag.raised"}
    Dests = {d1, d2}
    Wants <- Split
    MaxAttempts = 3
    Jobs = {j1}
    Targets = {d1, d2}
    MaxRefusals = 2
    MaxFaults = 2
    MaxTroubles = 2
CHECK_DEADLOCK FALSE
INVARIANTS
    DuplicatesBounded AnnouncedUnlessAbandoned RotationKeepsTrust ForwardedWhole
PROPERTY QueuesSettle
