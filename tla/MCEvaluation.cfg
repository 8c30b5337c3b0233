SPECIFICATION FairSpec
CONSTANTS
    w1 = w1
    w2 = w2
    q1 = q1
    r1 = r1
    r2 = r2
    Drainers = {w1, w2}
    Requests = {q1}
    Revisions = {r1, r2}
    Rubrics = 2
    Triggered = {r1}
    PackCalls = 2
    Budget = 2
    MaxJobs = 4
    MaxFaults = 1
CHECK_DEADLOCK FALSE
INVARIANT OvershootBounded
PROPERTIES VerdictsStay Evaluated
