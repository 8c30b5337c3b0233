SPECIFICATION FairSpec
CONSTANTS
    outcome = outcome
    root = root
    turn = turn
    serve = serve
    worker = worker
    Processes = {serve, worker}
    Batches = {outcome, root}
    Rooting = {root}
    Timed = {root}
    Ending = {outcome}
    ClaimLimit = 1
    SavesFail = TRUE
    MaxFaults = 1
CHECK_DEADLOCK FALSE
INVARIANTS TypeOK FinalizedOffered EndingEarned
PROPERTIES Quiesces
