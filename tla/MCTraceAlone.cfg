SPECIFICATION FairSpec
CONSTANTS
    outcome = outcome
    root = root
    turn = turn
    serve = serve
    worker = worker
    Processes = {worker}
    Batches = {outcome, root, turn}
    Rooting = {root}
    Timed = {root}
    Ending = {outcome}
    ClaimLimit = 2
    SavesFail = TRUE
    MaxFaults = 1
CHECK_DEADLOCK FALSE
INVARIANT SpansKept
PROPERTIES EndingKept Reaches
