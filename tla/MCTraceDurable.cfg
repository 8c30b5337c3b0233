SPECIFICATION Spec
CONSTANTS
    outcome = outcome
    root = root
    turn = turn
    serve = serve
    worker = worker
    Processes = {serve, worker}
    Batches = {outcome, root, turn}
    Rooting = {root}
    Timed = {root}
    Ending = {outcome}
    ClaimLimit = 2
    SavesFail = FALSE
    MaxFaults = 0
CHECK_DEADLOCK FALSE
INVARIANT SpansKept
