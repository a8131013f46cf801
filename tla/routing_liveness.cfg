\* A task and one that waits for it, one worker, one crash or refusal.
SPECIFICATION FairSpec
CONSTANTS
    t1 = t1
    t2 = t2
    a1 = a1
    a2 = a2
    None = None
    Tasks = {t1, t2}
    Workers = {a1}
    Deps <- Chain
    Reserved = {}
    Limit = 2
    TurnCap = 1
    Moves = {}
    MaxMoves = 0
    MaxFaults = 1
PROPERTIES
    WakesAreAnswered
    ReadyIsConsidered
    BlocksAreTold
CHECK_DEADLOCK FALSE
