\* A reserved task and one that waits for it, two workers; one crash or refusal, and one move of the owner or the operator, at any point.
SPECIFICATION Spec
CONSTANTS
    t1 = t1
    t2 = t2
    a1 = a1
    a2 = a2
    None = None
    Tasks = {t1, t2}
    Workers = {a1, a2}
    Deps <- Chain
    Reserved = {t1}
    Limit = 2
    TurnCap = 1
    Moves = {"start", "rework", "wait", "hold", "cancel", "resume", "scope", "pause", "member"}
    MaxMoves = 1
    MaxFaults = 1
INVARIANTS
    RepeatsCostFaults
    OneWorkerPerCycle
    PaidOnce
PROPERTIES
    NeverBlocksWork
    Dispatches
SYMMETRY SwapWorkers
CHECK_DEADLOCK FALSE
