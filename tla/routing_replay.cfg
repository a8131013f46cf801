\* A crash between the block and the acknowledgement; the operator resumes the task.
SPECIFICATION Spec
CONSTANTS
    t1 = t1
    t2 = t2
    a1 = a1
    a2 = a2
    None = None
    Tasks = {t1}
    Workers = {a1}
    Deps <- Alone
    Reserved = {}
    Limit = 2
    TurnCap = 1
    Moves = {"resume"}
    MaxMoves = 1
    MaxFaults = 1
INVARIANT ReplaysReceipts
CHECK_DEADLOCK FALSE
