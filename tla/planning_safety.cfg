\* Cards of up to two goals, answers of up to three items, a cap of two, one fault.
SPECIFICATION FairSpec
CONSTANTS
    None = None
    Names = {"a", "b", " a", "b ", " "}
    TrimLeft <- Left
    TrimRight <- Right
    RawGoals <- SomeGoals
    RawScopes <- SomeScopes
    RawDeps <- SomeDeps
    MaxGoals = 2
    Limit = 2
    MaxItems = 3
    MaxFaults = 1
INVARIANTS
    TasksStayInScope
    GoalsAreServed
    OnlyBlanksAreRefused
PROPERTY SetupFinishes
CHECK_DEADLOCK FALSE
