\* Cards of up to two goals, as many as the cap; answers of up to two items.  The goals that are
\* left out come on top of it.
SPECIFICATION Spec
CONSTANTS
    None = None
    Names = {"a", "b", " a", "b ", " "}
    TrimLeft <- Left
    TrimRight <- Right
    RawGoals <- SomeGoals
    RawScopes <- SomeScopes
    RawDeps <- SomeDeps
    MaxGoals = 2
    Limit = 2
    MaxItems = 2
    MaxFaults = 0
INVARIANT PlanWithinCap
CHECK_DEADLOCK FALSE
