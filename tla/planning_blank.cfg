\* Answers of one item: a task with a blank acceptance is refused at every resume.
SPECIFICATION FairSpec
CONSTANTS
    None = None
    Names = {"a", "b", " a", "b ", " "}
    TrimLeft <- Left
    TrimRight <- Right
    RawGoals <- SomeGoals
    RawScopes <- SomeScopes
    RawDeps <- SomeDeps
    MaxGoals = 2
    Limit = 2
    MaxItems = 1
    MaxFaults = 1
PROPERTY InterruptedIsFinished
CHECK_DEADLOCK FALSE
