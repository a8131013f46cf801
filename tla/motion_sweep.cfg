\* Two tasks and a cap of one wake per sweep, one attempt.
SPECIFICATION FairSpec
CONSTANTS
    a1 = a1
    t1 = t1
    t2 = t2
    None = None
    Attempts <- OneAttempt
    Tasks <- TwoTasks
    TaskOf <- FirstOnly
    Blocker <- EachOther
    MaxWakes = 1
    Unassigned = 1
    MaxEvents = 1
INVARIANTS
    OncePerEpisode
    RememberedWasDone
PROPERTIES
    StallsAreRaised
    NoticesArrive
    QuietIsRaised
