\* The daemon and the command line's reset; faults strike anything but pause().
SPECIFICATION Spec
CONSTANTS
    p1 = p1
    p2 = p2
    d = d
    cli = cli
    Projects = {p1, p2}
    Loops = {"intake", "turn"}
    Procs = {d}
    daemon = d
    Threshold = 2
    MaxFaults = 1
    Interruptible = {"resume", "loop"}
INVARIANTS
    ResetSticks
    PausedIsRemembered
    RunningMeansResumed
SYMMETRY Symmetry
