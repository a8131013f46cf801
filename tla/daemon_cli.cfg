\* The bot and the command line pause and resume at the same time.
SPECIFICATION Spec
CONSTANTS
    p1 = p1
    p2 = p2
    d = d
    cli = cli
    Projects = {p1, p2}
    Loops = {"intake"}
    Procs = {d, cli}
    daemon = d
    Threshold = 3
    MaxFaults = 0
    Interruptible = {}
INVARIANT ResumeRestarts
SYMMETRY Symmetry
