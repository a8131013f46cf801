\* Two cards, each with two versions under different titles, whose project ids collide.
SPECIFICATION Spec
CONSTANTS
    c1 = c1
    c2 = c2
    v1 = v1
    v2 = v2
    p1 = p1
    p2 = p2
    t1 = t1
    t2 = t2
    None = None
    Cards = {c1, c2}
    Versions = {v1, v2}
    Taps = {t1, t2}
    Projects = {p1, p2}
    ProjectOf <- ByVersion
    Plans <- TwoPlans
    MaxFaults = 2
INVARIANTS
    YesBinds
    ProjectKeepsCard
    GrantedIsComplete
    SetupIsHeld
    TasksFollowOnePlan
    RetriesAgree
PROPERTY Promise
SYMMETRY Symmetry
